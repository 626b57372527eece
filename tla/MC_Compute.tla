---------------------------- MODULE MC_Compute ----------------------------
(* Two schedulers for Compute: lthread b1 belongs to sched2.               *)
EXTENDS Compute

CONSTANTS sched1, sched2, a1, a2, b1

(* Two lthreads of one scheduler, and one of each.                         *)
MCPopulations == {{a1, a2}, {a1, b1}}

MCSchedOf(lt) == IF lt = b1 THEN sched2 ELSE sched1
=============================================================================
