---------------------------- MODULE MC_IoWorker ----------------------------
(* Two schedulers for IoWorker: lthread b1 belongs to sched2.              *)
EXTENDS IoWorker

CONSTANTS sched1, sched2, b1

MCSchedOf(lt) == IF lt = b1 THEN sched2 ELSE sched1
=============================================================================
