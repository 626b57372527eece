------------------------------- MODULE MC_Chan -------------------------------
(* One buffered and one unbuffered channel; selects that send and receive. *)
EXTENDS Chan

CONSTANTS buf, sync

Symmetry == Permutations(Lthread)
MCCapacity == [c \in Chan |-> IF c = buf THEN 1 ELSE 0]
MCSelectArgs == {<<<<sync>>, <<buf>>>>, <<<<buf, buf>>, <<buf>>>>, <<<<>>, <<sync, buf, buf>>>>}
=============================================================================
