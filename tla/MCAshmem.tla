------------------------------ MODULE MCAshmem ------------------------------
(***************************************************************************)
(* Instance of Ashmem for TLC: an area of three pages, so that a pin can  *)
(* cut a range in two and an unpin can join two, another to compete for    *)
(* the LRU list, whose size may become 0 under a sleeping ashmem_mmap, and *)
(* a slab of a few ranges.                                                 *)
(***************************************************************************)
EXTENDS Ashmem, TLC

MCSizes == [a \in Areas |-> IF a = 1 THEN {3} ELSE {0, 1}]
MCOffsets == 0 .. 3
MCLengths == 0 .. 2
MCScans == {1, 2}
MCMaxPage == 4

MCSymmetry == Permutations(Ranges)
=============================================================================
