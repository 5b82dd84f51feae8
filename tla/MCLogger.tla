------------------------------ MODULE MCLogger ------------------------------
(***************************************************************************)
(* Logger with a ring of 8 bytes, entries of 3 and 4 bytes, so that every  *)
(* part of an entry comes to lie across the end of the buffer, two writers *)
(* that wait for each other and one reader besides the head.               *)
(***************************************************************************)
EXTENDS Logger, TLC

CONSTANTS w1, w2, r1

MCWriters == {w1, w2}
WriterSymmetry == Permutations(MCWriters)
MCReaders == {r1}
MCEntries == {<<1>>, <<0, 1>>}
=============================================================================
