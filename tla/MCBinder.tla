------------------------------ MODULE MCBinder ------------------------------
(***************************************************************************)
(* Instances of Binder for TLC: two clients that pass references on, which *)
(* are alike, and one client with two death notifications.                 *)
(***************************************************************************)
EXTENDS Binder, TLC

MCSymmetry == Permutations(Clients)
=============================================================================
