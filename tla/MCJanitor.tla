----------------------------- MODULE MCJanitor -----------------------------
(***************************************************************************)
(* A small instance of Janitor for TLC.                                    *)
(***************************************************************************)
EXTENDS Janitor, TLC

CONSTANTS s1, s2

Interchangeable == Permutations(Sandboxes)
=============================================================================
