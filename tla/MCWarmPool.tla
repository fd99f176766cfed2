----------------------------- MODULE MCWarmPool -----------------------------
(***************************************************************************)
(* Small instances of WarmPool for TLC.                                    *)
(***************************************************************************)
EXTENDS WarmPool

CONSTANTS s1, s2, c1, c2, r0, r1, img1, img2

OnePerImage == [img \in Images |-> 1]

Interchangeable ==
  Permutations(Sandboxes) \cup Permutations(Clients) \cup Permutations(Images)
=============================================================================
