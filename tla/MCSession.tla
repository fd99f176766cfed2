----------------------------- MODULE MCSession -----------------------------
(***************************************************************************)
(* Small instances of Session for TLC.                                     *)
(***************************************************************************)
EXTENDS Session

CONSTANTS r1, r2, r3

\* All the commands together write at most one line, to standard output where the
\* dump goes too, and only while there is one session.
FewLines ==
  LET lines == {w \in Runs \X Streams : written[w[1]][w[2]] > 0} IN
  /\ Cardinality(lines) <= 1 /\ lines \subseteq Runs \X {"stdout"}
  /\ lines # {} => created = 1

Interchangeable == Permutations(Runs)
=============================================================================
