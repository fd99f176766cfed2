------------------------------ MODULE MCStdout ------------------------------
(***************************************************************************)
(* A small instance of Stdout for TLC.  A variable the agent inherits, one *)
(* the session sets, and a counter of bash's own; values that need every   *)
(* kind of quoting.                                                        *)
(*                                                                         *)
(* One part at a time: with a cap, or a negative one that is none, lines   *)
(* of all lengths in a session as it begins; without one, all environments *)
(* and every change of them, with two lines at most.                       *)
(***************************************************************************)
EXTENDS Stdout

SmallCaps == -1..6

MCChars == Escaped \cup Control \cup {Apostrophe, "n", "t", "a"}
MCNames == {"HOME", "X", "SHLVL"}
MCNeverPersist == {"SHLVL"}
MCInherited == ("HOME" :> <<"a">>) @@ ("SHLVL" :> <<"n">>)
MCValues == {<<Quote, Backslash, "n">>, <<Apostrophe, Apostrophe>>, <<>>, <<"a", Newline>>}
MCEnvs == {MCInherited}
            \cup {MCInherited @@ ("X" :> v) : v \in {<<Backslash, Apostrophe>>, <<"a", Tab>>}}
            \cup {("HOME" :> <<"n">>) @@ (BadName :> <<"a">>)}

Home == CHOOSE d \in Dirs : TRUE
AsItBegins == env = MCInherited /\ cwd = Home /\ dir = Home /\ ~changed
FewLines == Len(said) <= 2 /\ \A i \in DOMAIN said : said[i] <= 1

OneAtATime == IF max # 0 THEN AsItBegins ELSE FewLines
=============================================================================
