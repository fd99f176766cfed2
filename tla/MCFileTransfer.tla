--------------------------- MODULE MCFileTransfer ---------------------------
(***************************************************************************)
(* Small disks for FileTransfer: a directory with a file or a link in it,  *)
(* and beside it a file, which the link may lead to, or something special. *)
(***************************************************************************)
EXTENDS FileTransfer

Top == <<>>
D == <<"d">>
F == <<"d", "f">>
G == <<"g">>

MCWalk == <<Top, D, F, G>>
MCContents == {"a", "b", "old"}

Disks(top, d, f, g) ==
  {disk \in {(Top :> t) @@ (D :> x) @@ (F :> y) @@ (G :> z) :
               t \in top, x \in d, y \in f, z \in g} : IsTree(disk)}

MCSources ==
  Disks({Dir(TRUE), Dir(FALSE)},
        {Absent, Dir(TRUE), Dir(FALSE)},
        {Absent, File("a", TRUE), File("a", FALSE), Link(G)},
        {Absent, File("b", TRUE), Fifo, Socket})

MCPriors ==
  Disks({Absent, Dir(TRUE), Dir(FALSE)},
        {Absent, Dir(TRUE), Dir(FALSE), File("old", TRUE)},
        {Absent, File("old", TRUE), File("old", FALSE), Link(G)},
        {Absent, File("old", TRUE), Dir(TRUE)})
=============================================================================
