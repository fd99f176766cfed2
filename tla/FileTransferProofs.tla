------------------------- MODULE FileTransferProofs -------------------------
(***************************************************************************)
(* Proofs about FileTransfer, for all trees of paths, all disks on both    *)
(* sides and every place where a transfer can fail.                        *)
(***************************************************************************)
EXTENDS FileTransfer, SequenceTheorems, TLAPS

(***************************************************************************)
(* Paths and nodes                                                         *)
(***************************************************************************)

LEMMA PathsAreSequences == Paths \subseteq Seq(STRING)
BY WalkAssumption DEF Paths, ToSet

LEMMA PrefixByPosition ==
  ASSUME NEW s \in Seq(STRING), NEW t \in Seq(STRING)
  PROVE  IsPrefix(s, t) <=> Len(s) <= Len(t) /\ \A i \in 1..Len(s) : s[i] = t[i]
<1>1. Len(s) \in Nat /\ Len(t) \in Nat
  OBVIOUS
<1>2. /\ SubSeq(s, 1, Len(s)) \in Seq(STRING) /\ Len(SubSeq(s, 1, Len(s))) = Len(s)
      /\ \A i \in 1..Len(s) : SubSeq(s, 1, Len(s))[i] = s[i]
  BY <1>1
<1>3. ASSUME Len(s) <= Len(t)
      PROVE  /\ SubSeq(t, 1, Len(s)) \in Seq(STRING) /\ Len(SubSeq(t, 1, Len(s))) = Len(s)
             /\ \A i \in 1..Len(s) : SubSeq(t, 1, Len(s))[i] = t[i]
  BY <1>1, <1>3
<1>4. ASSUME Len(s) <= Len(t), \A i \in 1..Len(s) : s[i] = t[i]
      PROVE  SubSeq(s, 1, Len(s)) = SubSeq(t, 1, Len(s))
  BY <1>2, <1>3, <1>4, SeqEqual
<1> QED BY <1>2, <1>3, <1>4 DEF IsPrefix

\* Prefixes order the paths, and lead through the directory a path lies in.
LEMMA PathFacts ==
  ASSUME NEW p \in Paths
  PROVE  /\ IsPrefix(p, p)
         /\ \A q, r \in Paths : IsPrefix(q, r) /\ IsPrefix(r, p) => IsPrefix(q, p)
         /\ \A q \in Paths : IsPrefix(p, q) /\ IsPrefix(q, p) => p = q
         /\ p # <<>> => Front(p) \in Paths /\ Front(p) # p /\ IsPrefix(Front(p), p)
         /\ \A q \in Paths : IsPrefix(q, p) /\ q # p => p # <<>> /\ IsPrefix(q, Front(p))
<1>0. \A q \in Paths : q \in Seq(STRING) /\ Len(q) \in Nat
  BY PathsAreSequences
<1>1. IsPrefix(p, p)
  BY <1>0, PrefixByPosition
<1>2. ASSUME NEW q \in Paths, NEW r \in Paths, IsPrefix(q, r), IsPrefix(r, p)
      PROVE  IsPrefix(q, p)
  BY <1>0, <1>2, PrefixByPosition
<1>3. ASSUME NEW q \in Paths, IsPrefix(p, q), IsPrefix(q, p) PROVE p = q
  BY <1>0, <1>3, PrefixByPosition, SeqEqual
<1>4. ASSUME p # <<>>
      PROVE  /\ Front(p) \in Paths /\ Front(p) \in Seq(STRING) /\ Len(Front(p)) = Len(p) - 1
             /\ \A i \in 1..(Len(p) - 1) : Front(p)[i] = p[i]
  <2>1. Front(p) \in Paths
    BY <1>4, WalkAssumption
  <2>2. Len(p) - 1 \in 0..Len(p)
    BY <1>0, <1>4
  <2>3. /\ SubSeq(p, 1, Len(p) - 1) \in Seq(STRING)
        /\ Len(SubSeq(p, 1, Len(p) - 1)) = Len(p) - 1
        /\ \A i \in 1..(Len(p) - 1) : SubSeq(p, 1, Len(p) - 1)[i] = p[i]
    BY <1>0, <2>2
  <2> QED BY <2>1, <2>3 DEF Front
<1>5. ASSUME p # <<>> PROVE Front(p) # p /\ IsPrefix(Front(p), p)
  BY <1>0, <1>4, <1>5, PrefixByPosition
<1>6. ASSUME NEW q \in Paths, IsPrefix(q, p), q # p PROVE p # <<>> /\ IsPrefix(q, Front(p))
  <2>1. Len(q) <= Len(p) /\ \A i \in 1..Len(q) : q[i] = p[i]
    BY <1>0, <1>6, PrefixByPosition
  <2>2. Len(q) # Len(p)
    BY <1>0, <1>6, <2>1, SeqEqual
  <2>3. p # <<>> /\ Len(q) <= Len(p) - 1
    BY <1>0, <2>1, <2>2
  <2> QED BY <1>0, <1>4, <2>1, <2>3, PrefixByPosition
<1> QED BY <1>1, <1>2, <1>3, <1>4, <1>5, <1>6

\* The kinds of nodes are apart.
LEMMA NodeFacts ==
  ASSUME NEW n \in Nodes
  PROVE  /\ n.kind = "absent" <=> n = Absent
         /\ n.kind = "dir" <=> n = Dir(TRUE) \/ n = Dir(FALSE)
         /\ n.kind = "file" =>
              /\ n.data \in Contents \cup {Partial} /\ n.writable \in BOOLEAN
              /\ n = File(n.data, n.writable)
         /\ n.kind = "link" => n.to \in Paths /\ n = Link(n.to)
         /\ n.kind \in {"absent", "dir", "file", "link", "fifo", "socket"}
BY DEF Nodes, Absent, Dir, File, Link, Fifo, Socket

LEMMA NodesMade ==
  /\ Absent \in Nodes /\ Absent.kind = "absent"
  /\ \A w \in BOOLEAN : Dir(w) \in Nodes /\ Dir(w).kind = "dir"
  /\ Dir(TRUE) # Dir(FALSE)
  /\ \A c \in Contents \cup {Partial}, w \in BOOLEAN :
       /\ File(c, w) \in Nodes /\ File(c, w).kind = "file"
       /\ File(c, w).data = c /\ File(c, w).writable = w
  /\ \A p \in Paths : Link(p).kind = "link" /\ Link(p).to = p
<1>1. Absent \in Nodes /\ Absent.kind = "absent"
  BY DEF Nodes, Absent
<1>2. ASSUME NEW w \in BOOLEAN PROVE Dir(w) \in Nodes /\ Dir(w).kind = "dir"
  BY DEF Nodes, Dir
<1>3. Dir(TRUE) # Dir(FALSE)
  <2>1. Dir(TRUE).writable = TRUE /\ Dir(FALSE).writable = FALSE
    BY DEF Dir
  <2> QED BY <2>1
<1>4. ASSUME NEW c \in Contents \cup {Partial}, NEW w \in BOOLEAN
      PROVE  /\ File(c, w) \in Nodes /\ File(c, w).kind = "file"
             /\ File(c, w).data = c /\ File(c, w).writable = w
  <2>1. File(c, w) \in Nodes
    BY DEF Nodes
  <2>2. File(c, w).kind = "file" /\ File(c, w).data = c /\ File(c, w).writable = w
    BY DEF File
  <2> QED BY <2>1, <2>2
<1>5. ASSUME NEW p \in Paths PROVE Link(p).kind = "link" /\ Link(p).to = p
  BY DEF Link
<1> QED BY <1>1, <1>2, <1>3, <1>4, <1>5

Disk == [Paths -> Nodes]

\* A node is put into a tree: below it nothing is left unless it is a directory, and
\* it lies in one.
LEMMA PutInTree ==
  ASSUME NEW m \in Disk, IsTree(m), NEW q \in Paths, NEW n \in Nodes,
         n.kind = "dir" \/ \A r \in Below(q) : m[r] = Absent,
         n = Absent \/ m[q] # Absent \/ q = <<>> \/ m[Front(q)].kind = "dir"
  PROVE  [m EXCEPT ![q] = n] \in Disk /\ IsTree([m EXCEPT ![q] = n])
<1> DEFINE d == [m EXCEPT ![q] = n]
<1>1. d \in Disk /\ d[q] = n /\ \A r \in Paths : r # q => d[r] = m[r]
  BY DEF Disk
<1> HIDE DEF d
<1>2. ASSUME NEW p \in Paths, NEW r \in Below(p), d[r] # Absent PROVE d[p].kind = "dir"
  <2>0. r \in Paths /\ r # p /\ IsPrefix(p, r)
    BY DEF Below
  <2>1. CASE p = q
    BY <1>1, <1>2, <2>0, <2>1
  <2>2. CASE p # q /\ r # q
    BY <1>1, <1>2, <2>0, <2>2 DEF IsTree
  <2>3. CASE p # q /\ r = q
    <3>1. q # <<>> /\ IsPrefix(p, Front(q)) /\ Front(q) \in Paths /\ Front(q) # q
      BY <2>0, <2>3, PathFacts
    <3>2. n # Absent
      BY <1>1, <1>2, <2>3
    <3>3. CASE m[q] # Absent
      BY <1>1, <2>3, <3>3 DEF IsTree
    <3>4. CASE m[Front(q)].kind = "dir"
      <4>1. m[Front(q)] # Absent
        BY <3>4, NodesMade
      <4>2. CASE p = Front(q)
        BY <1>1, <2>3, <3>4, <4>2
      <4>3. CASE p # Front(q)
        <5>1. Front(q) \in Below(p)
          BY <3>1, <4>3 DEF Below
        <5> QED BY <1>1, <2>3, <4>1, <5>1 DEF IsTree
      <4> QED BY <4>2, <4>3
    <3> QED BY <3>1, <3>2, <3>3, <3>4
  <2> QED BY <2>1, <2>2, <2>3
<1> QED BY <1>1, <1>2 DEF IsTree, d

\* MkdirAll makes a tree of a tree.
LEMMA MadeDirsFacts ==
  ASSUME dest \in Disk, IsTree(dest), NEW p \in Paths, CanMakeDirs(p)
  PROVE  /\ MadeDirs(p) \in Disk /\ IsTree(MadeDirs(p))
         /\ \A q \in Paths :
              \/ MadeDirs(p)[q] = dest[q]
              \/ dest[q] = Absent /\ MadeDirs(p)[q] = Dir(TRUE) /\ q \in Up(p)
         /\ \A q \in Up(p) : q \in Paths /\ MadeDirs(p)[q].kind = "dir"
<1> DEFINE m == MadeDirs(p)
<1>1. m \in Disk
  BY NodesMade DEF MadeDirs, Disk
<1>2. \A q \in Paths :
        m[q] = dest[q] \/ (dest[q] = Absent /\ m[q] = Dir(TRUE) /\ q \in Up(p))
  BY DEF MadeDirs
<1>3. ASSUME NEW q \in Up(p) PROVE q \in Paths /\ m[q].kind = "dir"
  <2>1. q \in Paths /\ dest[q].kind \in {"absent", "dir"} /\ dest[q] \in Nodes
    BY DEF Up, CanMakeDirs, Disk
  <2>2. CASE dest[q] = Absent
    BY <2>1, <2>2, NodesMade DEF MadeDirs
  <2>3. CASE dest[q] # Absent
    BY <2>1, <2>3, NodeFacts DEF MadeDirs
  <2> QED BY <2>1, <2>2, <2>3
<1> HIDE DEF m
<1>4. ASSUME NEW q \in Paths, NEW r \in Below(q), m[r] # Absent PROVE m[q].kind = "dir"
  <2>0. r \in Paths /\ r # q /\ IsPrefix(q, r)
    BY DEF Below
  <2>1. CASE r \in Up(p)
    <3>1. q \in Up(p)
      BY <2>0, <2>1, PathFacts DEF Up
    <3> QED BY <1>3, <3>1
  <2>2. CASE dest[r] # Absent
    <3>1. dest[q].kind = "dir"
      BY <2>2 DEF IsTree
    <3>2. dest[q] # Absent
      BY <3>1, NodesMade
    <3> QED BY <1>2, <3>1, <3>2
  <2> QED BY <1>2, <1>4, <2>0, <2>1, <2>2
<1> QED BY <1>1, <1>2, <1>3, <1>4 DEF IsTree, m

(***************************************************************************)
(* The disks and the entries                                               *)
(***************************************************************************)

\* A link is one that was there before, or an entry that has come.
Links ==
  \A p \in Paths : dest[p].kind = "link" =>
    \/ dest[p] = prior[p]
    \/ p \in sent \ todo /\ source[p].kind = "link" /\ dest[p] = source[p]

LEMMA DiskFacts ==
  ASSUME TypeOK
  PROVE  /\ source \in Disk /\ IsTree(source) /\ source[<<>>].kind = "dir"
         /\ prior \in Disk /\ IsTree(prior)
         /\ dest \in Disk /\ IsTree(dest)
         /\ <<>> \in Paths /\ sent \subseteq Paths /\ todo \subseteq Paths
         /\ \A p \in Paths :
              /\ source[p] \in Nodes /\ prior[p] \in Nodes /\ dest[p] \in Nodes
              /\ source[p].kind = "file" => source[p].data \in Contents
              /\ prior[p].kind = "file" => prior[p].data \in Contents
              /\ source[p].kind = "link" =>
                   source[source[p].to].kind # "link" /\ prior[source[p].to].kind # "link"
              /\ prior[p].kind = "link" =>
                   source[prior[p].to].kind # "link" /\ prior[prior[p].to].kind # "link"
<1>1. source \in Sources /\ prior \in Priors /\ dest \in Disk /\ IsTree(dest)
  BY DEF TypeOK, Disk
<1>2. sent \subseteq Paths /\ todo \subseteq Paths /\ <<>> \in Paths
  BY WalkAssumption DEF TypeOK
<1>3. /\ source \in Disk /\ IsTree(source) /\ prior \in Disk /\ IsTree(prior)
      /\ source[<<>>].kind \in {"absent", "dir"} /\ source[<<>>] # Absent
  BY <1>1, DisksAssumption DEF Disk
<1>4. source[<<>>] \in Nodes
  BY <1>2, <1>3 DEF Disk
<1>5. source[<<>>].kind = "dir"
  BY <1>3, <1>4, NodeFacts
<1>6. ASSUME NEW p \in Paths
      PROVE  source[p] \in Nodes /\ prior[p] \in Nodes /\ dest[p] \in Nodes
  BY <1>1, <1>3 DEF Disk
<1>7. ASSUME NEW p \in Paths
      PROVE  /\ source[p].kind = "file" => source[p].data \in Contents
             /\ prior[p].kind = "file" => prior[p].data \in Contents
             /\ source[p].kind = "link" =>
                  source[source[p].to].kind # "link" /\ prior[source[p].to].kind # "link"
             /\ prior[p].kind = "link" =>
                  source[prior[p].to].kind # "link" /\ prior[prior[p].to].kind # "link"
  BY <1>1, DisksAssumption
<1> QED BY <1>1, <1>2, <1>3, <1>5, <1>6, <1>7

\* One entry comes next; those above it have come.
LEMMA ComesFacts ==
  ASSUME TypeOK, NEW p \in Paths, Comes(p)
  PROVE  p \in todo /\ p \in sent /\ \A q \in Paths : Comes(q) => q = p
<1>1. \A q \in Paths : Position(q) \in DOMAIN Walk /\ Walk[Position(q)] = q
  <2> TAKE q \in Paths
  <2>1. \E i \in DOMAIN Walk : Walk[i] = q
    BY WalkAssumption DEF Paths, ToSet
  <2> QED BY <2>1 DEF Position
<1>2. DOMAIN Walk \subseteq Nat
  BY WalkAssumption
<1>3. ASSUME NEW q \in Paths, Comes(q) PROVE q = p
  <2>1. Position(p) <= Position(q) /\ Position(q) <= Position(p)
    BY <1>3 DEF Comes
  <2>2. Position(p) = Position(q)
    BY <1>1, <1>2, <2>1
  <2> QED BY <1>1, <2>2
<1> QED BY <1>3 DEF Comes, TypeOK

\* Real follows a link to where no link is.
LEMMA RealFacts ==
  ASSUME TypeOK, Links, NEW p \in Paths
  PROVE  /\ Real(p) \in Paths /\ dest[Real(p)].kind # "link"
         /\ Real(p) # p => dest[p] = Link(Real(p)) /\ dest[p].kind = "link"
         /\ source[p].kind = "file" /\ Real(p) # p => prior[p] = Link(Real(p))
<1>1. CASE dest[p].kind = "link"
  <2>1. Real(p) = dest[p].to /\ Real(p) \in Paths /\ dest[p] = Link(Real(p))
    BY <1>1, DiskFacts, NodeFacts DEF Real
  <2>2. source[Real(p)].kind # "link" /\ prior[Real(p)].kind # "link"
    BY <1>1, <2>1, DiskFacts DEF Links
  <2>3. dest[Real(p)].kind # "link"
    BY <2>1, <2>2 DEF Links
  <2>4. source[p].kind = "file" => prior[p] = dest[p]
    BY <1>1 DEF Links
  <2> QED BY <1>1, <2>1, <2>3, <2>4
<1>2. CASE dest[p].kind # "link"
  BY <1>2 DEF Real
<1> QED BY <1>1, <1>2

(***************************************************************************)
(* What each step does to the disk                                         *)
(***************************************************************************)

\* Except at r, d is dest with directories made on the way to x.
Grown(d, x, r) ==
  \A q \in Paths \ {r} :
    d[q] = dest[q] \/ (dest[q] = Absent /\ d[q] = Dir(TRUE) /\ q \in Up(x))

LEMMA OpenEffect ==
  ASSUME TypeOK, Links, NEW p \in Paths, source[p].kind = "file", CanOpen(p),
         NEW d, d = [MadeDirs(Front(p)) EXCEPT ![Real(p)] = File(Partial, TRUE)]
  PROVE  /\ p # <<>> /\ Front(p) \in Paths
         /\ d \in Disk /\ IsTree(d) /\ d[Real(p)] = File(Partial, TRUE)
         /\ Grown(d, Front(p), Real(p))
         /\ dest[Real(p)].kind \in {"absent", "file"}
<1> DEFINE q == Real(p)
           m == MadeDirs(Front(p))
<1>1. p # <<>> /\ Front(p) \in Paths /\ ~IsPrefix(p, Front(p))
  BY DiskFacts, PathFacts
<1>2. q \in Paths /\ (q # p => dest[p].kind = "link")
  BY RealFacts
<1>3. CanMakeDirs(Front(p))
  BY DEF CanOpen
<1>4. /\ m \in Disk /\ IsTree(m)
      /\ \A r \in Paths :
           m[r] = dest[r] \/ (dest[r] = Absent /\ m[r] = Dir(TRUE) /\ r \in Up(Front(p)))
      /\ \A r \in Up(Front(p)) : r \in Paths /\ m[r].kind = "dir"
  BY <1>1, <1>3, DiskFacts, MadeDirsFacts
<1>5. \/ dest[q].kind = "file"
      \/ dest[q] = Absent /\ Accepts(m, q)
  BY DEF CanOpen
<1>6. dest \in Disk /\ IsTree(dest) /\ dest[q] \in Nodes /\ dest[p] \in Nodes
  BY <1>2, DiskFacts
<1>7. q \notin Up(Front(p))
  <2>1. CASE q = p
    BY <1>1, <2>1 DEF Up
  <2>2. CASE q # p /\ dest[q] = Absent
    <3> SUFFICES ASSUME q \in Up(Front(p)) PROVE FALSE
      OBVIOUS
    <3>1. IsPrefix(q, p)
      BY <1>1, <1>2, PathFacts DEF Up
    <3>2. p \in Below(q)
      BY <1>2, <2>2, <3>1 DEF Below
    <3>3. dest[p] # Absent
      BY <1>2, <2>2, NodesMade
    <3>4. dest[q].kind = "dir"
      BY <1>2, <1>6, <3>2, <3>3 DEF IsTree
    <3> QED BY <2>2, <3>4, NodesMade
  <2>3. CASE dest[q].kind = "file"
    BY <1>3, <2>3 DEF CanMakeDirs
  <2> QED BY <1>5, <2>1, <2>2, <2>3
<1>8. ASSUME NEW r \in Below(q) PROVE m[r] = Absent
  <2>0. r \in Paths /\ IsPrefix(q, r)
    BY DEF Below
  <2>1. dest[q].kind # "dir"
    BY <1>5, NodesMade
  <2>2. dest[r] = Absent
    BY <1>2, <1>6, <2>1 DEF IsTree
  <2>3. r \notin Up(Front(p))
    BY <1>1, <1>2, <1>7, <2>0, PathFacts DEF Up
  <2> QED BY <1>4, <2>0, <2>2, <2>3
<1>9. m[q] # Absent \/ q = <<>> \/ m[Front(q)].kind = "dir"
  <2>1. CASE dest[q].kind = "file"
    BY <1>2, <1>4, <2>1, NodesMade
  <2>2. CASE Accepts(m, q)
    BY <2>2, NodesMade DEF Accepts
  <2> QED BY <1>5, <2>1, <2>2
<1>10. File(Partial, TRUE) \in Nodes
  BY NodesMade
<1>11. d \in Disk /\ IsTree(d)
  BY <1>2, <1>4, <1>8, <1>9, <1>10, PutInTree
<1>12. d[q] = File(Partial, TRUE) /\ \A r \in Paths \ {q} : d[r] = m[r]
  BY <1>2, <1>4 DEF Disk
<1>13. Grown(d, Front(p), q)
  BY <1>4, <1>12 DEF Grown
<1> QED BY <1>1, <1>5, <1>11, <1>12, <1>13, NodesMade

LEMMA LinkEffect ==
  ASSUME TypeOK, NEW p \in Paths, source[p].kind = "link", CanLink(p),
         NEW d, d = [MadeDirs(Front(p)) EXCEPT ![p] = source[p]]
  PROVE  /\ p # <<>> /\ Front(p) \in Paths
         /\ d \in Disk /\ IsTree(d) /\ d[p] = source[p]
         /\ Grown(d, Front(p), p)
<1> DEFINE m == MadeDirs(Front(p))
<1>1. p # <<>> /\ Front(p) \in Paths /\ ~IsPrefix(p, Front(p))
  BY DiskFacts, PathFacts
<1>2. CanMakeDirs(Front(p))
  BY DEF CanLink
<1>3. /\ m \in Disk /\ IsTree(m)
      /\ \A r \in Paths :
           m[r] = dest[r] \/ (dest[r] = Absent /\ m[r] = Dir(TRUE) /\ r \in Up(Front(p)))
      /\ \A r \in Up(Front(p)) : r \in Paths /\ m[r].kind = "dir"
  BY <1>1, <1>2, DiskFacts, MadeDirsFacts
<1>4. ASSUME NEW r \in Below(p) PROVE m[r] = Absent
  <2>0. r \in Paths /\ IsPrefix(p, r)
    BY DEF Below
  <2>1. dest[r] = Absent
    <3>1. CASE dest[p] = Absent
      BY <3>1, DiskFacts, NodesMade DEF IsTree
    <3>2. CASE dest[p] # Absent
      BY <3>2 DEF CanLink, Removable
    <3> QED BY <3>1, <3>2
  <2>2. r \notin Up(Front(p))
    BY <1>1, <2>0, PathFacts DEF Up
  <2> QED BY <1>3, <2>0, <2>1, <2>2
<1>5. m[Front(p)].kind = "dir"
  BY <1>1, <1>3, PathFacts DEF Up
<1>6. source[p] \in Nodes
  BY DiskFacts
<1>7. d \in Disk /\ IsTree(d)
  BY <1>3, <1>4, <1>5, <1>6, PutInTree
<1>8. d[p] = source[p] /\ \A r \in Paths \ {p} : d[r] = m[r]
  BY <1>3 DEF Disk
<1>9. Grown(d, Front(p), p)
  BY <1>3, <1>8 DEF Grown
<1> QED BY <1>1, <1>7, <1>8, <1>9

LEMMA RemovedEffect ==
  ASSUME TypeOK, NEW p \in Paths
  PROVE  /\ Removed(p) \in Disk /\ IsTree(Removed(p))
         /\ \A q \in Paths : Removed(p)[q] = dest[q] \/ (q = p /\ Removed(p)[q] = Absent)
         /\ Removable(p) => Removed(p)[p] = Absent
<1>1. dest \in Disk /\ IsTree(dest)
  BY DiskFacts
<1>2. CASE Removable(p)
  <2>1. \A r \in Below(p) : dest[r] = Absent
    BY <1>2 DEF Removable
  <2>2. [dest EXCEPT ![p] = Absent] \in Disk /\ IsTree([dest EXCEPT ![p] = Absent])
    BY <1>1, <2>1, NodesMade, PutInTree
  <2> QED BY <1>1, <1>2, <2>2 DEF Removed, Disk
<1>3. CASE ~Removable(p)
  BY <1>1, <1>3 DEF Removed
<1> QED BY <1>2, <1>3

\* Setting modes leaves the shape.
LEMMA FinishEffect ==
  ASSUME TypeOK, \A p \in dirs : dest[p].kind = "dir",
         NEW d, d = [p \in Paths |-> IF p \in dirs THEN source[p] ELSE dest[p]]
  PROVE  d \in Disk /\ IsTree(d) /\ \A p \in Paths : d[p].kind = dest[p].kind
<1>1. /\ dest \in Disk /\ IsTree(dest)
      /\ \A p \in Paths : source[p] \in Nodes /\ dest[p] \in Nodes
  BY DiskFacts
<1>2. \A p \in dirs : source[p].kind = "dir"
  BY DEF TypeOK
<1>3. d \in Disk /\ \A p \in Paths : d[p].kind = dest[p].kind /\ d[p] \in Nodes
  BY <1>1, <1>2 DEF Disk
<1>4. ASSUME NEW p \in Paths, NEW q \in Below(p), d[q] # Absent PROVE d[p].kind = "dir"
  <2>1. q \in Paths
    BY DEF Below
  <2>2. dest[q] # Absent
    BY <1>1, <1>3, <1>4, <2>1, NodeFacts
  <2> QED BY <1>1, <1>3, <2>2 DEF IsTree
<1> QED BY <1>3, <1>4 DEF IsTree

(***************************************************************************)
(* The invariant                                                           *)
(***************************************************************************)

\* Only what is there is sent, and WriteFile sends one file.
Entries ==
  /\ \A p \in sent : source[p] # Absent
  /\ way = "put" => \E p \in Paths : sent = {p} /\ source[p].kind = "file"

\* The file being copied is the one of the entry that comes next.
Opened ==
  open => \A p \in Paths : Comes(p) =>
    source[p].kind = "file" /\ dest[Real(p)] = File(Partial, TRUE)

DirsMade == \A p \in dirs : dest[p].kind = "dir"

\* Until the last entry has come, no directory has been made read-only.
ModesWait ==
  answer = None => \A p \in Paths : dest[p] = Dir(FALSE) => prior[p] = Dir(FALSE)

IInv == TypeOK /\ Links /\ Entries /\ Opened /\ DirsMade /\ ModesWait

LEMMA InitIInv == Init => IInv
<1> SUFFICES ASSUME Init PROVE IInv
  OBVIOUS
<1>1. prior \in Disk /\ IsTree(prior) /\ prior[<<>>].kind \in {"absent", "dir"} /\ <<>> \in Paths
  BY DisksAssumption, WalkAssumption DEF Init, Disk
<1>2. /\ dest \in Disk /\ IsTree(dest)
      /\ \A p \in Paths : dest[p] = prior[p] \/ dest[p] = Dir(TRUE)
  <2>1. CASE way = "download" /\ prior[<<>>] = Absent
    <3>1. dest = [prior EXCEPT ![<<>>] = Dir(TRUE)]
      BY <2>1 DEF Init, Start
    <3> QED BY <1>1, <3>1, NodesMade, PutInTree DEF Disk
  <2>2. CASE ~(way = "download" /\ prior[<<>>] = Absent)
    BY <1>1, <2>2 DEF Init, Start
  <2> QED BY <2>1, <2>2
<1>3. /\ sent \subseteq Paths /\ \A p \in sent : source[p] # Absent
      /\ way = "put" => \E p \in Paths : sent = {p} /\ source[p].kind = "file"
  <2>1. CASE way = "put"
    <3>1. PICK p \in Paths : source[p].kind = "file" /\ sent = {p}
      BY <2>1 DEF Init, Archives
    <3> QED BY <3>1, NodesMade
  <2>2. CASE way # "put"
    BY <2>2 DEF Init, Archives
  <2> QED BY <2>1, <2>2
<1>4. TypeOK
  BY <1>2, <1>3 DEF Init, TypeOK, Disk, None
<1>5. Links /\ ModesWait
  BY <1>2, NodesMade DEF Links, ModesWait
<1>6. Entries /\ Opened /\ DirsMade
  BY <1>3 DEF Init, Entries, Opened, DirsMade
<1> QED BY <1>4, <1>5, <1>6 DEF IInv

(***************************************************************************)
(* The steps of Unpack, as the proofs use them                             *)
(***************************************************************************)

LEMMA DirStep ==
  ASSUME IInv, NEW p \in Paths, UnpackDir(p)
  PROVE  /\ dest' \in Disk /\ IsTree(dest') /\ Grown(dest', p, p)
         /\ dest'[p].kind = "dir"
         /\ dest'[p] = dest[p] \/ (dest[p] = Absent /\ dest'[p] = Dir(TRUE))
<1>1. CanMakeDirs(p) /\ dest' = MadeDirs(p) /\ p \in Up(p)
  BY PathFacts DEF UnpackDir, Up
<1>2. dest \in Disk /\ IsTree(dest)
  BY DiskFacts DEF IInv
<1> QED BY <1>1, <1>2, MadeDirsFacts DEF Grown

LEMMA OpenStep ==
  ASSUME IInv, NEW p \in Paths, OpenFile(p)
  PROVE  /\ p # <<>> /\ Real(p) \in Paths
         /\ dest' \in Disk /\ IsTree(dest') /\ dest'[Real(p)] = File(Partial, TRUE)
         /\ Grown(dest', Front(p), Real(p))
         /\ dest[Real(p)].kind \in {"absent", "file"}
         /\ Real(p)' = Real(p)
<1>1. Real(p) \in Paths /\ (Real(p) # p => dest[p] = Link(Real(p)) /\ dest[p].kind = "link")
  BY RealFacts DEF IInv
<1>2. /\ p # <<>> /\ dest' \in Disk /\ IsTree(dest') /\ dest'[Real(p)] = File(Partial, TRUE)
      /\ Grown(dest', Front(p), Real(p))
      /\ dest[Real(p)].kind \in {"absent", "file"}
  BY OpenEffect DEF IInv, OpenFile
<1>3. Real(p)' = Real(p)
  <2>1. CASE Real(p) = p
    <3>1. dest'[p].kind # "link"
      BY <1>2, <2>1 DEF File
    <3> QED BY <2>1, <3>1 DEF Real
  <2>2. CASE Real(p) # p
    <3>1. dest'[p] = dest[p]
      BY <1>1, <1>2, <2>2, NodesMade DEF Grown
    <3> QED BY <3>1 DEF Real
  <2> QED BY <2>1, <2>2
<1> QED BY <1>1, <1>2, <1>3

\* The file a complete copy leaves.
Copied(p) == File(source[p].data, way = "put" \/ source[p].writable)

LEMMA CopyStep ==
  ASSUME IInv, NEW p \in Paths, CopyDone(p)
  PROVE  /\ source[p].kind = "file" /\ Real(p) \in Paths
         /\ dest[Real(p)] = File(Partial, TRUE)
         /\ dest' \in Disk /\ IsTree(dest') /\ dest'[Real(p)] = Copied(p)
         /\ \A q \in Paths \ {Real(p)} : dest'[q] = dest[q]
         /\ Real(p)' = Real(p)
<1>1. source[p].kind = "file" /\ dest[Real(p)] = File(Partial, TRUE)
  BY DEF IInv, Opened, CopyDone
<1>2. source[p].data \in Contents /\ source[p].writable \in BOOLEAN
  BY <1>1, DiskFacts, NodeFacts DEF IInv
<1>3. (way = "put" \/ source[p].writable) \in BOOLEAN
  OBVIOUS
<1>4. Copied(p) \in Nodes /\ Copied(p).kind = "file"
  BY <1>2, <1>3, NodesMade DEF Copied
<1>5. dest' = [dest EXCEPT ![Real(p)] = Copied(p)]
  BY DEF CopyDone, Copied
<1>6. /\ dest' \in Disk /\ IsTree(dest') /\ dest'[Real(p)] = Copied(p)
      /\ \A q \in Paths \ {Real(p)} : dest'[q] = dest[q]
  <2>1. Real(p) \in Paths /\ dest \in Disk /\ IsTree(dest)
    BY DiskFacts, RealFacts DEF IInv
  <2>2. dest[Real(p)].kind # "dir" /\ dest[Real(p)] # Absent
    BY <1>1 DEF File, Absent
  <2>3. \A r \in Below(Real(p)) : dest[r] = Absent
    BY <2>1, <2>2 DEF IsTree
  <2> QED BY <1>4, <1>5, <2>1, <2>2, <2>3, PutInTree DEF Disk
<1>7. Real(p) \in Paths /\ (Real(p) # p => dest[p].kind = "link")
  BY RealFacts DEF IInv
<1>8. Real(p)' = Real(p)
  <2>1. CASE Real(p) = p
    BY <1>4, <1>6, <2>1 DEF Real
  <2>2. CASE Real(p) # p
    BY <1>6, <2>2 DEF Real
  <2> QED BY <2>1, <2>2
<1> QED BY <1>1, <1>6, <1>7, <1>8

LEMMA FailStep ==
  ASSUME IInv, NEW p \in Paths, CopyFails(p)
  PROVE  /\ source[p].kind = "file" /\ dest[Real(p)] = File(Partial, TRUE)
         /\ dest' \in Disk /\ IsTree(dest')
         /\ \A q \in Paths : dest'[q] = dest[q] \/ (q = p /\ dest'[q] = Absent)
         /\ Removable(p) => dest'[p] = Absent
<1>1. source[p].kind = "file" /\ dest[Real(p)] = File(Partial, TRUE)
  BY DEF IInv, Opened, CopyFails
<1> QED BY <1>1, RemovedEffect DEF IInv, CopyFails

LEMMA LinkStep ==
  ASSUME IInv, NEW p \in Paths, UnpackLink(p)
  PROVE  /\ p # <<>> /\ dest' \in Disk /\ IsTree(dest')
         /\ dest'[p] = source[p] /\ source[p].kind = "link"
         /\ Grown(dest', Front(p), p)
BY LinkEffect DEF IInv, UnpackLink

\* What the invariant says of the paths a step leaves alone.
LEMMA GrownKeeps ==
  ASSUME IInv, NEW x, NEW r, Grown(dest', x, r), UNCHANGED call, todo' \subseteq todo,
         NEW q \in Paths \ {r}
  PROVE  /\ dest'[q].kind = "link" =>
              \/ dest'[q] = prior'[q]
              \/ q \in sent' \ todo' /\ source'[q].kind = "link" /\ dest'[q] = source'[q]
         /\ q \in dirs => dest'[q].kind = "dir"
         /\ answer = None /\ dest'[q] = Dir(FALSE) => prior'[q] = Dir(FALSE)
<1>1. dest'[q] = dest[q] \/ (dest[q] = Absent /\ dest'[q] = Dir(TRUE))
  BY DEF Grown
<1>2. /\ way' = way /\ source' = source /\ prior' = prior /\ sent' = sent
  BY DEF call
<1>3. dest'[q].kind = "link" => dest'[q] = dest[q]
  BY <1>1, NodesMade
<1>4. q \in dirs => dest'[q].kind = "dir"
  <2>1. q \in dirs => dest[q].kind = "dir"
    BY DEF IInv, DirsMade
  <2>2. Dir(TRUE).kind = "dir" /\ Absent.kind = "absent"
    BY DEF Dir, Absent
  <2> QED BY <1>1, <2>1, <2>2
<1>5. answer = None /\ dest'[q] = Dir(FALSE) => prior'[q] = Dir(FALSE)
  BY <1>1, <1>2, NodesMade DEF IInv, ModesWait
<1> QED BY <1>2, <1>3, <1>4, <1>5 DEF IInv, Links

\* A step of Unpack at p, whose effect on the disk is known except at r.
LEMMA StepKeeps ==
  ASSUME IInv, NEW p \in Paths, NEW x, NEW r \in Paths, Grown(dest', x, r), UNCHANGED call,
         dest' \in Disk, IsTree(dest'), p \in sent,
         todo' \in {todo, todo \ {p}}, open' \in BOOLEAN, open' => todo' # {} /\ answer' = None,
         dirs' \subseteq dirs \cup {p}, p \in dirs' \ dirs => p \notin todo' /\ source[p].kind = "dir",
         answer' \in {answer, "error"}, fault' \in {fault, "copy"},
         dest'[r].kind = "link" =>
           \/ dest'[r] = prior[r]
           \/ r \in sent \ todo' /\ source[r].kind = "link" /\ dest'[r] = source[r],
         r \in dirs' => dest'[r].kind = "dir",
         p \in dirs' \ dirs => p = r,
         dest'[r] = Dir(FALSE) => prior[r] = Dir(FALSE),
         Opened'
  PROVE  IInv'
<1>1. /\ way' = way /\ source' = source /\ prior' = prior /\ sent' = sent
      /\ todo' \subseteq todo
  BY DEF call
<1>0. \A q \in Paths \ {r} :
        /\ dest'[q].kind = "link" =>
             \/ dest'[q] = prior'[q]
             \/ q \in sent' \ todo' /\ source'[q].kind = "link" /\ dest'[q] = source'[q]
        /\ q \in dirs => dest'[q].kind = "dir"
        /\ answer = None /\ dest'[q] = Dir(FALSE) => prior'[q] = Dir(FALSE)
  BY <1>1, GrownKeeps
<1>2. TypeOK'
  <2>1. TypeOK
    BY DEF IInv
  <2>2. dirs' \subseteq {q \in sent' \ todo' : source'[q].kind = "dir"}
    BY <1>1, <2>1 DEF TypeOK
  <2>3. todo' \subseteq sent' /\ answer' \in {None, "ok", "error"}
        /\ fault' \in {None, "pack", "copy", "network"}
    BY <1>1, <2>1 DEF TypeOK
  <2> QED BY <1>1, <2>1, <2>2, <2>3 DEF TypeOK, Disk
<1>3. Links'
  BY <1>0, <1>1 DEF Links
<1>4. Entries'
  BY <1>1 DEF IInv, Entries
<1>5. DirsMade'
  <2> SUFFICES ASSUME NEW q \in dirs' PROVE dest'[q].kind = "dir"
    BY DEF DirsMade
  <2>1. q \in Paths
    BY <1>2, DiskFacts DEF TypeOK
  <2>2. CASE q = r
    BY <2>2
  <2>3. CASE q # r
    BY <1>0, <2>1, <2>3
  <2> QED BY <2>2, <2>3
<1>6. ModesWait'
  <2> SUFFICES ASSUME answer' = None, NEW q \in Paths, dest'[q] = Dir(FALSE)
               PROVE  prior'[q] = Dir(FALSE)
    BY DEF ModesWait
  <2>1. answer = None
    BY DEF None
  <2> QED BY <1>0, <1>1, <2>1
<1> QED BY <1>2, <1>3, <1>4, <1>5, <1>6 DEF IInv

LEMMA UnpackKeeps ==
  ASSUME IInv, NEW p \in Paths, Unpack(p)
  PROVE  IInv'
<1>1. CASE UnpackDir(p)
  <2>1. /\ p \in todo /\ p \in sent /\ open' = open /\ open = FALSE /\ UNCHANGED call
        /\ todo' = todo \ {p} /\ dirs' = dirs \cup {p} /\ answer' = answer /\ fault' = fault
        /\ source[p].kind = "dir"
    BY <1>1, ComesFacts DEF IInv, UnpackDir, Reads, Left, call
  <2>2. /\ dest' \in Disk /\ IsTree(dest') /\ Grown(dest', p, p) /\ dest'[p].kind = "dir"
        /\ dest'[p] = dest[p] \/ (dest[p] = Absent /\ dest'[p] = Dir(TRUE))
    BY <1>1, DirStep
  <2>3. dest'[p] = Dir(FALSE) => prior[p] = Dir(FALSE)
    <3>1. answer = None /\ Dir(TRUE) # Dir(FALSE)
      BY <1>1, NodesMade DEF UnpackDir, Reads
    <3> QED BY <2>2, <3>1 DEF IInv, ModesWait
  <2>4. Opened'
    BY <2>1 DEF Opened
  <2> QED BY <2>1, <2>2, <2>3, <2>4, StepKeeps
<1>2. CASE OpenFile(p)
  <2>1. /\ p \in todo /\ p \in sent /\ UNCHANGED call /\ Comes(p)
        /\ todo' = todo /\ dirs' = dirs /\ answer' = answer /\ answer = None /\ fault' = fault
        /\ source[p].kind = "file" /\ open' = TRUE
    BY <1>2, ComesFacts DEF IInv, OpenFile, Reads, call
  <2>2. /\ Real(p) \in Paths
        /\ dest' \in Disk /\ IsTree(dest') /\ dest'[Real(p)] = File(Partial, TRUE)
        /\ Grown(dest', Front(p), Real(p))
        /\ dest[Real(p)].kind \in {"absent", "file"}
        /\ Real(p)' = Real(p)
    BY <1>2, OpenStep
  <2>3. dest'[Real(p)].kind = "file" /\ dest'[Real(p)] # Dir(FALSE)
    BY <2>2 DEF File, Dir
  <2>4. Real(p) \notin dirs'
    BY <2>1, <2>2 DEF IInv, DirsMade
  <2>5. Opened'
    <3> SUFFICES ASSUME NEW q \in Paths, Comes(q)'
                 PROVE  source'[q].kind = "file" /\ dest'[Real(q)'] = File(Partial, TRUE)
      BY DEF Opened
    <3>1. Comes(q)
      BY <2>1 DEF Comes
    <3>2. q = p
      BY <2>1, <3>1, ComesFacts DEF IInv
    <3> QED BY <2>1, <2>2, <3>2 DEF call
  <2> QED BY <2>1, <2>2, <2>3, <2>4, <2>5, StepKeeps
<1>3. CASE CopyDone(p)
  <2>1. /\ p \in todo /\ p \in sent /\ open' = FALSE /\ UNCHANGED call
        /\ todo' = todo \ {p} /\ dirs' = dirs /\ answer' = answer /\ fault' = fault
    BY <1>3, ComesFacts DEF IInv, CopyDone, Left, call
  <2>2. /\ Real(p) \in Paths
        /\ dest[Real(p)] = File(Partial, TRUE)
        /\ dest' \in Disk /\ IsTree(dest') /\ dest'[Real(p)] = Copied(p)
        /\ \A q \in Paths \ {Real(p)} : dest'[q] = dest[q]
    BY <1>3, CopyStep
  <2>3. Copied(p).kind = "file" /\ Copied(p) # Dir(FALSE)
    BY DEF Copied, File, Dir
  <2>4. Real(p) \notin dirs'
    <3>1. dest[Real(p)].kind # "dir"
      BY <2>2 DEF File
    <3> QED BY <2>1, <3>1 DEF IInv, DirsMade
  <2>5. Grown(dest', p, Real(p))
    BY <2>2 DEF Grown
  <2>6. Opened'
    BY <2>1 DEF Opened
  <2> QED BY <2>1, <2>2, <2>3, <2>4, <2>5, <2>6, StepKeeps
<1>4. CASE CopyFails(p)
  <2>1. /\ p \in todo /\ p \in sent /\ open' = FALSE /\ UNCHANGED call
        /\ todo' = todo /\ dirs' = dirs /\ answer' = "error" /\ fault' = "copy"
    BY <1>4, ComesFacts DEF IInv, CopyFails, Fail, call
  <2>2. /\ source[p].kind = "file" /\ dest[Real(p)] = File(Partial, TRUE)
        /\ dest' \in Disk /\ IsTree(dest')
        /\ \A q \in Paths : dest'[q] = dest[q] \/ (q = p /\ dest'[q] = Absent)
    BY <1>4, FailStep
  <2>3. Grown(dest', p, p)
    BY <2>2 DEF Grown
  <2>4. answer = None
    BY <1>4 DEF IInv, TypeOK, CopyFails
  <2>5. /\ dest'[p].kind = "link" => dest'[p] = prior[p]
        /\ dest'[p] = Dir(FALSE) => prior[p] = Dir(FALSE)
    <3>1. CASE dest'[p] = Absent
      BY <3>1 DEF Absent, Dir
    <3>2. CASE dest'[p] = dest[p]
      BY <2>2, <2>4, <3>2 DEF IInv, Links, ModesWait
    <3> QED BY <2>2, <3>1, <3>2
  <2>6. p \notin dirs'
    BY <2>1 DEF IInv, TypeOK
  <2>7. Opened'
    BY <2>1 DEF Opened
  <2> QED BY <2>1, <2>2, <2>3, <2>5, <2>6, <2>7, StepKeeps
<1>5. CASE UnpackLink(p)
  <2>1. /\ p \in todo /\ p \in sent /\ open' = FALSE /\ UNCHANGED call
        /\ todo' = todo \ {p} /\ dirs' = dirs /\ answer' = answer /\ fault' = fault
    BY <1>5, ComesFacts DEF IInv, UnpackLink, Reads, Left, call
  <2>2. /\ dest' \in Disk /\ IsTree(dest')
        /\ dest'[p] = source[p] /\ source[p].kind = "link" /\ Grown(dest', Front(p), p)
    BY <1>5, LinkStep
  <2>3. source[p] # Dir(FALSE) /\ p \notin dirs' /\ p \notin todo'
    BY <2>1, <2>2, NodesMade DEF IInv, TypeOK
  <2>4. Opened'
    BY <2>1 DEF Opened
  <2> QED BY <2>1, <2>2, <2>3, <2>4, StepKeeps
<1>6. CASE Refuse(p)
  <2>1. /\ p \in todo /\ p \in sent /\ open' = FALSE /\ UNCHANGED call /\ dest' = dest
        /\ todo' = todo /\ dirs' = dirs /\ answer' = "error" /\ fault' = fault /\ answer = None
    BY <1>6, ComesFacts DEF IInv, Refuse, Fail, Reads, call
  <2>2. dest' \in Disk /\ IsTree(dest') /\ Grown(dest', p, p)
    BY <2>1, DiskFacts DEF IInv, Grown
  <2>3. Opened'
    BY <2>1 DEF Opened
  <2>4. /\ dest[p].kind = "link" =>
             \/ dest[p] = prior[p]
             \/ p \in sent \ todo /\ source[p].kind = "link" /\ dest[p] = source[p]
        /\ dest[p] = Dir(FALSE) => prior[p] = Dir(FALSE)
        /\ p \notin dirs
    BY <2>1 DEF IInv, Links, ModesWait, TypeOK
  <2> QED BY <2>1, <2>2, <2>3, <2>4, StepKeeps
<1> QED BY <1>1, <1>2, <1>3, <1>4, <1>5, <1>6 DEF Unpack

LEMMA FinishKeeps ==
  ASSUME IInv, Finish
  PROVE  IInv'
<1>1. /\ way' = way /\ source' = source /\ prior' = prior /\ sent' = sent /\ todo' = todo
      /\ open' = FALSE /\ dirs' = {} /\ answer' = "ok" /\ fault' = fault
  BY DEF Finish, call
<1>2. dest' \in Disk /\ IsTree(dest') /\ \A p \in Paths : dest'[p].kind = dest[p].kind
  BY FinishEffect DEF IInv, DirsMade, Finish
<1>3. TypeOK'
  BY <1>1, <1>2 DEF IInv, TypeOK, Disk
<1>4. Links'
  <2> SUFFICES ASSUME NEW p \in Paths, dest'[p].kind = "link"
               PROVE  dest'[p] = dest[p]
    BY <1>1, <1>2 DEF IInv, Links
  <2>1. p \notin dirs
    BY <1>2 DEF IInv, DirsMade
  <2> QED BY <2>1 DEF Finish
<1>5. Entries' /\ Opened' /\ DirsMade' /\ ModesWait'
  BY <1>1 DEF IInv, Entries, Opened, DirsMade, ModesWait, None
<1> QED BY <1>3, <1>4, <1>5 DEF IInv

\* The sender and the connection change no disk.
LEMMA BreakKeeps ==
  ASSUME IInv, PackFails \/ NetworkBreaks
  PROVE  IInv'
<1>1. /\ way' = way /\ source' = source /\ prior' = prior /\ sent' = sent /\ dest' = dest
      /\ todo' \in {todo, {}} /\ open' = FALSE /\ dirs' = dirs /\ answer' \in {answer, "error"}
      /\ fault' \in {"pack", "network"} /\ answer = None
  BY DEF PackFails, NetworkBreaks, Fail, call
<1>2. TypeOK'
  BY <1>1 DEF IInv, TypeOK
<1>3. Links' /\ Entries' /\ Opened' /\ DirsMade' /\ ModesWait'
  BY <1>1 DEF IInv, Links, Entries, Opened, DirsMade, ModesWait
<1> QED BY <1>2, <1>3 DEF IInv

LEMMA NextIInv == IInv /\ [Next]_vars => IInv'
<1> SUFFICES ASSUME IInv, [Next]_vars PROVE IInv'
  OBVIOUS
<1>1. CASE UNCHANGED vars
  BY <1>1 DEF vars, call, IInv, TypeOK, Links, Entries, Opened, DirsMade, ModesWait, Comes, Real
<1>2. ASSUME NEW p \in Paths, Unpack(p) PROVE IInv'
  BY <1>2, UnpackKeeps
<1>3. CASE Finish
  BY <1>3, FinishKeeps
<1>4. CASE PackFails \/ NetworkBreaks
  BY <1>4, BreakKeeps
<1> QED BY <1>1, <1>2, <1>3, <1>4 DEF Next

LEMMA Invariance == Spec => []IInv
BY InitIInv, NextIInv, PTL DEF Spec

\* The disk stays a tree of the nodes the program knows, the entries still to come are
\* among those sent, and only directories that have come wait for their mode.
THEOREM TransferTypeOK == Spec => []TypeOK
<1>1. IInv => TypeOK
  BY DEF IInv
<1> QED BY <1>1, Invariance, PTL

(***************************************************************************)
(* What has no entry                                                       *)
(***************************************************************************)

\* What is transferred, and where to, stays.
LEMMA CallKept ==
  ASSUME [Next]_vars
  PROVE  way' = way /\ source' = source /\ prior' = prior /\ sent' = sent
BY DEF vars, call, Next, Unpack, UnpackDir, OpenFile, CopyDone, CopyFails, UnpackLink, Refuse,
       Finish, PackFails, NetworkBreaks, Fail

\* The steps that leave the disk as it is.
LEMMA DestKept ==
  ASSUME [Next]_vars
  PROVE  \/ \E p \in Paths :
              UnpackDir(p) \/ OpenFile(p) \/ CopyDone(p) \/ CopyFails(p) \/ UnpackLink(p)
         \/ Finish
         \/ UNCHANGED <<call, dest, dirs>> /\ (open' = open \/ (open' = FALSE /\ open = FALSE))
<1>1. CASE UNCHANGED vars
  BY <1>1 DEF vars
<1>2. CASE \E p \in Paths : Refuse(p)
  BY <1>2 DEF Refuse, Fail, Reads
<1>3. CASE PackFails \/ NetworkBreaks
  BY <1>3 DEF PackFails, NetworkBreaks, Fail
<1> QED BY <1>1, <1>2, <1>3 DEF Next, Unpack

LEMMA InitOthers == Init => OthersUntouched
<1> SUFFICES ASSUME Init, NEW p \in Paths \ sent
             PROVE  dest[p] = prior[p] \/ (prior[p] = Absent /\ dest[p] = Dir(TRUE))
  BY DEF OthersUntouched
<1>1. prior \in Disk
  BY DisksAssumption DEF Init, Disk
<1> QED BY <1>1 DEF Init, Start, Disk

LEMMA NextOthers == IInv /\ OthersUntouched /\ [Next]_vars => OthersUntouched'
<1> SUFFICES ASSUME IInv, OthersUntouched, [Next]_vars, NEW p \in Paths, p \notin sent'
             PROVE  \/ dest'[p] = prior'[p]
                    \/ prior'[p] = Absent /\ dest'[p] = Dir(TRUE)
                    \/ \E q \in sent' : prior'[q] = Link(p)
  BY DEF OthersUntouched
<1>1. prior' = prior /\ sent' = sent /\ p \notin sent
  BY CallKept
<1>2. \/ dest[p] = prior[p]
      \/ prior[p] = Absent /\ dest[p] = Dir(TRUE)
      \/ \E q \in sent : prior[q] = Link(p)
  BY <1>1 DEF OthersUntouched
<1>3. Dir(TRUE) # Absent
  BY DEF Dir, Absent
<1>4. ASSUME dest'[p] = dest[p] \/ (dest[p] = Absent /\ dest'[p] = Dir(TRUE))
      PROVE  \/ dest'[p] = prior[p]
             \/ prior[p] = Absent /\ dest'[p] = Dir(TRUE)
             \/ \E q \in sent : prior[q] = Link(p)
  BY <1>2, <1>3, <1>4
<1>5. ASSUME NEW q \in Paths,
             UnpackDir(q) \/ OpenFile(q) \/ CopyDone(q) \/ CopyFails(q) \/ UnpackLink(q)
      PROVE  \/ dest'[p] = dest[p] \/ (dest[p] = Absent /\ dest'[p] = Dir(TRUE))
             \/ \E r \in sent : prior[r] = Link(p)
  <2>1. q \in sent /\ q # p
    BY <1>1, <1>5, ComesFacts
       DEF IInv, UnpackDir, OpenFile, CopyDone, CopyFails, UnpackLink, Reads
  <2>2. source[q].kind = "file" /\ Real(q) = p => prior[q] = Link(p)
    BY <2>1, RealFacts DEF IInv
  <2>3. CASE UnpackDir(q)
    BY <2>1, <2>3, DirStep DEF Grown
  <2>4. CASE OpenFile(q)
    <3>1. Grown(dest', Front(q), Real(q)) /\ source[q].kind = "file"
      BY <2>4, OpenStep DEF OpenFile
    <3> QED BY <2>1, <2>2, <3>1 DEF Grown
  <2>5. CASE CopyDone(q)
    BY <2>1, <2>2, <2>5, CopyStep
  <2>6. CASE CopyFails(q)
    BY <2>1, <2>6, FailStep
  <2>7. CASE UnpackLink(q)
    BY <2>1, <2>7, LinkStep DEF Grown
  <2> QED BY <1>5, <2>3, <2>4, <2>5, <2>6, <2>7
<1>6. CASE Finish
  <2>1. p \notin dirs
    BY <1>1 DEF IInv, TypeOK
  <2> QED BY <1>1, <1>4, <1>6, <2>1 DEF Finish
<1> QED BY <1>1, <1>4, <1>5, <1>6, DestKept

\* A transfer, complete or not, leaves alone what it has no entry for, whatever was on
\* the disk and wherever it fails: Unpack makes parents that are missing and writes
\* through a link that was there, and touches nothing else.
THEOREM OthersAreUntouched == Spec => []OthersUntouched
<1>1. Spec => [](IInv /\ OthersUntouched)
  BY InitIInv, NextIInv, InitOthers, NextOthers, PTL DEF Spec
<1> QED BY <1>1, PTL

(***************************************************************************)
(* Half-written files                                                      *)
(***************************************************************************)

\* A file that is not whole is the one being copied, or one that CopyFails could not remove.
HalfFile(p) == dest[p].kind = "file" /\ dest[p].data = Partial

CannotRemove(p) ==
  \/ \E q \in sent : prior[q] = Link(p)
  \/ p # <<>> /\ prior[Front(p)] = Dir(FALSE)

HalfInv ==
  \A p \in Paths : HalfFile(p) =>
    CannotRemove(p) \/ (open /\ \E q \in Paths : Comes(q) /\ Real(q) = p)

LEMMA InitHalf == Init => HalfInv
<1> SUFFICES ASSUME Init, NEW p \in Paths, HalfFile(p) PROVE FALSE
  BY DEF HalfInv
<1>1. prior \in Priors /\ prior \in Disk /\ Partial \notin Contents
  BY DisksAssumption DEF Init, Disk
<1>2. dest[p] = prior[p] \/ dest[p] = Dir(TRUE)
  BY <1>1 DEF Init, Start, Disk
<1>3. Dir(TRUE).kind = "dir"
  BY DEF Dir
<1> QED BY <1>1, <1>2, <1>3, DisksAssumption DEF HalfFile

\* Remove fails on a file only in a directory that was not writable.
LEMMA NotRemoved ==
  ASSUME IInv, NEW p \in Paths, answer = None, dest[p].kind = "file", ~Removable(p)
  PROVE  p # <<>> /\ prior[Front(p)] = Dir(FALSE)
<1>1. dest \in Disk /\ IsTree(dest) /\ dest[p] # Absent
  BY DiskFacts, NodesMade DEF IInv
<1>2. \A q \in Below(p) : dest[q] = Absent
  BY <1>1 DEF IsTree
<1>3. p # <<>> /\ dest[Front(p)] # Dir(TRUE)
  BY <1>1, <1>2 DEF Removable, Accepts
<1>4. Front(p) \in Paths /\ p \in Below(Front(p))
  BY <1>3, PathFacts DEF Below
<1>5. dest[Front(p)].kind = "dir" /\ dest[Front(p)] \in Nodes
  BY <1>1, <1>4 DEF IsTree, Disk
<1>6. dest[Front(p)] = Dir(FALSE)
  BY <1>3, <1>5, NodeFacts
<1> QED BY <1>3, <1>4, <1>6 DEF IInv, ModesWait

LEMMA NextHalf == IInv /\ HalfInv /\ [Next]_vars => HalfInv'
<1> SUFFICES ASSUME IInv, HalfInv, [Next]_vars, NEW p \in Paths, HalfFile(p)'
             PROVE  CannotRemove(p)' \/ (open' /\ \E q \in Paths : Comes(q)' /\ Real(q)' = p)
  BY DEF HalfInv
<1>1. CannotRemove(p)' <=> CannotRemove(p)
  BY CallKept DEF CannotRemove
<1>2. HalfFile(p) => CannotRemove(p) \/ (open /\ \E q \in Paths : Comes(q) /\ Real(q) = p)
  BY DEF HalfInv
<1>3. /\ dest'[p] # Dir(TRUE) /\ dest'[p] # Absent
      /\ dest'[p].kind = "file" /\ dest'[p].data = Partial
  BY DEF HalfFile, Dir, Absent
<1>4. dest'[p] = dest[p] => HalfFile(p)
  BY <1>3 DEF HalfFile
<1>5. ASSUME NEW q \in Paths, UnpackDir(q) PROVE CannotRemove(p)
  <2>1. dest'[p] = dest[p]
    BY <1>3, <1>5, DirStep DEF Grown
  <2> QED BY <1>2, <1>4, <1>5, <2>1 DEF UnpackDir, Reads
<1>6. ASSUME NEW q \in Paths, OpenFile(q)
      PROVE  CannotRemove(p) \/ (open' /\ Comes(q)' /\ Real(q)' = p)
  <2>1. Grown(dest', Front(q), Real(q)) /\ Real(q)' = Real(q)
    BY <1>6, OpenStep
  <2>2. open' /\ Comes(q)' /\ ~open
    BY <1>6 DEF OpenFile, Reads, Comes
  <2>3. CASE Real(q) = p
    BY <2>1, <2>2, <2>3
  <2>4. CASE Real(q) # p
    <3>1. dest'[p] = dest[p]
      BY <1>3, <2>1, <2>4 DEF Grown
    <3> QED BY <1>2, <1>4, <2>2, <3>1
  <2> QED BY <2>3, <2>4
<1>7. ASSUME NEW q \in Paths, CopyDone(q) PROVE CannotRemove(p)
  <2>1. source[q].kind = "file" /\ dest'[Real(q)] = Copied(q)
        /\ \A r \in Paths \ {Real(q)} : dest'[r] = dest[r]
    BY <1>7, CopyStep
  <2>2. source[q].data \in Contents /\ Partial \notin Contents
    BY <2>1, DiskFacts, DisksAssumption DEF IInv
  <2>3. Copied(q).data # Partial
    BY <2>2 DEF Copied, File
  <2>4. p # Real(q)
    BY <1>3, <2>1, <2>3
  <2>5. \A r \in Paths : Comes(r) => r = q
    BY <1>7, ComesFacts DEF IInv, CopyDone
  <2> QED BY <1>2, <1>4, <2>1, <2>4, <2>5
<1>8. ASSUME NEW q \in Paths, CopyFails(q) PROVE CannotRemove(p)
  <2>1. /\ source[q].kind = "file" /\ dest[Real(q)] = File(Partial, TRUE)
        /\ dest'[p] = dest[p] /\ (Removable(q) => p # q)
    BY <1>3, <1>8, FailStep
  <2>2. q \in sent /\ answer = None /\ \A r \in Paths : Comes(r) => r = q
    BY <1>8, ComesFacts DEF IInv, TypeOK, CopyFails
  <2>3. CASE p = Real(q) /\ p # q
    BY <2>1, <2>2, <2>3, RealFacts DEF IInv, CannotRemove
  <2>4. CASE p = Real(q) /\ p = q
    <3>1. dest[p].kind = "file"
      BY <1>3, <2>1
    <3> QED BY <2>1, <2>2, <2>4, <3>1, NotRemoved DEF CannotRemove
  <2>5. CASE p # Real(q)
    BY <1>2, <1>4, <2>1, <2>2, <2>5
  <2> QED BY <2>3, <2>4, <2>5
<1>9. ASSUME NEW q \in Paths, UnpackLink(q) PROVE CannotRemove(p)
  <2>1. dest'[q] = source[q] /\ source[q].kind = "link" /\ Grown(dest', Front(q), q)
    BY <1>9, LinkStep
  <2>2. dest'[p] = dest[p]
    BY <1>3, <2>1 DEF Grown
  <2> QED BY <1>2, <1>4, <1>9, <2>2 DEF UnpackLink, Reads
<1>10. CASE Finish
  <2>1. p \in dirs => dest'[p].kind = "dir"
    BY <1>10 DEF Finish, IInv, TypeOK
  <2>2. dest'[p] = dest[p] /\ ~open
    BY <1>3, <1>10, <2>1 DEF Finish
  <2> QED BY <1>1, <1>2, <1>4, <2>2
<1>11. ASSUME UNCHANGED <<call, dest, dirs>>, open' = open \/ (open' = FALSE /\ open = FALSE)
       PROVE  CannotRemove(p) \/ (open' /\ \E q \in Paths : Comes(q)' /\ Real(q)' = p)
  <2>1. CASE ~open
    BY <1>2, <1>4, <1>11, <2>1
  <2>2. CASE open
    <3>1. \/ UNCHANGED vars
          \/ \E q \in Paths : CopyDone(q) \/ CopyFails(q)
      BY <2>2 DEF Next, Unpack, UnpackDir, OpenFile, UnpackLink, Refuse, Reads, Finish,
                  PackFails, NetworkBreaks
    <3>2. CASE UNCHANGED vars
      BY <1>2, <1>4, <3>2 DEF vars, Comes, Real
    <3> QED BY <1>7, <1>8, <3>1, <3>2
  <2> QED BY <2>1, <2>2
<1> QED BY <1>1, <1>5, <1>6, <1>7, <1>8, <1>9, <1>10, <1>11, DestKept

\* Whenever a write fails, the agent removes what it wrote: a half-written file stays
\* only behind a link that was there, or in a directory that was not writable before.
THEOREM NoHalfFileStays == Spec => []NoHalfFile
<1>1. Spec => [](IInv /\ HalfInv)
  BY InitIInv, NextIInv, InitHalf, NextHalf, PTL DEF Spec
<1>2. IInv /\ HalfInv => NoHalfFile
  BY DEF IInv, TypeOK, HalfInv, HalfFile, CannotRemove, NoHalfFile
<1> QED BY <1>1, <1>2, PTL

(***************************************************************************)
(* Success                                                                 *)
(***************************************************************************)

\* What SuccessIsWhole presupposes.
Kept ==
  /\ ~(way = "download" /\ fault = "pack")
  /\ way # "put" => \A p \in sent : source[p].kind = "file" => prior[p].kind # "link"

\* The entry has come; the mode of a directory is set by Finish.
Came(p) ==
  IF way # "put" /\ source[p].kind = "dir"
  THEN dest[p].kind = "dir" /\ IF answer = None THEN p \in dirs ELSE dest[p] = source[p]
  ELSE Arrived(p)

WholeInv ==
  Kept /\ answer # "error" =>
    /\ \A p \in sent \ todo : Came(p)
    /\ answer = "ok" => todo = {}

\* An entry that has come is there.
LEMMA CameIsThere ==
  ASSUME IInv, NEW p \in sent, Came(p), way # "put"
  PROVE  p \in Paths /\ dest[p] # Absent
<1>1. p \in Paths /\ source[p] # Absent
  BY DiskFacts DEF IInv, Entries
<1>2. CASE source[p].kind = "dir"
  <2>1. dest[p].kind = "dir"
    BY <1>2 DEF Came
  <2> QED BY <1>1, <2>1 DEF Absent
<1>3. CASE source[p].kind # "dir"
  BY <1>1, <1>3 DEF Came, Arrived
<1> QED BY <1>1, <1>2, <1>3

\* WriteFile has one entry.
LEMMA OnePut ==
  ASSUME IInv, way = "put", NEW p \in todo
  PROVE  sent \ todo = {} /\ todo = {p} /\ source[p].kind = "file"
BY DEF IInv, Entries, TypeOK

LEMMA InitWhole == Init => WholeInv
BY DEF Init, WholeInv, None

LEMMA NextWhole == IInv /\ WholeInv /\ [Next]_vars => WholeInv'
<1> SUFFICES ASSUME IInv, WholeInv, [Next]_vars, Kept', answer' # "error"
             PROVE  (\A p \in sent' \ todo' : Came(p)') /\ (answer' = "ok" => todo' = {})
  BY DEF WholeInv
<1>2. /\ way' = way /\ source' = source /\ prior' = prior /\ sent' = sent
  BY CallKept
<1>3. ASSUME NEW p \in Paths, UnpackDir(p) \/ OpenFile(p) \/ CopyDone(p) \/ UnpackLink(p)
      PROVE  (\A q \in sent' \ todo' : Came(q)') /\ (answer' = "ok" => todo' = {})
  <2>1. /\ p \in todo /\ p \in sent /\ answer = None /\ answer' = None /\ fault' = fault
        /\ todo \ {p} \subseteq todo'
    BY <1>3, ComesFacts
       DEF IInv, TypeOK, UnpackDir, OpenFile, CopyDone, UnpackLink, Reads, Left
  <2>2. Kept
    BY <1>2, <2>1 DEF Kept
  <2>3. \A q \in sent \ todo : Came(q)
    BY <2>1, <2>2 DEF WholeInv, None
  <2>4. way # "put" /\ source[p].kind = "file" => Real(p) = p
    <3>1. way # "put" /\ source[p].kind = "file" => prior[p].kind # "link"
      BY <2>1, <2>2 DEF Kept
    <3> QED BY <3>1 DEF IInv, Links, Real
  <2>5. ASSUME NEW q \in sent \ todo PROVE Came(q)'
    <3>1. way # "put" /\ q # p /\ Came(q)
      BY <2>1, <2>3, OnePut
    <3>2. q \in Paths /\ dest[q] # Absent
      BY <3>1, CameIsThere
    <3>3. CASE UnpackDir(p)
      <4>1. dest'[q] = dest[q] /\ dirs \subseteq dirs'
        BY <3>1, <3>2, <3>3, DirStep DEF Grown, UnpackDir
      <4> QED BY <1>2, <2>1, <3>1, <4>1 DEF Came, Arrived
    <3>4. CASE OpenFile(p)
      <4>1. dest'[q] = dest[q] /\ dirs' = dirs
        BY <2>4, <3>1, <3>2, <3>4, OpenStep DEF Grown, OpenFile
      <4> QED BY <1>2, <2>1, <3>1, <4>1 DEF Came, Arrived
    <3>5. CASE CopyDone(p)
      <4>1. dest'[q] = dest[q] /\ dirs' = dirs
        BY <2>4, <3>1, <3>2, <3>5, CopyStep DEF CopyDone
      <4> QED BY <1>2, <2>1, <3>1, <4>1 DEF Came, Arrived
    <3>6. CASE UnpackLink(p)
      <4>1. dest'[q] = dest[q] /\ dirs' = dirs
        BY <3>1, <3>2, <3>6, LinkStep DEF Grown, UnpackLink
      <4> QED BY <1>2, <2>1, <3>1, <4>1 DEF Came, Arrived
    <3> QED BY <1>3, <3>3, <3>4, <3>5, <3>6
  <2>6. ASSUME p \notin todo' PROVE Came(p)'
    <3>1. CASE UnpackDir(p)
      <4>1. dest'[p].kind = "dir" /\ p \in dirs' /\ source[p].kind = "dir"
        BY <3>1, DirStep DEF UnpackDir
      <4>2. way # "put"
        BY <2>1, <4>1, OnePut
      <4> QED BY <1>2, <2>1, <4>1, <4>2 DEF Came
    <3>2. CASE CopyDone(p)
      <4>1. source[p].kind = "file" /\ dest'[Real(p)] = Copied(p) /\ Real(p)' = Real(p)
        BY <3>2, CopyStep
      <4>2. CASE way = "put"
        <5>1. dest'[Real(p)'].kind = "file" /\ dest'[Real(p)'].data = source[p].data
          BY <4>1 DEF Copied, File
        <5> QED BY <1>2, <4>2, <5>1 DEF Came, Arrived
      <4>3. CASE way # "put"
        <5>1. source[p] = File(source[p].data, source[p].writable) /\ source[p].writable \in BOOLEAN
          BY <2>1, <4>1, DiskFacts, NodeFacts DEF IInv
        <5>2. (way = "put" \/ source[p].writable) = source[p].writable
          BY <4>3, <5>1
        <5>3. dest'[p] = source[p]
          BY <2>4, <4>1, <4>3, <5>1, <5>2 DEF Copied
        <5> QED BY <1>2, <4>1, <4>3, <5>3 DEF Came, Arrived
      <4> QED BY <4>2, <4>3
    <3>3. CASE UnpackLink(p)
      <4>1. dest'[p] = source[p] /\ source[p].kind = "link"
        BY <3>3, LinkStep
      <4>2. way # "put"
        BY <2>1, <4>1, OnePut
      <4> QED BY <1>2, <4>1, <4>2 DEF Came, Arrived
    <3>4. CASE OpenFile(p)
      BY <2>1, <2>6, <3>4 DEF OpenFile
    <3> QED BY <1>3, <3>1, <3>2, <3>3, <3>4
  <2> QED BY <1>2, <2>1, <2>5, <2>6 DEF None
<1>4. CASE Finish
  <2>1. /\ answer = None /\ todo = {} /\ todo' = {} /\ answer' = "ok" /\ fault' = fault
        /\ dest' = [p \in Paths |-> IF p \in dirs THEN source[p] ELSE dest[p]]
    BY <1>4 DEF Finish
  <2>2. Kept
    BY <1>2, <2>1 DEF Kept
  <2>3. \A p \in dirs : source[p].kind = "dir" /\ p \in sent
    BY DEF IInv, TypeOK
  <2>4. ASSUME NEW p \in sent PROVE Came(p)'
    <3>1. Came(p) /\ p \in Paths
      BY <2>1, <2>2, DiskFacts DEF IInv, WholeInv, None
    <3>2. CASE way = "put"
      <4>1. dirs = {}
        BY <2>3, <3>2 DEF IInv, Entries
      <4>2. Real(p) \in Paths /\ (dest'[p] = dest[p] /\ dest'[Real(p)] = dest[Real(p)])
        BY <2>1, <3>1, <4>1, RealFacts DEF IInv
      <4>3. Real(p)' = Real(p)
        BY <4>2 DEF Real
      <4> QED BY <1>2, <3>1, <3>2, <4>2, <4>3 DEF Came, Arrived
    <3>3. CASE way # "put" /\ source[p].kind = "dir"
      <4>1. p \in dirs
        BY <2>1, <3>1, <3>3 DEF Came
      <4>2. dest'[p] = source[p]
        BY <2>1, <3>1, <4>1
      <4> QED BY <1>2, <2>1, <3>3, <4>2 DEF Came, None
    <3>4. CASE way # "put" /\ source[p].kind # "dir"
      <4>1. dest'[p] = dest[p]
        BY <2>1, <2>3, <3>1, <3>4
      <4> QED BY <1>2, <3>1, <3>4, <4>1 DEF Came, Arrived
    <3> QED BY <3>2, <3>3, <3>4
  <2> QED BY <1>2, <2>1, <2>4
<1>5. CASE UNCHANGED vars
  <2>1. Kept /\ answer # "error" /\ \A p \in Paths : Came(p) <=> Came(p)'
    BY <1>2, <1>5 DEF vars, Kept, Came, Arrived, Real
  <2> QED BY <1>2, <1>5, <2>1, DiskFacts DEF IInv, vars, WholeInv
<1>6. CASE PackFails
  <2>1. way = "download" /\ fault' = "pack"
    BY <1>6 DEF PackFails, Fail, IInv, TypeOK
  <2> QED BY <1>2, <2>1 DEF Kept
<1>7. CASE NetworkBreaks \/ \E p \in Paths : CopyFails(p) \/ Refuse(p)
  BY <1>7 DEF NetworkBreaks, CopyFails, Refuse, Fail
<1> QED BY <1>3, <1>4, <1>5, <1>6, <1>7 DEF Next, Unpack

\* Success means that everything has arrived, whatever was there before.
THEOREM SuccessMeansWhole == Spec => []SuccessIsWhole
<1>1. Spec => [](IInv /\ WholeInv)
  BY InitIInv, NextIInv, InitWhole, NextWhole, PTL DEF Spec
<1>2. IInv /\ WholeInv => SuccessIsWhole
  <2> SUFFICES ASSUME IInv, WholeInv, answer = "ok", Kept, NEW p \in sent PROVE Arrived(p)
    BY DEF SuccessIsWhole, Kept
  <2>1. Came(p)
    BY DEF WholeInv
  <2> QED BY <2>1 DEF Came, Arrived, None
<1> QED BY <1>1, <1>2, PTL

(***************************************************************************)
(* A fresh disk                                                            *)
(***************************************************************************)

\* On a fresh disk there is only what has come, and directories on the way.
InTheWay(p) ==
  \/ dest[p] = Absent
  \/ dest[p] = Dir(TRUE) /\ source[p].kind = "dir"
  \/ p \in sent /\ source[p].kind \in {"file", "link"} /\ (p \in todo => open /\ Comes(p))

FreshInv ==
  Fresh =>
    /\ answer = None => \A p \in Paths : InTheWay(p)
    /\ answer = "error" => fault # None \/ ~Transferable

LEMMA InitFresh == Init => FreshInv
<1> SUFFICES ASSUME Init, Fresh, NEW p \in Paths
             PROVE  dest[p] = Absent \/ (dest[p] = Dir(TRUE) /\ source[p].kind = "dir")
  BY DEF FreshInv, InTheWay, Init, None
<1>1. prior \in Disk
  BY DisksAssumption DEF Init, Disk
<1>2. dest[p] = Absent \/ (dest[p] = Dir(TRUE) /\ p = <<>>)
  BY <1>1 DEF Init, Start, Disk, Fresh
<1>3. source[<<>>].kind = "dir"
  BY InitIInv, DiskFacts DEF IInv
<1> QED BY <1>2, <1>3

\* Directories can be made wherever the source has one.
LEMMA FreshDirs ==
  ASSUME IInv, \A q \in Paths : InTheWay(q), NEW p \in Paths, source[p].kind = "dir"
  PROVE  CanMakeDirs(p) /\ \A q \in Up(p) : MadeDirs(p)[q] = Dir(TRUE) /\ source[q].kind = "dir"
<1>1. ASSUME NEW q \in Up(p)
      PROVE  /\ q \in Paths /\ source[q].kind = "dir"
             /\ dest[q] = Absent \/ dest[q] = Dir(TRUE)
             /\ MadeDirs(p)[q] = Dir(TRUE)
  <2>1. q \in Paths /\ (q # p => p \in Below(q))
    BY DEF Up, Below
  <2>2. source[p] # Absent
    BY DEF Absent
  <2>3. source[q].kind = "dir"
    BY <2>1, <2>2, DiskFacts DEF IInv, IsTree
  <2>4. dest[q] = Absent \/ dest[q] = Dir(TRUE)
    BY <2>1, <2>3 DEF InTheWay
  <2> QED BY <2>1, <2>3, <2>4 DEF MadeDirs
<1>2. ASSUME NEW q \in Up(p) PROVE Accepts(MadeDirs(p), q)
  <2>1. CASE q # <<>>
    <3>1. q \in Paths /\ Front(q) \in Paths /\ IsPrefix(Front(q), q) /\ IsPrefix(q, p)
      BY <2>1, PathFacts DEF Up
    <3>2. Front(q) \in Up(p)
      BY <3>1, PathFacts DEF Up
    <3> QED BY <1>1, <3>2 DEF Accepts
  <2> QED BY <2>1 DEF Accepts
<1>3. Absent.kind = "absent" /\ Dir(TRUE).kind = "dir"
  BY DEF Absent, Dir
<1> QED BY <1>1, <1>2, <1>3 DEF CanMakeDirs

\* Nothing is in the way of an entry.
LEMMA FreshMakes ==
  ASSUME IInv, \A q \in Paths : InTheWay(q), NEW p \in Paths, Reads(p)
  PROVE  /\ source[p].kind = "dir" => CanMakeDirs(p)
         /\ source[p].kind = "file" => CanOpen(p) /\ Real(p) = p
         /\ source[p].kind = "link" => CanLink(p)
<1>1. p \in todo /\ ~open /\ source[p].kind # "absent"
  BY ComesFacts, DiskFacts, NodeFacts DEF IInv, Entries, Reads
<1>2. ASSUME source[p].kind \in {"file", "link"}
      PROVE  /\ dest[p] = Absent /\ Real(p) = p /\ CanMakeDirs(Front(p))
             /\ Accepts(MadeDirs(Front(p)), p)
  <2>1. dest[p] = Absent
    BY <1>1, <1>2 DEF InTheWay
  <2>2. p # <<>>
    BY <1>2, DiskFacts DEF IInv
  <2>3. Front(p) \in Paths /\ p \in Below(Front(p)) /\ Front(p) \in Up(Front(p))
    BY <2>2, PathFacts DEF Below, Up
  <2>4. source[p] # Absent
    BY <1>2 DEF Absent
  <2>5. source[Front(p)].kind = "dir"
    BY <2>3, <2>4, DiskFacts DEF IInv, IsTree
  <2>6. CanMakeDirs(Front(p)) /\ MadeDirs(Front(p))[Front(p)] = Dir(TRUE)
    BY <2>3, <2>5, FreshDirs
  <2>7. Real(p) = p
    BY <2>1 DEF Real, Absent
  <2> QED BY <2>1, <2>6, <2>7 DEF Accepts
<1>3. source[p].kind = "dir" => CanMakeDirs(p)
  BY FreshDirs
<1> QED BY <1>2, <1>3 DEF CanOpen, CanLink

LEMMA NextFresh == IInv /\ FreshInv /\ [Next]_vars => FreshInv'
<1> SUFFICES ASSUME IInv, FreshInv, [Next]_vars, Fresh'
             PROVE  /\ answer' = None => \A p \in Paths : InTheWay(p)'
                    /\ answer' = "error" => fault' # None \/ ~Transferable'
  BY DEF FreshInv
<1>2. /\ way' = way /\ source' = source /\ prior' = prior /\ sent' = sent
      /\ Fresh /\ (Transferable' <=> Transferable)
  BY CallKept DEF Fresh, Transferable
<1>3. answer = None => \A p \in Paths : InTheWay(p)
  BY <1>2 DEF FreshInv
<1>4. \A p \in Paths : prior[p].kind # "link"
  <2>1. Absent.kind # "link" /\ Dir(TRUE).kind # "link"
    BY DEF Absent, Dir
  <2> QED BY <1>2, <2>1 DEF Fresh
<1>5. \A p \in Paths : source[p].kind = "file" => Real(p) = p
  BY <1>4 DEF IInv, Links, Real
<1>6. ASSUME NEW p \in Paths, UnpackDir(p)
      PROVE  answer' = None /\ \A q \in Paths : InTheWay(q)'
  <2>1. /\ p \in todo /\ ~open /\ answer = None /\ answer' = None /\ source[p].kind = "dir"
        /\ todo' = todo \ {p} /\ dest' = MadeDirs(p)
    BY <1>6, ComesFacts DEF IInv, UnpackDir, Reads, Left
  <2>2. CanMakeDirs(p) /\ \A q \in Up(p) : MadeDirs(p)[q] = Dir(TRUE) /\ source[q].kind = "dir"
    BY <1>3, <2>1, FreshDirs
  <2>3. ASSUME NEW q \in Paths PROVE InTheWay(q)'
    <3>1. CASE q \in Up(p)
      BY <1>2, <2>1, <2>2, <3>1 DEF InTheWay
    <3>2. CASE q \notin Up(p)
      <4>1. dest'[q] = dest[q]
        BY <2>1, <3>2 DEF MadeDirs
      <4> QED BY <1>2, <1>3, <2>1, <4>1 DEF InTheWay
    <3> QED BY <3>1, <3>2
  <2> QED BY <2>1, <2>3
<1>7. ASSUME NEW p \in Paths, OpenFile(p) \/ UnpackLink(p)
      PROVE  answer' = None /\ \A q \in Paths : InTheWay(q)'
  <2>1. /\ p \in todo /\ p \in sent /\ ~open /\ answer = None /\ answer' = None
        /\ source[p].kind \in {"file", "link"} /\ todo' \subseteq todo
        /\ p \in todo' => open' /\ Comes(p)'
    BY <1>7, ComesFacts DEF IInv, OpenFile, UnpackLink, Reads, Left, Comes
  <2>2. p # <<>> /\ Grown(dest', Front(p), p)
    BY <1>5, <1>7, OpenStep, LinkStep DEF OpenFile
  <2>3. Front(p) \in Paths /\ p \in Below(Front(p))
    BY <2>2, PathFacts DEF Below
  <2>4. source[p] # Absent
    BY <2>1 DEF Absent
  <2>5. source[Front(p)].kind = "dir"
    BY <2>3, <2>4, DiskFacts DEF IInv, IsTree
  <2>6. \A q \in Up(Front(p)) : source[q].kind = "dir"
    BY <1>3, <2>1, <2>3, <2>5, FreshDirs
  <2>7. ASSUME NEW q \in Paths PROVE InTheWay(q)'
    <3>1. CASE q = p
      BY <1>2, <2>1, <3>1 DEF InTheWay
    <3>2. CASE q # p
      <4>1. dest'[q] = dest[q] \/ (dest'[q] = Dir(TRUE) /\ source[q].kind = "dir")
        BY <2>2, <2>6, <3>2 DEF Grown
      <4> QED BY <1>2, <1>3, <2>1, <4>1 DEF InTheWay
    <3> QED BY <3>1, <3>2
  <2> QED BY <2>1, <2>7
<1>8. ASSUME NEW p \in Paths, CopyDone(p)
      PROVE  answer' = None /\ \A q \in Paths : InTheWay(q)'
  <2>1. /\ p \in todo /\ p \in sent /\ answer = None /\ answer' = None /\ todo' = todo \ {p}
        /\ \A q \in Paths : Comes(q) => q = p
    BY <1>8, ComesFacts DEF IInv, TypeOK, CopyDone, Left
  <2>2. source[p].kind = "file" /\ \A q \in Paths \ {Real(p)} : dest'[q] = dest[q]
    BY <1>8, CopyStep
  <2>3. ASSUME NEW q \in Paths PROVE InTheWay(q)'
    <3>1. CASE q = p
      BY <1>2, <2>1, <2>2, <3>1 DEF InTheWay
    <3>2. CASE q # p
      <4>1. dest'[q] = dest[q]
        BY <1>5, <2>2, <3>2
      <4> QED BY <1>2, <1>3, <2>1, <3>2, <4>1 DEF InTheWay
    <3> QED BY <3>1, <3>2
  <2> QED BY <2>1, <2>3
<1>9. ASSUME NEW p \in Paths, CopyFails(p) PROVE answer' = "error" /\ fault' # None
  BY <1>9 DEF CopyFails, Fail, None
<1>10. ASSUME NEW p \in Paths, Refuse(p) PROVE answer' = "error" /\ ~Transferable
  <2>1. Reads(p) /\ answer = None /\ p \in sent /\ answer' = "error"
    BY <1>10, ComesFacts DEF IInv, Refuse, Reads, Fail
  <2>2. source[p].kind = "fifo"
    BY <1>3, <1>10, <2>1, FreshMakes DEF Refuse
  <2> QED BY <2>1, <2>2 DEF Transferable
<1>11. CASE Finish
  BY <1>11 DEF Finish, None
<1>12. CASE NetworkBreaks
  BY <1>12 DEF NetworkBreaks, Fail, None
<1>13. CASE PackFails
  <2>1. CASE way = "upload"
    BY <1>13, <2>1 DEF PackFails, Fail, None
  <2>2. CASE way # "upload"
    <3>1. /\ answer = None /\ answer' = None /\ todo' = {} /\ dest' = dest
      BY <1>13, <2>2 DEF PackFails
    <3> QED BY <1>2, <1>3, <3>1 DEF InTheWay, None
  <2> QED BY <2>1, <2>2
<1>14. CASE UNCHANGED vars
  <2>1. \A p \in Paths : InTheWay(p) <=> InTheWay(p)'
    BY <1>2, <1>14 DEF vars, InTheWay, Comes
  <2> QED BY <1>2, <1>14, <2>1 DEF vars, FreshInv
<1>15. None # "error"
  BY DEF None
<1> QED BY <1>2, <1>6, <1>7, <1>8, <1>9, <1>10, <1>11, <1>12, <1>13, <1>14, <1>15 DEF Next, Unpack

\* Where nothing is in the way and nothing goes wrong, a tree arrives as it was: no
\* entry is refused, in whatever order and however deep, read-only directories included.
THEOREM TreesArriveAsTheyWere == Spec => []RoundTrip
<1>1. Spec => [](IInv /\ FreshInv /\ WholeInv /\ OthersUntouched)
  BY InitIInv, NextIInv, InitFresh, NextFresh, InitWhole, NextWhole, InitOthers, NextOthers,
     PTL DEF Spec
<1>2. IInv /\ FreshInv /\ WholeInv /\ OthersUntouched => RoundTrip
  <2> SUFFICES ASSUME IInv, FreshInv, WholeInv, OthersUntouched,
                      answer # None, fault = None, Fresh, Transferable
               PROVE  /\ answer = "ok"
                      /\ \A p \in Paths :
                           IF p \in sent THEN Arrived(p) ELSE dest[p] \in {Absent, Dir(TRUE)}
    BY DEF RoundTrip
  <2>1. answer = "ok"
    BY DEF IInv, TypeOK, FreshInv
  <2>2. \A p \in Paths : prior[p] \in {Absent, Dir(TRUE)} /\ prior[p].kind # "link"
    <3>1. Absent.kind # "link" /\ Dir(TRUE).kind # "link"
      BY DEF Absent, Dir
    <3> QED BY <3>1 DEF Fresh
  <2>3. Kept
    BY <2>2, DiskFacts DEF IInv, Kept, None
  <2>4. ASSUME NEW p \in sent PROVE Arrived(p)
    <3>1. Came(p)
      BY <2>1, <2>3 DEF WholeInv
    <3> QED BY <2>1, <3>1 DEF Came, Arrived, None
  <2>5. ASSUME NEW p \in Paths \ sent PROVE dest[p] \in {Absent, Dir(TRUE)}
    <3>1. \A q \in sent : prior[q] # Link(p)
      <4>1. Link(p).kind = "link" /\ sent \subseteq Paths
        BY DiskFacts DEF IInv, Link
      <4> QED BY <2>2, <4>1
    <3> QED BY <2>2, <3>1 DEF OthersUntouched
  <2> QED BY <2>1, <2>4, <2>5
<1> QED BY <1>1, <1>2, PTL
=============================================================================
