---------------------------- MODULE FileTransfer ----------------------------
(***************************************************************************)
(* One transfer of files: UploadDir (Pack by the SDK, Unpack by the        *)
(* agent), DownloadDir (the other way round) or WriteFile, onto a disk     *)
(* that may hold something already, and everything that can stop it.       *)
(*                                                                         *)
(* A disk is a function from paths to nodes.  The path <<>> is the         *)
(* directory transferred; the one it lies in exists and is writable.  The  *)
(* process that unpacks is not root: a directory whose mode forbids        *)
(* writing refuses new entries.  Of a mode only that bit is kept.          *)
(***************************************************************************)
EXTENDS Naturals, Sequences, SequencesExt

CONSTANTS
  Walk,      \* the paths, in the order of filepath.WalkDir
  Contents,  \* what a complete file can hold
  Sources,   \* the disks a transfer can read
  Priors     \* the disks it can find where it writes

Paths == ToSet(Walk)

Absent == [kind |-> "absent"]
Dir(writable) == [kind |-> "dir", writable |-> writable]
File(data, writable) == [kind |-> "file", data |-> data, writable |-> writable]
Link(to) == [kind |-> "link", to |-> to]
Fifo == [kind |-> "fifo"]      \* Pack writes an entry for it, Unpack refuses it
Socket == [kind |-> "socket"]  \* Pack cannot write an entry for it

\* What a file holds while it is copied, and after a copy that failed.
Partial == "partial"

Nodes ==
  {Absent, Fifo, Socket} \cup {Dir(w) : w \in BOOLEAN} \cup {Link(p) : p \in Paths}
    \cup {File(c, w) : c \in Contents \cup {Partial}, w \in BOOLEAN}

Below(p) == {q \in Paths : q # p /\ IsPrefix(p, q)}

IsTree(disk) == \A p \in Paths : \A q \in Below(p) : disk[q] # Absent => disk[p].kind = "dir"

\* A directory comes before what is in it.
ASSUME WalkAssumption ==
  /\ Walk \in Seq(Seq(STRING))
  /\ \A i, j \in DOMAIN Walk : IsPrefix(Walk[i], Walk[j]) => i <= j
  /\ <<>> \in Paths /\ \A p \in Paths \ {<<>>} : Front(p) \in Paths

\* Links lead to paths that hold no link themselves on any disk, and a transfer does
\* not write where a special file is.
ASSUME DisksAssumption ==
  /\ \A disk \in Sources \cup Priors :
       /\ disk \in [Paths -> Nodes] /\ IsTree(disk)
       /\ disk[<<>>].kind \in {"absent", "dir"}
       /\ \A p \in Paths :
            /\ disk[p].kind = "link" =>
                 \A other \in Sources \cup Priors : other[disk[p].to].kind # "link"
            /\ disk[p].kind = "file" => disk[p].data \in Contents
  /\ \A disk \in Sources : disk[<<>>] # Absent
  /\ \A disk \in Priors : \A p \in Paths : disk[p].kind \notin {"fifo", "socket"}
  /\ Partial \notin Contents

VARIABLES
  way,     \* which of the three calls
  source,  \* the disk it reads
  sent,    \* the entries to transfer, which come in the order of Walk
  prior,   \* history: the disk it writes, as it was
  dest,    \* that disk now
  todo,    \* entries still to come
  open,    \* the file of the entry that comes first is being copied
  dirs,    \* directories whose mode is still to be set
  fault,   \* history: what went wrong outside the files themselves
  answer   \* what the caller of the SDK gets

call == <<way, source, sent, prior>>
vars == <<call, dest, todo, open, dirs, fault, answer>>

None == "none"

TypeOK ==
  /\ way \in {"upload", "download", "put"}
  /\ source \in Sources /\ prior \in Priors
  /\ dest \in [Paths -> Nodes] /\ IsTree(dest)
  /\ sent \subseteq Paths /\ todo \subseteq sent
  /\ open \in BOOLEAN /\ (open => todo # {} /\ answer = None)
  /\ dirs \subseteq {p \in sent \ todo : source[p].kind = "dir"}
  /\ fault \in {None, "pack", "copy", "network"}
  /\ answer \in {None, "ok", "error"}

\* A download has no entry for the root, whose prefix is empty.
Archives(how, disk) ==
  IF how = "put"
  THEN {{p} : p \in {q \in Paths : disk[q].kind = "file"}}
  ELSE {{p \in Paths : disk[p] # Absent /\ (how = "download" => p # <<>>)}}

\* Unpack makes its root, which for an upload is where the directory lies.
Start(how, disk) ==
  IF how = "download" /\ disk[<<>>] = Absent THEN [disk EXCEPT ![<<>>] = Dir(TRUE)] ELSE disk

Init ==
  /\ source \in Sources /\ prior \in Priors
  /\ way \in {"upload", "download", "put"}
  /\ dest = Start(way, prior)
  /\ sent \in Archives(way, source) /\ todo = sent
  /\ open = FALSE /\ dirs = {} /\ fault = None /\ answer = None

-----------------------------------------------------------------------------
(* The file system *)

Up(p) == {q \in Paths : IsPrefix(q, p)}

\* An entry can be made or removed at p.
Accepts(disk, p) == p = <<>> \/ disk[Front(p)] = Dir(TRUE)

\* What MkdirAll leaves: the missing ones are made, the others kept.
MadeDirs(p) ==
  [q \in Paths |-> IF q \in Up(p) /\ dest[q] = Absent THEN Dir(TRUE) ELSE dest[q]]

\* MkdirAll: it fails on anything but a directory in the way, and in a
\* directory that is not writable.
CanMakeDirs(p) ==
  \A q \in Up(p) :
    /\ dest[q].kind \in {"absent", "dir"}
    /\ dest[q] = Absent => Accepts(MadeDirs(p), q)

\* Opening and Chmod follow a link, Remove and Symlink do not.
Real(p) == IF dest[p].kind = "link" THEN dest[p].to ELSE p

\* Remove takes what has nothing in it.
Removable(p) ==
  /\ dest[p] # Absent /\ Accepts(dest, p)
  /\ \A q \in Below(p) : dest[q] = Absent

Removed(p) == IF Removable(p) THEN [dest EXCEPT ![p] = Absent] ELSE dest

-----------------------------------------------------------------------------
(* Unpack and handleWriteFile *)

\* p is the entry that comes next, or is being copied.
Position(p) == CHOOSE i \in DOMAIN Walk : Walk[i] = p
Comes(p) == p \in todo /\ \A q \in todo : Position(p) <= Position(q)

\* Its header has been read.
Reads(p) == answer = None /\ ~open /\ Comes(p)

Left(p) == todo' = todo \ {p}

Fail ==
  /\ answer' = "error" /\ open' = FALSE
  /\ UNCHANGED <<call, todo, dirs>>

\* Mutants of UnpackDir: the mode is set at once; what was there is replaced.
UnpackDirWithMode(p) ==
  /\ Reads(p) /\ source[p].kind = "dir" /\ CanMakeDirs(p)
  /\ dest' = [MadeDirs(p) EXCEPT ![p] = source[p]] /\ Left(p)
  /\ UNCHANGED <<call, open, dirs, fault, answer>>

UnpackDirAnew(p) ==
  /\ Reads(p) /\ source[p].kind = "dir" /\ CanMakeDirs(p)
  /\ dest' = [q \in Paths |-> IF q \in Below(p) THEN Absent ELSE MadeDirs(p)[q]]
  /\ dirs' = dirs \cup {p} /\ Left(p)
  /\ UNCHANGED <<call, open, fault, answer>>

UnpackDir(p) ==
  /\ Reads(p) /\ source[p].kind = "dir" /\ CanMakeDirs(p)
  /\ dest' = MadeDirs(p) /\ dirs' = dirs \cup {p} /\ Left(p)
  /\ UNCHANGED <<call, open, fault, answer>>

\* O_CREATE and O_TRUNC, through a link if there is one.
CanOpen(p) ==
  LET q == Real(p)
  IN  /\ CanMakeDirs(Front(p))
      /\ \/ dest[q].kind = "file" /\ dest[q].writable
         \/ dest[q] = Absent /\ Accepts(MadeDirs(Front(p)), q)

\* Mutant of OpenFile: no parents are made.
OpenFileOnly(p) ==
  /\ Reads(p) /\ source[p].kind = "file" /\ CanOpen(p)
  /\ dest' = [dest EXCEPT ![Real(p)] = File(Partial, TRUE)]
  /\ open' = TRUE
  /\ UNCHANGED <<call, todo, dirs, fault, answer>>

OpenFile(p) ==
  /\ Reads(p) /\ source[p].kind = "file" /\ CanOpen(p)
  /\ dest' = [MadeDirs(Front(p)) EXCEPT ![Real(p)] = File(Partial, TRUE)]
  /\ open' = TRUE
  /\ UNCHANGED <<call, todo, dirs, fault, answer>>

\* Unpack sets the mode of the entry, handleWriteFile leaves it.
CopyDone(p) ==
  /\ open /\ Comes(p)
  /\ dest' = [dest EXCEPT ![Real(p)] =
                File(source[p].data, way = "put" \/ source[p].writable)]
  /\ open' = FALSE /\ Left(p)
  /\ UNCHANGED <<call, dirs, fault, answer>>

\* Mutant of CopyFails: the file stays.
CopyFailsKeeps(p) ==
  /\ open /\ Comes(p)
  /\ fault' = "copy" /\ UNCHANGED dest
  /\ Fail

\* The body ends early or the disk is full: the file is removed, by its name.
CopyFails(p) ==
  /\ open /\ Comes(p)
  /\ dest' = Removed(p) /\ fault' = "copy"
  /\ Fail

CanLink(p) ==
  /\ CanMakeDirs(Front(p))
  /\ IF dest[p] = Absent THEN Accepts(MadeDirs(Front(p)), p) ELSE Removable(p)

UnpackLink(p) ==
  /\ Reads(p) /\ source[p].kind = "link" /\ CanLink(p)
  /\ dest' = [MadeDirs(Front(p)) EXCEPT ![p] = source[p]]
  /\ Left(p)
  /\ UNCHANGED <<call, open, dirs, fault, answer>>

\* An entry that cannot be made ends the transfer; what came before stays.
Refuse(p) ==
  /\ Reads(p) /\ source[p].kind # "socket"
  /\ \/ source[p].kind = "dir" /\ ~CanMakeDirs(p)
     \/ source[p].kind = "file" /\ ~CanOpen(p)
     \/ source[p].kind = "link" /\ ~CanLink(p)
     \/ source[p].kind = "fifo"
  /\ UNCHANGED <<dest, fault>>
  /\ Fail

\* The end of the archive: the modes of the directories, then the answer.
Finish ==
  /\ answer = None /\ ~open /\ todo = {}
  /\ dest' = [p \in Paths |-> IF p \in dirs THEN source[p] ELSE dest[p]]
  /\ dirs' = {} /\ answer' = "ok"
  /\ UNCHANGED <<call, todo, open, fault>>

-----------------------------------------------------------------------------
(* The sender and the connection *)

\* Mutant of PackFails: the error is dropped and the pipe closed.
PackFailsSilently ==
  /\ answer = None /\ ~open /\ todo # {} /\ way # "put"
  /\ fault' = "pack" /\ todo' = {}
  /\ UNCHANGED <<call, dest, open, dirs, answer>>

\* Pack meets a socket, or a file that vanished or cannot be read, between
\* two entries.  The SDK breaks its request off (CloseWithError).  The agent
\* has sent its status already, logs, and returns: the client reads an end.
PackFails ==
  /\ answer = None /\ ~open /\ todo # {} /\ way # "put"
  /\ fault' = "pack"
  /\ IF way = "upload"
     THEN UNCHANGED dest /\ Fail
     ELSE todo' = {} /\ UNCHANGED <<call, dest, open, dirs, answer>>

NetworkBreaks ==
  /\ answer = None /\ ~open
  /\ fault' = "network" /\ UNCHANGED dest
  /\ Fail

Unpack(p) ==
  UnpackDir(p) \/ OpenFile(p) \/ CopyDone(p) \/ CopyFails(p) \/ UnpackLink(p) \/ Refuse(p)

Next ==
  \/ \E p \in Paths : Unpack(p)
  \/ Finish \/ PackFails \/ NetworkBreaks

Spec == Init /\ [][Next]_vars

-----------------------------------------------------------------------------
(* Properties *)

\* The entry for p has arrived; WriteFile carries no mode.
Arrived(p) ==
  IF way = "put"
  THEN dest[Real(p)].kind = "file" /\ dest[Real(p)].data = source[p].data
  ELSE dest[p] = source[p]

Transferable == \A p \in sent : source[p].kind \notin {"fifo", "socket"}

Fresh ==
  /\ prior[<<>>] \in {Absent, Dir(TRUE)}
  /\ \A p \in Paths \ {<<>>} : prior[p] = Absent

\* Where nothing is in the way and nothing goes wrong, a tree arrives as it
\* was, read-only directories with their contents included: Unpack makes
\* every directory writable first and sets its mode after the last entry.
RoundTrip ==
  answer # None /\ fault = None /\ Fresh /\ Transferable =>
    /\ answer = "ok"
    /\ \A p \in Paths :
         IF p \in sent THEN Arrived(p)
         ELSE dest[p] \in {Absent, Dir(TRUE)} \* a parent

\* Success means that everything has arrived, whatever was there before:
\* Pack, Unpack and both handlers report every failure.  Two cases are left
\* out because the code does not keep them: a download whose Pack failed
\* between two entries (server.go logs it, and the client reads a shorter
\* archive), and a file written through a link that was there.
SuccessIsWhole ==
  /\ answer = "ok" /\ ~(way = "download" /\ fault = "pack")
  /\ way # "put" => \A p \in sent : source[p].kind = "file" => prior[p].kind # "link"
  => \A p \in sent : Arrived(p)

\* A transfer, failed or not, leaves alone what it has no entry for; only the
\* target of a link that was there may change, and parents may be made.
OthersUntouched ==
  \A p \in Paths \ sent :
    \/ dest[p] = prior[p]
    \/ prior[p] = Absent /\ dest[p] = Dir(TRUE)
    \/ \E q \in sent : prior[q] = Link(p)

\* A failed write leaves no half-written file, which a later run would read
\* as a complete one.  Remove goes by the name: it takes a link and not the
\* file behind it, and it needs a writable directory.
NoHalfFile ==
  answer # None =>
    \A p \in Paths :
      dest[p].kind = "file" /\ dest[p].data = Partial =>
        \/ \E q \in sent : prior[q] = Link(p)
        \/ p # <<>> /\ prior[Front(p)] = Dir(FALSE)
=============================================================================
