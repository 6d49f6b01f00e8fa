------------------------------ MODULE Importer ------------------------------
(***************************************************************************)
(* internal/importer: Import(src, dest), the only code of the program that *)
(* touches files.  Handlers run concurrently, so several calls are in      *)
(* progress at once and interleave at every system call; each call may     *)
(* meet an I/O error, and the program may be killed between any two steps. *)
(*                                                                         *)
(* A file is an inode that directory entries and open descriptors share,   *)
(* because a hard link gives the download and the library one inode.       *)
(***************************************************************************)
EXTENDS Integers

CONSTANTS
  Proc,        \* request handlers, the callers of Import
  Download,    \* paths of finished downloads
  Dest,        \* paths in the library
  Device,      \* the filesystem each path is on
  Inode,       \* inodes: bound on the files that exist at once
  Chunks,      \* io.Copy moves a file in this many pieces
  MaxMishaps,  \* bound on I/O errors, crashes and deleted downloads
  None

Path == Download \cup Dest

ASSUME ConstantsAssumption ==
  /\ Chunks \in Nat \ {0}
  /\ MaxMishaps \in Nat
  /\ Download \cap Dest = {}
  /\ None \notin Path \cup Inode

VARIABLES
  dir,      \* the inode each path names
  partial,  \* the inode of dest + ".axis-partial"
  data,     \* what each inode holds
  suspect,  \* history: inodes written while another copy to the same dest ran
  pc,       \* the next step of each call
  src, dst, \* its arguments
  in, out,  \* its open descriptors in copyFile
  off,      \* chunks copied so far
  mishaps   \* bounded environment events so far

files == <<dir, partial, data, suspect>>
fds == <<in, out, off>>
vars == <<dir, partial, data, suspect, pc, src, dst, in, out, off, mishaps>>

\* A chunk is tagged with the download it came from; None is a hole.
Content == [1..Chunks -> Download \cup {None}]
Blank == [k \in 1..Chunks |-> None]
Whole(s) == [k \in 1..Chunks |-> s]
IsWhole(c) == \E s \in Download : c = Whole(s)

Step == {"idle", "prepare", "remove", "link", "open", "create", "copy",
         "rename", "ok", "failed"}
Active(p) == pc[p] \notin {"idle", "ok", "failed"}
\* p has created the partial file of its destination and not yet renamed it.
Writing(p) == pc[p] \in {"copy", "rename"}

InUse == {dir[x] : x \in Path} \cup {partial[d] : d \in Dest}
         \cup {in[p] : p \in Proc} \cup {out[p] : p \in Proc}
Free == Inode \ InUse
Fresh == CHOOSE i \in Free : TRUE

\* An inode's contents go with its last name and descriptor.
Store(contents) ==
  data' = [i \in Inode |-> IF i \in InUse' THEN contents[i] ELSE Blank]

TypeOK ==
  /\ dir \in [Path -> Inode \cup {None}]
  /\ partial \in [Dest -> Inode \cup {None}]
  /\ data \in [Inode -> Content]
  /\ suspect \subseteq Inode
  /\ pc \in [Proc -> Step]
  /\ src \in [Proc -> Path \cup {None}]
  /\ dst \in [Proc -> Dest \cup {None}]
  /\ in \in [Proc -> Inode \cup {None}]
  /\ out \in [Proc -> Inode \cup {None}]
  /\ off \in [Proc -> 0..Chunks]
  /\ mishaps \in 0..MaxMishaps
  /\ \A p \in Proc :
       /\ pc[p] # "idle" => src[p] \in Path /\ dst[p] \in Dest
       /\ in[p] # None <=> pc[p] \in {"create", "copy", "rename"}
       /\ out[p] # None <=> pc[p] = "copy"

Init ==
  /\ dir = [x \in Path |-> None]
  /\ partial = [d \in Dest |-> None]
  /\ data = [i \in Inode |-> Blank]
  /\ suspect = {}
  /\ pc = [p \in Proc |-> "idle"]
  /\ src = [p \in Proc |-> None]
  /\ dst = [p \in Proc |-> None]
  /\ in = [p \in Proc |-> None]
  /\ out = [p \in Proc |-> None]
  /\ off = [p \in Proc |-> 0]
  /\ mishaps = 0

-----------------------------------------------------------------------------
Goto(p, step) == pc' = [pc EXCEPT ![p] = step]

\* Return from Import: the deferred Close and the descriptors go.
Finish(p, result) ==
  /\ Goto(p, result)
  /\ in' = [in EXCEPT ![p] = None]
  /\ out' = [out EXCEPT ![p] = None]
  /\ off' = [off EXCEPT ![p] = 0]

Fail(p) == Finish(p, "failed") /\ UNCHANGED <<dir, partial, suspect>> /\ Store(data)

Mishap == mishaps < MaxMishaps /\ mishaps' = mishaps + 1

\* Import(s, d) is called; s may be gone since the handler's scan found it.
Begin(p, s, d) ==
  /\ pc[p] = "idle"
  /\ Goto(p, "prepare")
  /\ src' = [src EXCEPT ![p] = s]
  /\ dst' = [dst EXCEPT ![p] = d]
  /\ UNCHANGED <<files, fds, mishaps>>

\* MkdirAll, whose directories are not modelled, then Stat(dest).
Prepare(p) ==
  /\ pc[p] = "prepare"
  /\ Goto(p, IF dir[dst[p]] # None THEN "remove" ELSE "link")
  /\ UNCHANGED <<files, src, dst, fds, mishaps>>

\* Remove(dest), gone if another call removed it since the Stat.
Remove(p) ==
  /\ pc[p] = "remove"
  /\ \/ /\ dir[dst[p]] # None
        /\ Goto(p, "link")
        /\ dir' = [dir EXCEPT ![dst[p]] = None]
        /\ UNCHANGED <<partial, suspect, fds>>
        /\ Store(data)
     \/ dir[dst[p]] = None /\ Fail(p)
  /\ UNCHANGED <<src, dst, mishaps>>

\* Mutant: a dest that another call has placed counts as success.
LinkTakesExisting(p) ==
  /\ pc[p] = "link"
  /\ \/ dir[src[p]] = None /\ Fail(p)
     \/ /\ dir[src[p]] # None
        /\ IF dir[dst[p]] = None /\ Device[src[p]] # Device[dst[p]]
           THEN Goto(p, "open") /\ UNCHANGED dir
           ELSE /\ Goto(p, "ok")
                /\ dir' = IF dir[dst[p]] # None THEN dir
                          ELSE [dir EXCEPT ![dst[p]] = dir[src[p]]]
        /\ UNCHANGED <<partial, data, suspect, fds>>
  /\ UNCHANGED <<src, dst, mishaps>>

\* Mutant: no copy across filesystems.
LinkOnly(p) ==
  /\ pc[p] = "link"
  /\ IF dir[src[p]] # None /\ dir[dst[p]] = None /\ Device[src[p]] = Device[dst[p]]
     THEN /\ Goto(p, "ok")
          /\ dir' = [dir EXCEPT ![dst[p]] = dir[src[p]]]
          /\ UNCHANGED <<partial, data, suspect, fds>>
     ELSE Fail(p)
  /\ UNCHANGED <<src, dst, mishaps>>

\* Link(src, dest) fails with ENOENT, EEXIST or EXDEV, in this order.
Link(p) ==
  /\ pc[p] = "link"
  /\ \/ (dir[src[p]] = None \/ dir[dst[p]] # None) /\ Fail(p)
     \/ /\ dir[src[p]] # None /\ dir[dst[p]] = None
        /\ Device[src[p]] # Device[dst[p]]
        /\ Goto(p, "open")
        /\ UNCHANGED <<files, fds>>
     \/ /\ dir[src[p]] # None /\ dir[dst[p]] = None
        /\ Device[src[p]] = Device[dst[p]]
        /\ Goto(p, "ok")
        /\ dir' = [dir EXCEPT ![dst[p]] = dir[src[p]]]
        /\ UNCHANGED <<partial, data, suspect, fds>>
  /\ UNCHANGED <<src, dst, mishaps>>

Open(p) ==
  /\ pc[p] = "open"
  /\ \/ dir[src[p]] = None /\ Fail(p)
     \/ /\ dir[src[p]] # None
        /\ Goto(p, "create")
        /\ in' = [in EXCEPT ![p] = dir[src[p]]]
        /\ UNCHANGED <<files, out, off>>
  /\ UNCHANGED <<src, dst, mishaps>>

\* Mutant: the copy is written to dest itself.
CreateTargetInPlace(p) == IF dir[dst[p]] # None THEN dir[dst[p]] ELSE Fresh

\* The file Create opens: the partial file that is there, or a new one.
CreateTarget(p) == IF partial[dst[p]] # None THEN partial[dst[p]] ELSE Fresh

Overlaps(p) == \E q \in Proc \ {p} : Writing(q) /\ dst[q] = dst[p]

\* Mutant: the partial file is created with O_EXCL.
CreateExclusive(p) ==
  /\ pc[p] = "create"
  /\ \/ partial[dst[p]] # None /\ Fail(p)
     \/ /\ partial[dst[p]] = None
        /\ Free # {}
        /\ Goto(p, "copy")
        /\ partial' = [partial EXCEPT ![dst[p]] = Fresh]
        /\ out' = [out EXCEPT ![p] = Fresh]
        /\ suspect' = IF in[p] \in suspect THEN suspect \cup {Fresh} ELSE suspect \ {Fresh}
        /\ UNCHANGED <<dir, in, off>>
        /\ Store([data EXCEPT ![Fresh] = Blank])
  /\ UNCHANGED <<src, dst, mishaps>>

\* Create truncates an existing partial file, whoever is writing to it.
Create(p) ==
  /\ pc[p] = "create"
  /\ partial[dst[p]] # None \/ Free # {}
  /\ Goto(p, "copy")
  /\ partial' = [partial EXCEPT ![dst[p]] = CreateTarget(p)]
  /\ out' = [out EXCEPT ![p] = CreateTarget(p)]
  /\ suspect' = IF Overlaps(p) \/ in[p] \in suspect
                THEN suspect \cup {CreateTarget(p)}
                ELSE suspect \ {CreateTarget(p)}
  /\ UNCHANGED <<dir, src, dst, in, off, mishaps>>
  /\ Store([data EXCEPT ![CreateTarget(p)] = Blank])

CopyChunk(p) ==
  /\ pc[p] = "copy"
  /\ off[p] < Chunks
  /\ off' = [off EXCEPT ![p] = @ + 1]
  /\ data' = [data EXCEPT ![out[p]][off[p] + 1] = data[in[p]][off[p] + 1]]
  /\ UNCHANGED <<dir, partial, suspect, pc, src, dst, in, out, mishaps>>

\* Mutant: the error of io.Copy is dropped.
CloseEarly(p) ==
  /\ pc[p] = "copy"
  /\ Goto(p, "rename")
  /\ out' = [out EXCEPT ![p] = None]
  /\ UNCHANGED <<dir, partial, suspect, src, dst, in, off, mishaps>>
  /\ Store(data)

Close(p) ==
  /\ pc[p] = "copy"
  /\ off[p] = Chunks
  /\ Goto(p, "rename")
  /\ out' = [out EXCEPT ![p] = None]
  /\ UNCHANGED <<dir, partial, suspect, src, dst, in, off, mishaps>>
  /\ Store(data)

\* Mutants: the partial file is linked instead of renamed, or the download
\* is removed once it is copied.
RenameKeepsPartial(p) ==
  /\ pc[p] = "rename"
  /\ partial[dst[p]] # None
  /\ Finish(p, "ok")
  /\ dir' = [dir EXCEPT ![dst[p]] = partial[dst[p]]]
  /\ UNCHANGED <<partial, suspect, src, dst, mishaps>>
  /\ Store(data)
RenameMoves(p) ==
  /\ pc[p] = "rename"
  /\ partial[dst[p]] # None
  /\ Finish(p, "ok")
  /\ dir' = [dir EXCEPT ![dst[p]] = partial[dst[p]], ![src[p]] = None]
  /\ partial' = [partial EXCEPT ![dst[p]] = None]
  /\ UNCHANGED <<suspect, src, dst, mishaps>>
  /\ Store(data)

\* Mutant: a call whose partial file is gone starts the copy again.
RenameRetries(p) ==
  /\ pc[p] = "rename"
  /\ \/ /\ partial[dst[p]] # None
        /\ Finish(p, "ok")
        /\ dir' = [dir EXCEPT ![dst[p]] = partial[dst[p]]]
        /\ partial' = [partial EXCEPT ![dst[p]] = None]
     \/ partial[dst[p]] = None /\ Finish(p, "open") /\ UNCHANGED <<dir, partial>>
  /\ Store(data)
  /\ UNCHANGED <<suspect, src, dst, mishaps>>

\* Rename replaces whatever dest names; the partial file may be gone by now.
Rename(p) ==
  /\ pc[p] = "rename"
  /\ \/ /\ partial[dst[p]] # None
        /\ Finish(p, "ok")
        /\ dir' = [dir EXCEPT ![dst[p]] = partial[dst[p]]]
        /\ partial' = [partial EXCEPT ![dst[p]] = None]
        /\ Store(data)
        /\ UNCHANGED suspect
     \/ partial[dst[p]] = None /\ Fail(p)
  /\ UNCHANGED <<src, dst, mishaps>>

Return(p) ==
  /\ pc[p] \in {"ok", "failed"}
  /\ Goto(p, "idle")
  /\ src' = [src EXCEPT ![p] = None]
  /\ dst' = [dst EXCEPT ![p] = None]
  /\ UNCHANGED <<files, fds, mishaps>>

\* A system call fails.  A Stat that fails reads as an absent dest; only a
\* failed copy or close removes the partial file, and that may fail as well.
Fault(p) ==
  /\ Active(p)
  /\ Mishap
  /\ \/ Finish(p, "failed")
     \/ pc[p] = "prepare" /\ Goto(p, "link") /\ UNCHANGED fds
  /\ \/ UNCHANGED partial
     \/ pc[p] = "copy" /\ partial' = [partial EXCEPT ![dst[p]] = None]
  /\ UNCHANGED <<dir, suspect, src, dst>>
  /\ Store(data)

\* The program dies and is started again: calls are lost, files stay.
Crash ==
  /\ Mishap
  /\ pc' = [p \in Proc |-> "idle"]
  /\ src' = [p \in Proc |-> None]
  /\ dst' = [p \in Proc |-> None]
  /\ in' = [p \in Proc |-> None]
  /\ out' = [p \in Proc |-> None]
  /\ off' = [p \in Proc |-> 0]
  /\ UNCHANGED <<dir, partial, suspect>>
  /\ Store(data)

\* The download client finishes a download, or deletes a seeded one.
Arrive(s) ==
  /\ dir[s] = None
  /\ Free # {}
  /\ dir' = [dir EXCEPT ![s] = Fresh]
  /\ suspect' = suspect \ {Fresh}
  /\ data' = [data EXCEPT ![Fresh] = Whole(s)]
  /\ UNCHANGED <<partial, pc, src, dst, fds, mishaps>>

Vanish(s) ==
  /\ dir[s] # None
  /\ Mishap
  /\ dir' = [dir EXCEPT ![s] = None]
  /\ UNCHANGED <<partial, suspect, pc, src, dst, fds>>
  /\ Store(data)

\* The steps Import itself takes, and those of its surroundings.
ImportStep(p) ==
  \/ Prepare(p) \/ Remove(p) \/ Link(p) \/ Open(p) \/ Create(p)
  \/ CopyChunk(p) \/ Close(p) \/ Rename(p)

Downloads == \E s \in Download : Arrive(s) \/ Vanish(s)

Next ==
  \/ \E p \in Proc : \/ \E s \in Path, d \in Dest : Begin(p, s, d)
                     \/ ImportStep(p)
                     \/ Fault(p)
                     \/ Return(p)
  \/ Crash
  \/ Downloads

Spec == Init /\ [][Next]_vars

\* How many steps a call has left at most.
StepsLeft(p) ==
  CASE pc[p] = "prepare" -> Chunks + 7
    [] pc[p] = "remove" -> Chunks + 6
    [] pc[p] = "link" -> Chunks + 5
    [] pc[p] = "open" -> Chunks + 4
    [] pc[p] = "create" -> Chunks + 3
    [] pc[p] = "copy" -> Chunks + 2 - off[p]
    [] pc[p] = "rename" -> 1
    [] OTHER -> 0

-----------------------------------------------------------------------------
(* A finished download keeps its bytes although the library shares its     *)
(* inode: no copy ever writes to or truncates a file that a download names *)
(* (importer.go:127-128 writes only to the partial file).                  *)
DownloadsIntact ==
  \A s \in Download : dir[s] # None => data[dir[s]] = Whole(s)

(* A library file is either a whole download or was touched by two copies  *)
(* to the same destination at once: faults, crashes, leftover partial files*)
(* and deleted downloads alone never leave a truncated or mixed file under *)
(* the final name (importer.go:127-141 copies aside and renames).          *)
TornOnlyByOverlap ==
  \A d \in Dest : dir[d] # None /\ dir[d] \notin suspect => IsWhole(data[dir[d]])

(* Without faults and crashes no partial file outlives the calls that write*)
(* it: it exists only while some call to that destination is in copyFile   *)
(* after its Create (importer.go:128-141).                                 *)
NoLeftovers ==
  mishaps = 0 => \A d \in Dest : partial[d] # None =>
                     \E p \in Proc : Writing(p) /\ dst[p] = d

(* Import reports success only in the step that puts the bytes of the file *)
(* it opened under dest, unless copies overlapped (importer.go:112-118,    *)
(* 132-141).                                                               *)
Placed(p) ==
  /\ dir'[dst[p]] # None
  /\ dir'[dst[p]] \notin suspect' =>
       IF src[p] \in Download THEN data'[dir'[dst[p]]] = Whole(src[p])
                              ELSE IsWhole(data'[dir'[dst[p]]])
SuccessPlacesSource ==
  [][\A p \in Proc : pc[p] # "ok" /\ pc'[p] = "ok" => Placed(p)]_vars

(* "Import places src at dest" (importer.go:100): once every call has      *)
(* returned, each library file holds one download.  The code does not      *)
(* ensure it when two calls copy different downloads to one dest.          *)
DestWhole ==
  (\A p \in Proc : pc[p] = "idle") =>
    \A d \in Dest : dir[d] # None => IsWhole(data[dir[d]])

-----------------------------------------------------------------------------
(* The inductive strengthening of the safety properties above.             *)
Sound(i) == i \notin suspect => IsWhole(data[i]) /\ \A q \in Proc : out[q] # i

\* A partial file has no other name, no reader, and writers of one dest only.
PartialsApart ==
  \A d \in Dest : partial[d] # None =>
    /\ \A e \in Dest : partial[e] = partial[d] => e = d
    /\ \A x \in Path : dir[x] # partial[d]
    /\ \A p \in Proc : in[p] # partial[d]
    /\ \A p \in Proc : out[p] = partial[d] => dst[p] = d

NamesSound ==
  /\ \A x \in Path : dir[x] # None => Sound(dir[x])
  /\ \A s \in Download :
       dir[s] # None => dir[s] \notin suspect /\ data[dir[s]] = Whole(s)

SourcesSound ==
  \A p \in Proc :
    /\ pc[p] = "rename" => off[p] = Chunks
    /\ ~Writing(p) => off[p] = 0
    /\ in[p] # None => Sound(in[p])
    /\ in[p] # None /\ src[p] \in Download =>
         in[p] \notin suspect /\ data[in[p]] = Whole(src[p])

\* A writer that nobody disturbed owns its partial file and its bytes.
CopiesFaithful ==
  \A p \in Proc : Writing(p) =>
    /\ out[p] # None /\ out[p] \notin suspect => partial[dst[p]] = out[p]
    /\ partial[dst[p]] # None /\ partial[dst[p]] \notin suspect =>
         /\ ~Overlaps(p)
         /\ in[p] \notin suspect
         /\ pc[p] = "copy" => out[p] = partial[dst[p]]
         /\ \A k \in 1..off[p] : data[partial[dst[p]]][k] = data[in[p]][k]

IInv == TypeOK /\ PartialsApart /\ NamesSound /\ SourcesSound /\ CopiesFaithful
=============================================================================
