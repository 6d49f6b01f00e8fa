--------------------------- MODULE ImportPipeline ---------------------------
(***************************************************************************)
(* POST /api/v3/command (internal/api/v3/import.go): handlers that scan a  *)
(* path, call importer.Import and record the outcome in three separate     *)
(* database calls, without a transaction.  Files are those of Importer;    *)
(* the request's context ends after 60 s or when the client leaves         *)
(* (server.go:40), which fails every later database call but stops no      *)
(* system call.                                                            *)
(***************************************************************************)
EXTENDS Integers

CONSTANTS
  Proc, Download, Dest, Device, Inode, Chunks, MaxMishaps, None,
  Movie,        \* movies in the database; the API cannot change or delete one
  Root,         \* paths of root folders, numbered in the order of the paths
  PinnedRoot,   \* root_folder_path of each movie, None when it has none
  FolderOf,     \* importer.FolderName of each movie
  LabelOf,      \* quality and extension read from the name of a file
  RequestPath,  \* what a request may name: sets of video files
  MaxFaults,    \* bound on database errors and ended request contexts
  Slow          \* downloads whose copy takes longer than the deadline

VARIABLES
  dir, partial, data, suspect, pc, src, dst, in, out, off, mishaps,
  at,         \* where each handler is
  movie,      \* the movie of its request
  expired,    \* handlers whose request context has ended
  roots,      \* the root_folder table
  file,       \* the movie_file row of each movie
  available,  \* movies with has_file set
  home,       \* the root in the path column of each imported movie
  log,        \* history rows
  faults      \* database errors and ended contexts so far

Fs == INSTANCE Importer
Library == INSTANCE MovieLibrary WITH Source <- Fs!Path, File <- Dest

\* The name of the file is parsed, be it in a download or in the library.
DestPath(root, m, s) == [root |-> root, folder |-> FolderOf[m], label |-> LabelOf[s]]

ASSUME PipelineAssumption ==
  /\ Fs!ConstantsAssumption
  /\ MaxFaults \in Nat
  /\ Root \subseteq Int
  /\ None \notin Root \cup Movie \cup Dest
  /\ PinnedRoot \in [Movie -> Root \cup {None}]
  /\ RequestPath \subseteq SUBSET Fs!Path
  /\ \A d \in Dest : d.root \in Root
  /\ \A root \in Root, m \in Movie, s \in Fs!Path : DestPath(root, m, s) \in Dest

calls == <<dir, partial, data, suspect, pc, src, dst, in, out, off>>
tables == <<file, available, home, log>>
vars == <<calls, mishaps, at, movie, expired, roots, tables, faults>>

TypeOK ==
  /\ Fs!TypeOK
  /\ at \in [Proc -> {"idle", "import", "setImported", "history", "created", "error"}]
  /\ movie \in [Proc -> Movie \cup {None}]
  /\ expired \subseteq Proc
  /\ roots \subseteq Root
  /\ faults \in 0..MaxFaults
  /\ file \in [Movie -> Dest \cup {None}]
  /\ available \subseteq Movie
  /\ home \in [Movie -> Root \cup {None}]
  /\ log \subseteq [movie : Movie, from : Fs!Path, to : Dest]
  /\ \A p \in Proc : /\ at[p] # "idle" <=> movie[p] # None
                     /\ at[p] # "idle" <=> pc[p] # "idle"

Init ==
  /\ Fs!Init
  /\ at = [p \in Proc |-> "idle"]
  /\ movie = [p \in Proc |-> None]
  /\ expired = {}
  /\ faults = 0
  /\ roots \in SUBSET Root
  /\ home = [m \in Movie |-> None]
  /\ Library!Init

-----------------------------------------------------------------------------
\* importer.ScanVideoFiles: the largest video file first, ties in any order.
Length(i) == CHOOSE n \in 0..Chunks :
  /\ n > 0 => data[i][n] # None
  /\ \A k \in (n + 1)..Chunks : data[i][k] = None
ScanVideoFiles(paths) ==
  LET found == {s \in paths : dir[s] # None}
  IN  {s \in found : \A t \in found : Length(dir[t]) <= Length(dir[s])}

\* Mutant: the movie's own root folder is ignored.
FirstRoot(m) == {r \in roots : \A q \in roots : r <= q}

\* The movie's own root folder, or else the first of the table.
RootFolderFor(m) ==
  IF PinnedRoot[m] # None THEN {PinnedRoot[m]}
  ELSE {r \in roots : \A q \in roots : r <= q}

Disturbed == faults < MaxFaults /\ faults' = faults + 1
Enter(p, step) == at' = [at EXCEPT ![p] = step]

\* Mutant: the label is read from another file of the scan.
RequestMislabels(p, m, paths) ==
  /\ at[p] = "idle"
  /\ \E s, t \in ScanVideoFiles(paths), root \in RootFolderFor(m) :
       Fs!Begin(p, s, DestPath(root, m, t))
  /\ Enter(p, "import")
  /\ movie' = [movie EXCEPT ![p] = m]
  /\ UNCHANGED <<expired, roots, tables, faults>>

\* GetMovie, the scan and the choice of the root only read; a request that
\* fails in one of them changes nothing and is left out.
Request(p, m, paths) ==
  /\ at[p] = "idle"
  /\ \E s \in ScanVideoFiles(paths), root \in RootFolderFor(m) :
       Fs!Begin(p, s, DestPath(root, m, s))
  /\ Enter(p, "import")
  /\ movie' = [movie EXCEPT ![p] = m]
  /\ UNCHANGED <<expired, roots, tables, faults>>

\* A copy from a slow download outlasts the deadline.
Import(p) ==
  /\ at[p] = "import"
  /\ Fs!ImportStep(p) \/ Fs!Fault(p)
  /\ expired' = IF pc[p] = "copy" /\ src[p] \in Slow THEN expired \cup {p} ELSE expired
  /\ UNCHANGED <<at, movie, roots, tables, faults>>

\* A database call fails once the context has ended.  One that fails for
\* another reason may have been committed with only its answer lost.
DbCall(p, committed, onSuccess, onError) ==
  /\ \/ p \notin expired /\ committed /\ Enter(p, onSuccess) /\ UNCHANGED faults
     \/ p \notin expired /\ committed /\ Enter(p, onError) /\ Disturbed
     \/ p \notin expired /\ UNCHANGED tables /\ Enter(p, onError) /\ Disturbed
     \/ p \in expired /\ UNCHANGED tables /\ Enter(p, onError) /\ UNCHANGED faults
  /\ UNCHANGED <<calls, mishaps, movie, expired, roots>>

\* Mutants: the error of the first or of the second write is dropped.
UpsertUnchecked(p) ==
  /\ at[p] = "import"
  /\ pc[p] = "ok"
  /\ DbCall(p, /\ file' = [file EXCEPT ![movie[p]] = dst[p]]
               /\ UNCHANGED <<available, home, log>>,
            "setImported", "setImported")
SetImportedUnchecked(p) ==
  /\ at[p] = "setImported"
  /\ DbCall(p, /\ available' = available \cup {movie[p]}
               /\ home' = [home EXCEPT ![movie[p]] = dst[p].root]
               /\ UNCHANGED <<file, log>>,
            "history", "history")

UpsertMovieFile(p) ==
  /\ at[p] = "import"
  /\ pc[p] = "ok"
  /\ DbCall(p, /\ file' = [file EXCEPT ![movie[p]] = dst[p]]
               /\ UNCHANGED <<available, home, log>>,
            "setImported", "error")

SetMovieImported(p) ==
  /\ at[p] = "setImported"
  /\ DbCall(p, /\ available' = available \cup {movie[p]}
               /\ home' = [home EXCEPT ![movie[p]] = dst[p].root]
               /\ UNCHANGED <<file, log>>,
            "history", "error")

\* Mutant: a movie's history tells of its first import only.
CreateHistoryOnce(p) ==
  /\ at[p] = "history"
  /\ DbCall(p, /\ log' = IF \E h \in log : h.movie = movie[p] THEN log
                         ELSE log \cup {[movie |-> movie[p], from |-> src[p], to |-> dst[p]]}
               /\ UNCHANGED <<file, available, home>>,
            "created", "created")

\* The error of CreateHistory is dropped.
CreateHistory(p) ==
  /\ at[p] = "history"
  /\ DbCall(p, /\ log' = log \cup {[movie |-> movie[p], from |-> src[p], to |-> dst[p]]}
               /\ UNCHANGED <<file, available, home>>,
            "created", "created")

\* Mutant: the handler's slot keeps the movie of a finished request.
ReplyKeepsMovie(p) ==
  /\ at[p] \in {"created", "error"} \/ (at[p] = "import" /\ pc[p] = "failed")
  /\ Fs!Return(p)
  /\ Enter(p, "idle")
  /\ expired' = expired \ {p}
  /\ UNCHANGED <<movie, roots, tables, faults>>

\* 201, or 400 with the error of the import or of the database.
Reply(p) ==
  /\ at[p] \in {"created", "error"} \/ (at[p] = "import" /\ pc[p] = "failed")
  /\ Fs!Return(p)
  /\ Enter(p, "idle")
  /\ movie' = [movie EXCEPT ![p] = None]
  /\ expired' = expired \ {p}
  /\ UNCHANGED <<roots, tables, faults>>

\* Mutant: the deadline abandons a copy and leaves its files open.
ExpireAbandons(p) ==
  /\ at[p] \notin {"idle", "created", "error"}
  /\ p \notin expired
  /\ Disturbed
  /\ expired' = expired \cup {p}
  /\ Enter(p, "error")
  /\ pc' = [pc EXCEPT ![p] = "failed"]
  /\ UNCHANGED <<dir, partial, data, suspect, src, dst, in, out, off>>
  /\ UNCHANGED <<mishaps, movie, roots, tables>>

\* The deadline passes or the client leaves.
Expire(p) ==
  /\ at[p] \notin {"idle", "created", "error"}
  /\ p \notin expired
  /\ Disturbed
  /\ expired' = expired \cup {p}
  /\ UNCHANGED <<calls, mishaps, at, movie, roots, tables>>

Crash ==
  /\ Fs!Crash
  /\ at' = [p \in Proc |-> "idle"]
  /\ movie' = [p \in Proc |-> None]
  /\ expired' = {}
  /\ UNCHANGED <<roots, tables, faults>>

CreateRootFolder(r) ==
  /\ r \notin roots
  /\ roots' = roots \cup {r}
  /\ UNCHANGED <<calls, mishaps, at, movie, expired, tables, faults>>

DeleteRootFolder(r) ==
  /\ r \in roots
  /\ roots' = roots \ {r}
  /\ UNCHANGED <<calls, mishaps, at, movie, expired, tables, faults>>

Downloads == Fs!Downloads /\ UNCHANGED <<at, movie, expired, roots, tables, faults>>

HandlerStep(p) ==
  Import(p) \/ UpsertMovieFile(p) \/ SetMovieImported(p) \/ CreateHistory(p) \/ Reply(p)

Next ==
  \/ \E p \in Proc : \/ \E m \in Movie, paths \in RequestPath : Request(p, m, paths)
                     \/ HandlerStep(p)
                     \/ Expire(p)
  \/ Crash
  \/ \E r \in Root : CreateRootFolder(r) \/ DeleteRootFolder(r)
  \/ Downloads

Spec == Init /\ [][Next]_vars

\* Goroutines run; a client asks again while the movie has no file; downloads
\* finish.  Faults, crashes and deletions owe nothing.
Retry(m) == m \notin available /\ \E p \in Proc, paths \in RequestPath : Request(p, m, paths)
Finished == Downloads /\ \E s \in Download : dir[s] = None /\ dir'[s] # None
Fairness ==
  /\ \A p \in Proc : WF_vars(HandlerStep(p))
  /\ \A m \in Movie : WF_vars(Retry(m))
  /\ WF_vars(Finished)
LiveSpec == Spec /\ Fairness

-----------------------------------------------------------------------------
Idle == \A p \in Proc : at[p] = "idle"

(* A client that is told 201 can rely on the record: the movie has its     *)
(* movie_file row and has_file (import.go:95-110), whatever other handlers *)
(* did since.                                                              *)
AckedIsRecorded ==
  \A p \in Proc : at[p] = "created" => movie[p] \in available /\ file[movie[p]] # None

(* For a movie added with a root folder, movie.path and movie_file.path    *)
(* never name different root folders, although two handlers write them in  *)
(* separate calls and the root_folder table changes meanwhile              *)
(* (import.go:82, 95-102, 113-116).                                        *)
PinnedPathsAgree ==
  \A m \in available : PinnedRoot[m] # None => home[m] = PinnedRoot[m] /\ file[m].root = home[m]

(* The label of a library file, which the pipeline puts in its name and    *)
(* records as its quality, is that of the download whose bytes it holds,   *)
(* unless copies overlapped (import.go:73-97): label, path and bytes come  *)
(* from different steps of two handlers, while downloads are deleted and   *)
(* come again, calls fail and the program is killed.  Where requests name  *)
(* library files it needs LabelsReadBack.                                  *)
FilesLabelled ==
  \A d \in Dest : dir[d] # None /\ dir[d] \notin suspect =>
    \E s \in Download : LabelOf[s] = d.label /\ data[dir[d]] = Fs!Whole(s)

\* The name that FileName made is parsed to the label it was made of.  Not so
\* for a .ts file (parser.go:33) or a title with a word of quality.
LabelsReadBack == \A d \in Dest : LabelOf[d] = d.label

(* While files meet no fault and the program no crash, a recorded file     *)
(* exists whenever no import runs: the Remove of Import is made good by    *)
(* some call, even when calls for one dest make each other fail and the    *)
(* database does.  "An existing dest is replaced (idempotent re-import)"   *)
(* (importer.go:101-102).  It needs DownloadsOnly: an import of the        *)
(* recorded file itself removes its source.                                *)
RecordedPresent ==
  mishaps = 0 /\ Idle => \A m \in Movie : file[m] # None => dir[file[m]] # None

DownloadsOnly == \A paths \in RequestPath : paths \subseteq Download

(* Without any fault, the history accounts for what the library holds:     *)
(* some row names the download whose bytes a recorded file has, unless     *)
(* copies overlapped (import.go:89-109).  It needs DownloadsOnly and       *)
(* NoneSlow: a copy that outlasts the deadline of its request replaces the *)
(* file and is never told of (server.go:40).                               *)
HistoryExplains ==
  mishaps = 0 /\ faults = 0 /\ Idle =>
    \A m \in Movie : file[m] # None /\ dir[file[m]] # None /\ dir[file[m]] \notin suspect =>
      \E h \in log : h.to = file[m] /\ data[dir[file[m]]] = Fs!Whole(h.from)

(* The handlers keep the promises of MovieLibrary.                         *)
KeepsLibrary == Library!Spec

(* The handlers use Import as Importer says: no other code touches files.  *)
UsesImporter == Fs!Spec

(* A request is answered after a bounded number of system and database     *)
(* calls: no call goes back or over again, although others to the same     *)
(* destination take away the files it stands on (importer.go:103-142,      *)
(* import.go:64-111).                                                      *)
CallsLeft(p) ==
  CASE at[p] = "import" -> 4 + Fs!StepsLeft(p)
    [] at[p] = "setImported" -> 3
    [] at[p] = "history" -> 2
    [] at[p] \in {"created", "error"} -> 1
    [] at[p] = "idle" -> 0
WorkBounded ==
  [][\A p \in Proc : at[p] # "idle" =>
       \/ CallsLeft(p)' < CallsLeft(p)
       \/ UNCHANGED <<at[p], pc[p], off[p], in[p], out[p]>>]_vars

(* "writes a movie_file (upsert) + a history row, and flips                *)
(* movie.has_file" (JOURNEY.md:238-239): a client that keeps asking gets   *)
(* its movie, once faults have stopped.                                    *)
EventuallyImported == \A m \in Movie : <>(m \in available)

-----------------------------------------------------------------------------
(* Inductive strengthening: the order of the three writes, and the root    *)
(* folder every trace of a pinned movie names.                             *)
WrittenInOrder ==
  /\ \A m \in available : file[m] # None
  /\ \A p \in Proc :
       /\ at[p] = "setImported" => file[movie[p]] # None
       /\ at[p] \in {"history", "created"} => movie[p] \in available

RootsPinned ==
  \A m \in Movie : PinnedRoot[m] # None =>
    /\ \A p \in Proc : movie[p] = m => dst[p].root = PinnedRoot[m]
    /\ file[m] # None => file[m].root = PinnedRoot[m]
    /\ m \in available => home[m] = PinnedRoot[m]

\* Library paths that name a file or that a call is about to fill again.
Filled == {d \in Dest :
  \/ dir[d] # None
  \/ \E p \in Proc : /\ dst[p] = d
                     /\ \/ pc[p] \in {"link", "open", "create"}
                        \/ pc[p] \in {"copy", "rename"} /\ partial[d] # None}
Refilled ==
  mishaps = 0 =>
    /\ \A p \in Proc : at[p] # "idle" => src[p] \in Download /\ dir[src[p]] # None
    /\ \A m \in Movie : file[m] # None => file[m] \in Filled
    /\ \A p \in Proc : pc[p] = "ok" => dst[p] \in Filled

\* What an inode that nobody tore holds is a download with this label.
Labelled(i, label) ==
  i \notin suspect => \E s \in Download : LabelOf[s] = label /\ data[i] = Fs!Whole(s)
LabelsTraced ==
  /\ FilesLabelled
  /\ \A p \in Proc : /\ at[p] # "idle" => dst[p].label = LabelOf[src[p]]
                     /\ in[p] # None => Labelled(in[p], dst[p].label)

\* A call that has placed its file and has yet to tell the history.
Telling(p) == pc[p] = "ok" /\ at[p] \in {"import", "setImported", "history"}

\* What the file under d holds is told by the history, or about to be.
Traced(d) ==
  \/ \E h \in log : h.to = d /\ data[dir[d]] = Fs!Whole(h.from)
  \/ \E p \in Proc : Telling(p) /\ dst[p] = d /\ data[dir[d]] = Fs!Whole(src[p])
FilesTraced ==
  mishaps = 0 /\ faults = 0 =>
    /\ expired = {}
    /\ \A p \in Proc : /\ at[p] # "error"
                       /\ at[p] \in {"setImported", "history"} => pc[p] = "ok"
                       /\ at[p] # "idle" => src[p] \in Download
    /\ \A d \in Dest : dir[d] # None /\ dir[d] \notin suspect => Traced(d)

\* No copy outlasts the deadline of its request.
NoneSlow == Slow \cap Download = {}

PipelineInv == TypeOK /\ WrittenInOrder /\ RootsPinned
=============================================================================
