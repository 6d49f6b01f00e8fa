------------------------ MODULE ImportPipeline_proof ------------------------
(***************************************************************************)
(* Proofs about ImportPipeline: it implements Importer and MovieLibrary    *)
(* for any number of handlers, movies, root folders, files and faults.     *)
(***************************************************************************)
EXTENDS ImportPipeline, TLAPS

FsProof == INSTANCE Importer_proof

(* FsProof extends the module that Fs instantiates: both say the same.     *)
LEMMA SameImporter ==
  /\ FsProof!ConstantsAssumption
  /\ FsProof!vars = Fs!vars
  /\ FsProof!TypeOK <=> Fs!TypeOK
  /\ FsProof!Init <=> Fs!Init
  /\ FsProof!Next <=> Fs!Next
<1> USE DEF Fs!Path, FsProof!Path, Fs!Blank, FsProof!Blank, Fs!Whole, FsProof!Whole,
    Fs!files, FsProof!files, Fs!fds, FsProof!fds, Fs!vars, FsProof!vars
<1>1. FsProof!ConstantsAssumption
  BY PipelineAssumption DEF PipelineAssumption, Fs!ConstantsAssumption, FsProof!ConstantsAssumption
<1>2. FsProof!vars = Fs!vars
  OBVIOUS
<1>3. FsProof!TypeOK <=> Fs!TypeOK
  BY DEF Fs!TypeOK, FsProof!TypeOK, Fs!Content, FsProof!Content, Fs!Step, FsProof!Step
<1>4. FsProof!Init <=> Fs!Init
  BY DEF Fs!Init, FsProof!Init
<1>5. FsProof!Next <=> Fs!Next
  BY DEF Fs!Next, FsProof!Next, Fs!ImportStep, FsProof!ImportStep,
     Fs!Begin, FsProof!Begin, Fs!Prepare, FsProof!Prepare, Fs!Remove, FsProof!Remove,
     Fs!Link, FsProof!Link, Fs!Open, FsProof!Open, Fs!Create, FsProof!Create,
     Fs!CopyChunk, FsProof!CopyChunk, Fs!Close, FsProof!Close, Fs!Rename, FsProof!Rename,
     Fs!Return, FsProof!Return, Fs!Fault, FsProof!Fault, Fs!Crash, FsProof!Crash,
     Fs!Downloads, FsProof!Downloads, Fs!Arrive, FsProof!Arrive, Fs!Vanish, FsProof!Vanish,
     Fs!Goto, FsProof!Goto, Fs!Fail, FsProof!Fail, Fs!Finish, FsProof!Finish,
     Fs!Store, FsProof!Store, Fs!InUse, FsProof!InUse, Fs!Free, FsProof!Free,
     Fs!Fresh, FsProof!Fresh, Fs!CreateTarget, FsProof!CreateTarget,
     Fs!Overlaps, FsProof!Overlaps, Fs!Writing, FsProof!Writing,
     Fs!Active, FsProof!Active, Fs!Mishap, FsProof!Mishap
<1> QED
  BY <1>1, <1>2, <1>3, <1>4, <1>5

(* The type lemma of Importer, for the instance the pipeline uses.          *)
LEMMA FsTypeNext == Fs!TypeOK /\ (Fs!Next \/ UNCHANGED Fs!vars) => Fs!TypeOK'
<1>1. FsProof!TypeOK /\ [FsProof!Next]_FsProof!vars => FsProof!TypeOK'
  BY SameImporter, FsProof!TypeNext
<1>2. FsProof!TypeOK' <=> Fs!TypeOK'
  BY DEF Fs!TypeOK, FsProof!TypeOK, Fs!Content, FsProof!Content, Fs!Step, FsProof!Step,
         Fs!Path, FsProof!Path
<1> QED
  BY <1>1, <1>2, SameImporter DEF Fs!vars, FsProof!vars

-----------------------------------------------------------------------------
(* Every step of the pipeline is a step of Importer or leaves files and    *)
(* calls alone.                                                            *)
LEMMA StepOfImporter == TypeOK /\ [Next]_vars => Fs!Next \/ UNCHANGED Fs!vars
<1> SUFFICES ASSUME TypeOK, [Next]_vars
             PROVE  Fs!Next \/ UNCHANGED Fs!vars
  OBVIOUS
<1>1. ASSUME NEW p \in Proc, NEW m \in Movie, NEW paths \in RequestPath, Request(p, m, paths)
      PROVE  Fs!Next
  <2>1. PICK s \in ScanVideoFiles(paths), root \in RootFolderFor(m) :
             Fs!Begin(p, s, DestPath(root, m, s))
    BY <1>1 DEF Request
  <2>2. s \in Fs!Path /\ root \in Root
    BY PipelineAssumption DEF ScanVideoFiles, RootFolderFor, TypeOK
  <2>3. DestPath(root, m, s) \in Dest
    BY <2>2, PipelineAssumption
  <2> QED
    BY <2>1, <2>2, <2>3 DEF Fs!Next
<1>2. ASSUME NEW p \in Proc, Import(p)
      PROVE  Fs!Next
  BY <1>2 DEF Import, Fs!Next
<1>3. ASSUME NEW p \in Proc, UpsertMovieFile(p) \/ SetMovieImported(p) \/ CreateHistory(p)
      PROVE  UNCHANGED Fs!vars
  BY <1>3 DEF UpsertMovieFile, SetMovieImported, CreateHistory, DbCall, calls, Fs!vars
<1>4. ASSUME NEW p \in Proc, Reply(p)
      PROVE  Fs!Next
  BY <1>4 DEF Reply, Fs!Next
<1>5. ASSUME NEW p \in Proc, Expire(p)
      PROVE  UNCHANGED Fs!vars
  BY <1>5 DEF Expire, calls, Fs!vars
<1>6. CASE Crash
  BY <1>6 DEF Crash, Fs!Next
<1>7. ASSUME NEW r \in Root, CreateRootFolder(r) \/ DeleteRootFolder(r)
      PROVE  UNCHANGED Fs!vars
  BY <1>7 DEF CreateRootFolder, DeleteRootFolder, calls, Fs!vars
<1>8. CASE Downloads
  BY <1>8 DEF Downloads, Fs!Next
<1>9. CASE UNCHANGED vars
  BY <1>9 DEF vars, calls, Fs!vars
<1> QED
  BY <1>1, <1>2, <1>3, <1>4, <1>5, <1>6, <1>7, <1>8, <1>9 DEF Next, HandlerStep

(* The inductive invariant holds when the program starts with an empty      *)
(* library.                                                                 *)
LEMMA PipelineInvInit == Init => PipelineInv
<1> SUFFICES ASSUME Init
             PROVE  PipelineInv
  OBVIOUS
<1>1. Fs!TypeOK
  BY SameImporter, FsProof!TypeInit DEF Init
<1>2. TypeOK
  BY <1>1, PipelineAssumption DEF Init, TypeOK, Fs!Init, Library!Init
<1>3. WrittenInOrder /\ RootsPinned
  BY PipelineAssumption DEF Init, WrittenInOrder, RootsPinned, Library!Init
<1> QED
  BY <1>2, <1>3 DEF PipelineInv

(* Every step of a handler, of its surroundings and of the root folder      *)
(* endpoints preserves the inductive invariant.                             *)
LEMMA PipelineInvNext == PipelineInv /\ [Next]_vars => PipelineInv'
<1> SUFFICES ASSUME PipelineInv, [Next]_vars
             PROVE  PipelineInv'
  OBVIOUS
<1>0. TypeOK /\ WrittenInOrder /\ RootsPinned /\ Fs!TypeOK /\ Fs!TypeOK'
  BY StepOfImporter, FsTypeNext DEF PipelineInv, TypeOK
<1>a. /\ pc \in [Proc -> Fs!Step] /\ pc' \in [Proc -> Fs!Step]
      /\ src \in [Proc -> Fs!Path \cup {None}] /\ dst \in [Proc -> Dest \cup {None}]
      /\ \A p \in Proc : pc[p] # "idle" => src[p] \in Fs!Path /\ dst[p] \in Dest
  BY <1>0 DEF Fs!TypeOK
<1> USE PipelineAssumption
<1>1. ASSUME NEW p \in Proc, NEW m \in Movie, NEW paths \in RequestPath, Request(p, m, paths)
      PROVE  PipelineInv'
  <2>1. PICK s \in ScanVideoFiles(paths), root \in RootFolderFor(m) :
             Fs!Begin(p, s, DestPath(root, m, s))
    BY <1>1 DEF Request
  <2>2. /\ pc' = [pc EXCEPT ![p] = "prepare"]
        /\ dst' = [dst EXCEPT ![p] = DestPath(root, m, s)]
    BY <2>1 DEF Fs!Begin, Fs!Goto
  <2>3. PinnedRoot[m] # None => DestPath(root, m, s).root = PinnedRoot[m]
    BY DEF RootFolderFor, DestPath
  <2>4. TypeOK'
    BY <1>0, <1>1, <1>a, <2>2 DEF TypeOK, Request, Enter, tables
  <2>5. WrittenInOrder'
    BY <1>0, <1>1 DEF TypeOK, WrittenInOrder, Request, Enter, tables
  <2>6. RootsPinned'
    BY <1>0, <1>1, <1>a, <2>2, <2>3 DEF TypeOK, RootsPinned, Request, tables
  <2> QED
    BY <2>4, <2>5, <2>6 DEF PipelineInv
<1>2. ASSUME NEW p \in Proc, Import(p)
      PROVE  PipelineInv'
  <2>1. pc[p] # "idle" /\ dst' = dst /\ \A q \in Proc : pc'[q] = "idle" <=> pc[q] = "idle"
    BY <1>0, <1>2, <1>a DEF Import, TypeOK, Fs!ImportStep, Fs!Prepare, Fs!Remove, Fs!Link, Fs!Open, Fs!Create,
           Fs!CopyChunk, Fs!Close, Fs!Rename, Fs!Fault, Fs!Active, Fs!Fail, Fs!Finish, Fs!Goto, Fs!Step
  <2> QED
    BY <1>0, <1>2, <2>1 DEF PipelineInv, TypeOK, WrittenInOrder, RootsPinned, Import, tables
<1>3. ASSUME NEW p \in Proc, UpsertMovieFile(p)
      PROVE  PipelineInv'
  <2>0. movie[p] \in Movie /\ dst[p] \in Dest /\ src[p] \in Fs!Path
    BY <1>0, <1>3, <1>a DEF TypeOK, UpsertMovieFile
  <2>a. file' \in [Movie -> Dest \cup {None}] /\ UNCHANGED <<available, home, log>>
    BY <1>0, <1>3, <2>0 DEF TypeOK, UpsertMovieFile, DbCall, tables
  <2>b. at' = [at EXCEPT ![p] = "setImported"] \/ at' = [at EXCEPT ![p] = "error"]
    BY <1>3 DEF UpsertMovieFile, DbCall, Enter
  <2>c. faults' \in 0..MaxFaults /\ UNCHANGED <<pc, movie, expired, roots>>
    BY <1>0, <1>3 DEF TypeOK, UpsertMovieFile, DbCall, Disturbed, calls
  <2>d. at[p] # "idle"
    BY <1>3 DEF UpsertMovieFile
  <2>1. TypeOK'
    BY <1>0, <2>a, <2>b, <2>c, <2>d DEF TypeOK
  <2>2. WrittenInOrder'
    BY <1>0, <1>3, <1>a DEF TypeOK, WrittenInOrder, UpsertMovieFile, DbCall, Disturbed, Enter, calls, tables
  <2>3. RootsPinned'
    BY <1>0, <1>3, <1>a DEF TypeOK, RootsPinned, UpsertMovieFile, DbCall, Disturbed, Enter, calls, tables
  <2> QED
    BY <2>1, <2>2, <2>3 DEF PipelineInv
<1>4. ASSUME NEW p \in Proc, SetMovieImported(p)
      PROVE  PipelineInv'
  <2>0. movie[p] \in Movie /\ dst[p] \in Dest /\ src[p] \in Fs!Path
    BY <1>0, <1>4, <1>a DEF TypeOK, SetMovieImported
  <2>a. available' \subseteq Movie /\ home' \in [Movie -> Root \cup {None}] /\ UNCHANGED <<file, log>>
    BY <1>0, <1>4, <2>0 DEF TypeOK, SetMovieImported, DbCall, tables
  <2>b. at' = [at EXCEPT ![p] = "history"] \/ at' = [at EXCEPT ![p] = "error"]
    BY <1>4 DEF SetMovieImported, DbCall, Enter
  <2>c. faults' \in 0..MaxFaults /\ UNCHANGED <<pc, movie, expired, roots>>
    BY <1>0, <1>4 DEF TypeOK, SetMovieImported, DbCall, Disturbed, calls
  <2>d. at[p] # "idle"
    BY <1>4 DEF SetMovieImported
  <2>1. TypeOK'
    BY <1>0, <2>a, <2>b, <2>c, <2>d DEF TypeOK
  <2>2. WrittenInOrder'
    BY <1>0, <1>4, <1>a DEF TypeOK, WrittenInOrder, SetMovieImported, DbCall, Disturbed, Enter, calls, tables
  <2>3. RootsPinned'
    BY <1>0, <1>4, <1>a DEF TypeOK, RootsPinned, SetMovieImported, DbCall, Disturbed, Enter, calls, tables
  <2> QED
    BY <2>1, <2>2, <2>3 DEF PipelineInv
<1>5. ASSUME NEW p \in Proc, CreateHistory(p)
      PROVE  PipelineInv'
  <2>0. movie[p] \in Movie /\ dst[p] \in Dest /\ src[p] \in Fs!Path
    BY <1>0, <1>5, <1>a DEF TypeOK, CreateHistory
  <2>a. log' \subseteq [movie : Movie, from : Fs!Path, to : Dest] /\ UNCHANGED <<file, available, home>>
    BY <1>0, <1>5, <2>0 DEF TypeOK, CreateHistory, DbCall, tables
  <2>b. at' = [at EXCEPT ![p] = "created"]
    BY <1>5 DEF CreateHistory, DbCall, Enter
  <2>c. faults' \in 0..MaxFaults /\ UNCHANGED <<pc, movie, expired, roots>>
    BY <1>0, <1>5 DEF TypeOK, CreateHistory, DbCall, Disturbed, calls
  <2>d. at[p] # "idle"
    BY <1>5 DEF CreateHistory
  <2>1. TypeOK'
    BY <1>0, <2>a, <2>b, <2>c, <2>d DEF TypeOK
  <2>2. WrittenInOrder'
    BY <1>0, <1>5, <1>a DEF TypeOK, WrittenInOrder, CreateHistory, DbCall, Disturbed, Enter, calls, tables
  <2>3. RootsPinned'
    BY <1>0, <1>5, <1>a DEF TypeOK, RootsPinned, CreateHistory, DbCall, Disturbed, Enter, calls, tables
  <2> QED
    BY <2>1, <2>2, <2>3 DEF PipelineInv
<1>6. ASSUME NEW p \in Proc, Reply(p)
      PROVE  PipelineInv'
  <2>1. TypeOK'
    BY <1>0, <1>6, <1>a DEF TypeOK, Reply, Fs!Return, Fs!Goto, Enter, tables
  <2>2. WrittenInOrder'
    BY <1>0, <1>6, <1>a DEF TypeOK, WrittenInOrder, Reply, Fs!Return, Fs!Goto, Enter, tables
  <2>3. RootsPinned'
    BY <1>0, <1>6, <1>a DEF TypeOK, RootsPinned, Reply, Fs!Return, Fs!Goto, Enter, tables
  <2> QED
    BY <2>1, <2>2, <2>3 DEF PipelineInv
<1>7. ASSUME NEW p \in Proc, Expire(p)
      PROVE  PipelineInv'
  <2>1. TypeOK'
    BY <1>0, <1>7, <1>a DEF TypeOK, Expire, Disturbed, calls, tables
  <2>2. WrittenInOrder'
    BY <1>0, <1>7, <1>a DEF TypeOK, WrittenInOrder, Expire, Disturbed, calls, tables
  <2>3. RootsPinned'
    BY <1>0, <1>7, <1>a DEF TypeOK, RootsPinned, Expire, Disturbed, calls, tables
  <2> QED
    BY <2>1, <2>2, <2>3 DEF PipelineInv
<1>8. CASE Crash
  <2>1. TypeOK'
    BY <1>0, <1>8 DEF TypeOK, Crash, Fs!Crash, tables
  <2>2. WrittenInOrder'
    BY <1>0, <1>8 DEF TypeOK, WrittenInOrder, Crash, tables
  <2>3. RootsPinned'
    BY <1>0, <1>8 DEF TypeOK, RootsPinned, Crash, tables
  <2> QED
    BY <2>1, <2>2, <2>3 DEF PipelineInv
<1>9. ASSUME NEW r \in Root, CreateRootFolder(r) \/ DeleteRootFolder(r)
      PROVE  PipelineInv'
  <2>1. UNCHANGED <<pc, dst, at, movie, expired, file, available, home, log, faults>>
    BY <1>9 DEF CreateRootFolder, DeleteRootFolder, calls, tables
  <2>2. roots' \subseteq Root
    BY <1>0, <1>9 DEF TypeOK, CreateRootFolder, DeleteRootFolder
  <2> QED
    BY <1>0, <2>1, <2>2 DEF PipelineInv, TypeOK, WrittenInOrder, RootsPinned
<1>10. CASE Downloads
  <2>1. UNCHANGED <<pc, dst>>
    BY <1>10 DEF Downloads, Fs!Downloads, Fs!Arrive, Fs!Vanish
  <2>2. UNCHANGED <<at, movie, expired, roots, file, available, home, log, faults>>
    BY <1>10 DEF Downloads, tables
  <2> QED
    BY <1>0, <2>1, <2>2 DEF PipelineInv, TypeOK, WrittenInOrder, RootsPinned
<1>11. CASE UNCHANGED vars
  <2>1. UNCHANGED <<pc, dst, at, movie, expired, roots, file, available, home, log, faults>>
    BY <1>11 DEF vars, calls, tables
  <2> QED
    BY <1>0, <2>1 DEF PipelineInv, TypeOK, WrittenInOrder, RootsPinned
<1> QED
  BY <1>1, <1>2, <1>3, <1>4, <1>5, <1>6, <1>7, <1>8, <1>9, <1>10, <1>11 DEF Next, HandlerStep

(* The invariant the results below rest on.                                *)
THEOREM PipelineInductive == Spec => []PipelineInv
<1> QED
  BY PipelineInvInit, PipelineInvNext, PTL DEF Spec

(* Type correctness of the composed pipeline, with the handler's place in  *)
(* step with the place of its Import.                                      *)
THEOREM PipelineTypes == Spec => []TypeOK
<1>1. PipelineInv => TypeOK
  BY DEF PipelineInv
<1> QED
  BY <1>1, PipelineInductive, PTL

(* A client told 201 finds the movie's file recorded and has_file set, for *)
(* any number of handlers and faults.                                      *)
THEOREM AckIsDurable == Spec => []AckedIsRecorded
<1>1. PipelineInv => AckedIsRecorded
  BY DEF PipelineInv, WrittenInOrder, AckedIsRecorded
<1> QED
  BY <1>1, PipelineInductive, PTL

(* The rows of a movie pinned to a root folder agree on it.                *)
THEOREM PinnedRowsAgree == Spec => []PinnedPathsAgree
<1>1. PipelineInv => PinnedPathsAgree
  BY DEF PipelineInv, TypeOK, WrittenInOrder, RootsPinned, PinnedPathsAgree
<1> QED
  BY <1>1, PipelineInductive, PTL

(* The pipeline touches files only as Importer allows.                     *)
THEOREM ImplementsImporter == Spec => UsesImporter
<1>1. Init => Fs!Init
  BY DEF Init
<1>2. PipelineInv /\ [Next]_vars => [Fs!Next]_Fs!vars
  BY StepOfImporter DEF PipelineInv
<1> QED
  BY <1>1, <1>2, PipelineInductive, PTL DEF Spec, UsesImporter, Fs!Spec

(* The database keeps the promises of MovieLibrary.                        *)
THEOREM ImplementsLibrary == Spec => KeepsLibrary
<1>1. Init => Library!Init
  BY DEF Init
<1>2. PipelineInv /\ [Next]_vars => [Library!Next]_<<file, available, log>>
  <2> SUFFICES ASSUME PipelineInv, [Next]_vars
               PROVE  Library!Next \/ UNCHANGED <<file, available, log>>
    OBVIOUS
  <2>0. \A p \in Proc : at[p] # "idle" => movie[p] \in Movie /\ dst[p] \in Dest /\ src[p] \in Fs!Path
    BY DEF PipelineInv, TypeOK, Fs!TypeOK
  <2>1. ASSUME NEW p \in Proc, UpsertMovieFile(p)
        PROVE  Library!Next \/ UNCHANGED <<file, available, log>>
    <3>1. Library!Record(movie[p], dst[p]) \/ UNCHANGED <<file, available, log>>
      BY <2>1 DEF UpsertMovieFile, DbCall, tables, Library!Record
    <3> QED
      BY <2>0, <2>1, <3>1 DEF UpsertMovieFile, Library!Next
  <2>2. ASSUME NEW p \in Proc, SetMovieImported(p)
        PROVE  Library!Next \/ UNCHANGED <<file, available, log>>
    <3>1. Library!MakeAvailable(movie[p]) \/ UNCHANGED <<file, available, log>>
      BY <2>2 DEF PipelineInv, WrittenInOrder, SetMovieImported, DbCall, tables, Library!MakeAvailable
    <3> QED
      BY <2>0, <2>2, <3>1 DEF SetMovieImported, Library!Next
  <2>3. ASSUME NEW p \in Proc, CreateHistory(p)
        PROVE  Library!Next \/ UNCHANGED <<file, available, log>>
    <3>1. Library!Report(movie[p], src[p], dst[p]) \/ UNCHANGED <<file, available, log>>
      BY <2>3 DEF PipelineInv, WrittenInOrder, CreateHistory, DbCall, tables, Library!Report
    <3> QED
      BY <2>0, <2>3, <3>1 DEF CreateHistory, Library!Next
  <2>4. ASSUME UNCHANGED tables
        PROVE  UNCHANGED <<file, available, log>>
    BY <2>4 DEF tables
  <2> QED
    BY <2>1, <2>2, <2>3, <2>4 DEF Next, HandlerStep, Request, Import, Reply, Expire, Crash,
       CreateRootFolder, DeleteRootFolder, Downloads, vars
<1> QED
  BY <1>1, <1>2, PipelineInductive, PTL DEF Spec, KeepsLibrary, Library!Spec

(* What Importer guarantees of files therefore holds in the pipeline:      *)
(* downloads keep their bytes, and only overlapping copies tear a library  *)
(* file.                                                                   *)
THEOREM FilesStaySound == Spec => [](Fs!DownloadsIntact /\ Fs!TornOnlyByOverlap)
<1>1. Spec => Fs!Spec
  BY ImplementsImporter DEF UsesImporter
<1>2. Fs!Init => FsProof!Init
  BY SameImporter
<1>3. [Fs!Next]_Fs!vars => [FsProof!Next]_FsProof!vars
  BY SameImporter DEF Fs!vars, FsProof!vars
<1>4. FsProof!Spec => []FsProof!DownloadsIntact
  BY SameImporter, FsProof!DownloadsStayIntact
<1>5. FsProof!Spec => []FsProof!TornOnlyByOverlap
  BY SameImporter, FsProof!OnlyOverlapTears
<1>6. FsProof!DownloadsIntact /\ FsProof!TornOnlyByOverlap =>
        Fs!DownloadsIntact /\ Fs!TornOnlyByOverlap
  BY DEF Fs!DownloadsIntact, FsProof!DownloadsIntact, Fs!TornOnlyByOverlap,
     FsProof!TornOnlyByOverlap, Fs!Whole, FsProof!Whole, Fs!IsWhole, FsProof!IsWhole
<1> QED
  BY <1>1, <1>2, <1>3, <1>4, <1>5, <1>6, PTL DEF Fs!Spec, FsProof!Spec

-----------------------------------------------------------------------------
(* Mishaps are counted and never forgotten.                                *)
LEMMA MishapsStay ==
  ASSUME TypeOK, [Next]_vars, mishaps' = 0
  PROVE  mishaps = 0
<1>1. mishaps \in Nat
  BY PipelineAssumption DEF TypeOK, Fs!TypeOK, PipelineAssumption, Fs!ConstantsAssumption
<1>2. Fs!Next \/ UNCHANGED Fs!vars
  BY StepOfImporter
<1>3. mishaps' = mishaps \/ mishaps' = mishaps + 1
  BY <1>2 DEF Fs!Next, Fs!ImportStep, Fs!Begin, Fs!Prepare, Fs!Remove, Fs!Link, Fs!Open,
     Fs!Create, Fs!CopyChunk, Fs!Close, Fs!Rename, Fs!Return, Fs!Fault, Fs!Crash,
     Fs!Downloads, Fs!Arrive, Fs!Vanish, Fs!Mishap, Fs!vars
<1> QED
  BY <1>1, <1>3

(* A step of Import that meets no fault keeps a filled dest filled.        *)
LEMMA FilledStays ==
  ASSUME Fs!TypeOK, NEW p \in Proc, Fs!ImportStep(p),
         pc[p] \in {"link", "open"} => dir[src[p]] # None,
         NEW d \in Filled
  PROVE  d \in Filled'
<1> USE DEF Filled, Fs!TypeOK, Fs!Path
<1>1. CASE Fs!Prepare(p)
  BY <1>1 DEF Fs!Prepare, Fs!Goto, Fs!files
<1>2. CASE Fs!Remove(p)
  BY <1>2 DEF Fs!Remove, Fs!Fail, Fs!Finish, Fs!Goto
<1>3. CASE Fs!Link(p)
  BY <1>3 DEF Fs!Link, Fs!Fail, Fs!Finish, Fs!Goto, Fs!files
<1>4. CASE Fs!Open(p)
  BY <1>4 DEF Fs!Open, Fs!Goto, Fs!files
<1>5. CASE Fs!Create(p)
  <2>1. Fs!Free # {} => Fs!Fresh \in Fs!Free
    BY DEF Fs!Fresh
  <2>2. Fs!CreateTarget(p) # None
    BY <1>5, <2>1, SameImporter DEF Fs!Create, Fs!CreateTarget, Fs!Free, Fs!ConstantsAssumption
  <2>3. /\ pc' = [pc EXCEPT ![p] = "copy"]
        /\ partial' = [partial EXCEPT ![dst[p]] = Fs!CreateTarget(p)]
        /\ UNCHANGED <<dir, dst>>
        /\ dst[p] \in Dest
    BY <1>5 DEF Fs!Create, Fs!Goto
  <2> HIDE DEF Fs!Path
  <2> QED
    BY <2>2, <2>3
<1>6. CASE Fs!CopyChunk(p)
  BY <1>6 DEF Fs!CopyChunk
<1>7. CASE Fs!Close(p)
  BY <1>7 DEF Fs!Close, Fs!Goto
<1>8. CASE Fs!Rename(p)
  BY <1>8 DEF Fs!Rename, Fs!Fail, Fs!Finish, Fs!Goto
<1> QED
  BY <1>1, <1>2, <1>3, <1>4, <1>5, <1>6, <1>7, <1>8 DEF Fs!ImportStep

(* While downloads are all that is imported and no mishap happens, sources *)
(* stay and a dest that was filled is filled again.                        *)
LEMMA RefilledNext ==
  ASSUME DownloadsOnly, PipelineInv, Refilled, [Next]_vars
  PROVE  Refilled'
<1> SUFFICES ASSUME mishaps' = 0
             PROVE  /\ \A p \in Proc : at'[p] # "idle" => src'[p] \in Download /\ dir'[src'[p]] # None
                    /\ \A m \in Movie : file'[m] # None => file'[m] \in Filled'
                    /\ \A p \in Proc : pc'[p] = "ok" => dst'[p] \in Filled'
  BY DEF Refilled, Filled
<1>0. TypeOK /\ Fs!TypeOK
  BY DEF PipelineInv, TypeOK
<1>1. mishaps = 0
  BY <1>0, MishapsStay
<1>2. /\ \A p \in Proc : at[p] # "idle" => src[p] \in Download /\ dir[src[p]] # None
      /\ \A m \in Movie : file[m] # None => file[m] \in Filled
      /\ \A p \in Proc : pc[p] = "ok" => dst[p] \in Filled
  BY <1>1 DEF Refilled
<1>3. \A p \in Proc : at[p] # "idle" <=> pc[p] # "idle"
  BY <1>0 DEF TypeOK
<1>4. \A m \in Movie : file[m] # None => file[m] \in Dest
  BY <1>0 DEF TypeOK
<1>5. \A p \in Proc : pc[p] # "idle" => src[p] \in Fs!Path /\ dst[p] \in Dest
  BY <1>0 DEF Fs!TypeOK
<1>6. ASSUME NEW p \in Proc, NEW m \in Movie, NEW paths \in RequestPath, Request(p, m, paths)
      PROVE  /\ \A q \in Proc : at'[q] # "idle" => src'[q] \in Download /\ dir'[src'[q]] # None
             /\ \A n \in Movie : file'[n] # None => file'[n] \in Filled'
             /\ \A q \in Proc : pc'[q] = "ok" => dst'[q] \in Filled'
  <2>1. PICK s \in ScanVideoFiles(paths), root \in RootFolderFor(m) :
          Fs!Begin(p, s, DestPath(root, m, s))
    BY <1>6 DEF Request
  <2>2. s \in Download /\ dir[s] # None
    BY <2>1 DEF DownloadsOnly, ScanVideoFiles
  <2>3. /\ pc[p] = "idle"
        /\ pc' = [pc EXCEPT ![p] = "prepare"]
        /\ src' = [src EXCEPT ![p] = s]
        /\ \A q \in Proc : q # p => dst'[q] = dst[q]
        /\ at' = [at EXCEPT ![p] = "import"]
        /\ UNCHANGED <<dir, partial, file>>
    BY <1>0, <2>1, <1>6 DEF Fs!Begin, Fs!Goto, Fs!files, Request, Enter, tables, Fs!TypeOK
  <2>4. ASSUME NEW d \in Filled
        PROVE  d \in Filled'
    BY <1>0, <2>3, <2>4 DEF Filled, Fs!TypeOK
  <2> QED
    BY <1>0, <1>2, <2>2, <2>3, <2>4 DEF TypeOK, Fs!TypeOK
<1>7. ASSUME NEW p \in Proc, Import(p)
      PROVE  /\ \A q \in Proc : at'[q] # "idle" => src'[q] \in Download /\ dir'[src'[q]] # None
             /\ \A n \in Movie : file'[n] # None => file'[n] \in Filled'
             /\ \A q \in Proc : pc'[q] = "ok" => dst'[q] \in Filled'
  <2>1. ~Fs!Fault(p)
    BY <1>1 DEF Fs!Fault, Fs!Mishap
  <2>2. Fs!ImportStep(p) /\ at[p] = "import" /\ UNCHANGED <<at, movie, file>>
    BY <2>1, <1>7 DEF Import, tables
  <2>3. Filled \subseteq Filled'
    BY <1>0, <1>2, <2>2, FilledStays
  <2>4. /\ UNCHANGED <<src, dst>>
        /\ \A s \in Download : dir'[s] = dir[s]
        /\ \A q \in Proc : q # p => pc'[q] = pc[q]
    BY <1>0, <1>3, <1>5, <2>2, SameImporter
       DEF Fs!ConstantsAssumption, Fs!TypeOK, Fs!Path, Fs!ImportStep, Fs!Prepare, Fs!Remove, Fs!Link,
           Fs!Open, Fs!Create, Fs!CopyChunk, Fs!Close, Fs!Rename, Fs!Fail, Fs!Finish, Fs!Goto, Fs!files
  <2>5. pc'[p] = "ok" => dir'[dst[p]] # None
    BY <1>0, <1>3, <1>5, <2>2
       DEF Fs!TypeOK, Fs!Path, Fs!ImportStep, Fs!Prepare, Fs!Remove, Fs!Link,
           Fs!Open, Fs!Create, Fs!CopyChunk, Fs!Close, Fs!Rename, Fs!Fail, Fs!Finish, Fs!Goto, Fs!files
  <2>6. pc'[p] = "ok" => dst'[p] \in Filled'
    BY <1>3, <1>5, <2>2, <2>4, <2>5 DEF Filled
  <2> QED
    BY <1>2, <1>3, <1>4, <1>5, <2>2, <2>3, <2>4, <2>6
<1>8. ASSUME NEW p \in Proc, UpsertMovieFile(p) \/ SetMovieImported(p) \/ CreateHistory(p)
      PROVE  /\ \A q \in Proc : at'[q] # "idle" => src'[q] \in Download /\ dir'[src'[q]] # None
             /\ \A n \in Movie : file'[n] # None => file'[n] \in Filled'
             /\ \A q \in Proc : pc'[q] = "ok" => dst'[q] \in Filled'
  <2>1. UNCHANGED <<dir, partial, src, dst, pc>>
    BY <1>8 DEF UpsertMovieFile, SetMovieImported, CreateHistory, DbCall, calls
  <2>2. at[p] # "idle" /\ \A q \in Proc : q # p => at'[q] = at[q]
    BY <1>0, <1>8 DEF UpsertMovieFile, SetMovieImported, CreateHistory, DbCall, Enter, TypeOK
  <2>3. file' = file \/ (pc[p] = "ok" /\ file' = [file EXCEPT ![movie[p]] = dst[p]])
    BY <1>8 DEF UpsertMovieFile, SetMovieImported, CreateHistory, DbCall, tables
  <2>4. Filled' = Filled
    BY <2>1 DEF Filled
  <2>5. \A n \in Movie : file'[n] = file[n] \/ (pc[p] = "ok" /\ file'[n] = dst[p])
    BY <1>0, <2>3 DEF TypeOK
  <2> QED
    BY <1>2, <2>1, <2>2, <2>4, <2>5
<1>9. ASSUME NEW p \in Proc, Reply(p)
      PROVE  /\ \A q \in Proc : at'[q] # "idle" => src'[q] \in Download /\ dir'[src'[q]] # None
             /\ \A n \in Movie : file'[n] # None => file'[n] \in Filled'
             /\ \A q \in Proc : pc'[q] = "ok" => dst'[q] \in Filled'
  <2>1. /\ pc[p] \in {"ok", "failed"}
        /\ pc'[p] = "idle" /\ at'[p] = "idle"
        /\ \A q \in Proc : q # p => /\ pc'[q] = pc[q] /\ at'[q] = at[q]
                                    /\ src'[q] = src[q] /\ dst'[q] = dst[q]
        /\ UNCHANGED <<dir, partial, file>>
    BY <1>0, <1>9 DEF Reply, Enter, Fs!Return, Fs!Goto, Fs!files, tables, TypeOK, Fs!TypeOK
  <2>2. ASSUME NEW d \in Filled
        PROVE  d \in Filled'
    BY <2>1, <2>2 DEF Filled
  <2> QED
    BY <1>2, <2>1, <2>2
<1>10. CASE Downloads
  <2>1. PICK s \in Download : Fs!Arrive(s)
    BY <1>1, <1>10 DEF Downloads, Fs!Downloads, Fs!Vanish, Fs!Mishap
  <2>2. Fs!Fresh \in Fs!Free
    BY <2>1 DEF Fs!Arrive, Fs!Fresh
  <2>3. Fs!Fresh # None
    BY <2>2, SameImporter, PipelineAssumption DEF PipelineAssumption, Fs!Free, Fs!ConstantsAssumption
  <2>4. /\ \A x \in Fs!Path : dir[x] # None => dir'[x] # None
        /\ UNCHANGED <<partial, src, dst, pc, at, file>>
    BY <1>0, <1>10, <2>1, <2>3 DEF Fs!Arrive, Downloads, tables, Fs!TypeOK
  <2>5. Filled \subseteq Filled'
    BY <2>4 DEF Filled, Fs!Path
  <2> QED
    BY <1>2, <1>3, <1>4, <1>5, <2>4, <2>5 DEF Fs!Path
<1>11. CASE \/ \E p \in Proc : Expire(p)
            \/ \E r \in Root : CreateRootFolder(r) \/ DeleteRootFolder(r)
            \/ UNCHANGED vars
  <2>1. UNCHANGED <<dir, partial, src, dst, pc, at, file>>
    BY <1>11 DEF Expire, CreateRootFolder, DeleteRootFolder, vars, calls, tables
  <2> QED
    BY <1>2, <2>1 DEF Filled
<1>12. ~Crash
  BY <1>1 DEF Crash, Fs!Crash, Fs!Mishap
<1> QED
  BY <1>6, <1>7, <1>8, <1>9, <1>10, <1>11, <1>12 DEF Next, HandlerStep

(* While files meet no mishap and requests name downloads, a recorded path *)
(* names a file or some call is bound to fill it (importer.go:107-142).    *)
THEOREM RecordedPathsRefilled == ASSUME DownloadsOnly PROVE Spec => []Refilled
<1>1. Init => Refilled
  BY DEF Init, Fs!Init, Library!Init, Refilled
<1>2. PipelineInv /\ Refilled /\ [Next]_vars => Refilled'
  BY DownloadsOnly, RefilledNext
<1> QED
  BY <1>1, <1>2, PipelineInductive, PTL DEF Spec

(* As long as requests name downloads, no mishap happens and no import     *)
(* runs, every recorded file exists: the window between Remove and Rename  *)
(* always closes, whatever calls for one dest do to each other and whatever*)
(* the database answers.                                                   *)
THEOREM RecordedFilesExist == ASSUME DownloadsOnly PROVE Spec => []RecordedPresent
<1>1. PipelineInv /\ Refilled => RecordedPresent
  <2> SUFFICES ASSUME PipelineInv, Refilled, mishaps = 0, Idle, NEW m \in Movie, file[m] # None
               PROVE  dir[file[m]] # None
    BY DEF RecordedPresent
  <2>1. \A p \in Proc : pc[p] = "idle"
    BY DEF PipelineInv, TypeOK, Idle
  <2> QED
    BY <2>1 DEF Refilled, Filled
<1>2. Init => Refilled
  BY DEF Init, Fs!Init, Library!Init, Refilled
<1>3. PipelineInv /\ Refilled /\ [Next]_vars => Refilled'
  BY DownloadsOnly, RefilledNext
<1> QED
  BY <1>1, <1>2, <1>3, PipelineInductive, PTL DEF Spec

-----------------------------------------------------------------------------
(* The inductive invariant of Importer, for the instance of the pipeline.  *)
LEMMA FsInvInit == Init => FsProof!IInv
BY SameImporter, FsProof!IInvInit DEF Init

LEMMA FsInvNext == TypeOK /\ FsProof!IInv /\ [Next]_vars => FsProof!IInv'
<1>1. TypeOK /\ [Next]_vars => [FsProof!Next]_FsProof!vars
  BY StepOfImporter, SameImporter DEF Fs!vars, FsProof!vars
<1>2. FsProof!IInv /\ [FsProof!Next]_FsProof!vars => FsProof!IInv'
  BY SameImporter, FsProof!IInvNext
<1> QED
  BY <1>1, <1>2

(* Without a fault no request fails after it placed its file, so a call     *)
(* that has placed one stays on its way to the history until it is there.   *)
LEMMA TellingStays ==
  ASSUME DownloadsOnly, NoneSlow, TypeOK, FilesTraced, [Next]_vars, mishaps' = 0, faults' = 0
  PROVE  /\ mishaps = 0 /\ faults = 0
         /\ expired' = {}
         /\ \A p \in Proc : /\ at'[p] # "error"
                            /\ at'[p] \in {"setImported", "history"} => pc'[p] = "ok"
                            /\ at'[p] # "idle" => src'[p] \in Download
         /\ log \subseteq log'
         /\ \A p \in Proc : Telling(p) =>
              \/ Telling(p)' /\ dst'[p] = dst[p] /\ src'[p] = src[p]
              \/ \E h \in log' : h.from = src[p] /\ h.to = dst[p]
         /\ \A p \in Proc : pc[p] # "ok" /\ pc'[p] = "ok" =>
              Telling(p)' /\ src[p] \in Download /\ dst'[p] = dst[p] /\ src'[p] = src[p]
<1> USE PipelineAssumption
<1> DEFINE Quiet == expired' = {}
           Told(p) ==
             /\ at'[p] # "error"
             /\ at'[p] \in {"setImported", "history"} => pc'[p] = "ok"
             /\ at'[p] # "idle" => src'[p] \in Download
             /\ Telling(p) => \/ Telling(p)' /\ dst'[p] = dst[p] /\ src'[p] = src[p]
                             \/ \E h \in log' : h.from = src[p] /\ h.to = dst[p]
             /\ pc[p] # "ok" /\ pc'[p] = "ok" =>
                  Telling(p)' /\ src[p] \in Download /\ dst'[p] = dst[p] /\ src'[p] = src[p]
<1>1. mishaps = 0
  BY MishapsStay
<1>2. faults = 0
  <2>1. faults \in Nat
    BY DEF TypeOK, PipelineAssumption
  <2>2. faults' = faults \/ faults' = faults + 1
    BY DEF Next, HandlerStep, Request, Import, UpsertMovieFile, SetMovieImported, CreateHistory,
       DbCall, Disturbed, Reply, Expire, Crash, CreateRootFolder, DeleteRootFolder, Downloads,
       vars
  <2> QED
    BY <2>1, <2>2
<1>3. ~Disturbed
  BY <1>2 DEF Disturbed
<1>4. /\ expired = {}
      /\ \A p \in Proc : /\ at[p] # "error"
                         /\ at[p] \in {"setImported", "history"} => pc[p] = "ok"
                         /\ at[p] # "idle" => src[p] \in Download
  BY <1>1, <1>2 DEF FilesTraced
<1>5. /\ at \in [Proc -> {"idle", "import", "setImported", "history", "created", "error"}]
      /\ \A p \in Proc : at[p] # "idle" <=> pc[p] # "idle"
      /\ pc \in [Proc -> Fs!Step]
      /\ src \in [Proc -> Fs!Path \cup {None}] /\ dst \in [Proc -> Dest \cup {None}]
  BY DEF TypeOK, Fs!TypeOK
<1>6. ASSUME NEW p \in Proc, UNCHANGED <<at, pc, src, dst>>
      PROVE  Told(p)
  BY <1>4, <1>6 DEF Telling
<1>7. ASSUME NEW p \in Proc, NEW m \in Movie, NEW paths \in RequestPath, Request(p, m, paths)
      PROVE  Quiet /\ log \subseteq log' /\ \A q \in Proc : Told(q)
  <2>1. PICK s \in ScanVideoFiles(paths), root \in RootFolderFor(m) :
          Fs!Begin(p, s, DestPath(root, m, s))
    BY <1>7 DEF Request
  <2>2. s \in Download
    BY <2>1 DEF DownloadsOnly, ScanVideoFiles
  <2>3. /\ at[p] = "idle"
        /\ pc' = [pc EXCEPT ![p] = "prepare"]
        /\ src' = [src EXCEPT ![p] = s]
        /\ \A q \in Proc : q # p => dst'[q] = dst[q]
        /\ at' = [at EXCEPT ![p] = "import"]
        /\ UNCHANGED <<expired, log>>
    BY <1>5, <1>7, <2>1 DEF Fs!Begin, Fs!Goto, Request, Enter, tables
  <2> QED
    BY <1>4, <1>5, <2>2, <2>3 DEF Telling
<1>8. ASSUME NEW p \in Proc, Import(p)
      PROVE  Quiet /\ log \subseteq log' /\ \A q \in Proc : Told(q)
  <2>1. Fs!ImportStep(p)
    BY <1>1, <1>8 DEF Import, Fs!Fault, Fs!Mishap
  <2>2. at[p] = "import" /\ UNCHANGED <<at, log>>
    BY <1>8 DEF Import, tables
  <2>3. src[p] \notin Slow
    BY <1>4, <2>2 DEF NoneSlow
  <2>4. Quiet
    BY <1>4, <1>8, <2>3 DEF Import
  <2>5. /\ pc[p] # "ok"
        /\ UNCHANGED <<src, dst>>
        /\ \A q \in Proc : q # p => pc'[q] = pc[q]
    BY <1>5, <2>1 DEF Fs!ImportStep, Fs!Prepare, Fs!Remove, Fs!Link, Fs!Open, Fs!Create,
       Fs!CopyChunk, Fs!Close, Fs!Rename, Fs!Fail, Fs!Finish, Fs!Goto
  <2> QED
    BY <1>4, <2>2, <2>4, <2>5 DEF Telling
<1>9. ASSUME NEW p \in Proc, UpsertMovieFile(p) \/ SetMovieImported(p)
      PROVE  Quiet /\ log \subseteq log' /\ \A q \in Proc : Told(q)
  <2>1. /\ pc[p] = "ok" /\ at[p] \in {"import", "setImported"}
        /\ UNCHANGED <<pc, src, dst, expired, log>>
        /\ \/ at' = [at EXCEPT ![p] = "setImported"]
           \/ at' = [at EXCEPT ![p] = "history"]
    BY <1>3, <1>4, <1>9 DEF UpsertMovieFile, SetMovieImported, DbCall, Enter, calls, tables
  <2> QED
    BY <1>4, <1>5, <2>1 DEF Telling
<1>10. ASSUME NEW p \in Proc, CreateHistory(p)
       PROVE  Quiet /\ log \subseteq log' /\ \A q \in Proc : Told(q)
  <2>1. /\ at[p] = "history"
        /\ UNCHANGED <<pc, src, dst, expired>>
        /\ at' = [at EXCEPT ![p] = "created"]
        /\ log' = log \cup {[movie |-> movie[p], from |-> src[p], to |-> dst[p]]}
    BY <1>3, <1>4, <1>10 DEF CreateHistory, DbCall, Enter, calls
  <2>2. \E h \in log' : h.from = src[p] /\ h.to = dst[p]
    <3> DEFINE row == [movie |-> movie[p], from |-> src[p], to |-> dst[p]]
    <3>1. row \in log' /\ row.from = src[p] /\ row.to = dst[p]
      BY <2>1
    <3> HIDE DEF row
    <3> QED
      BY <3>1
  <2> QED
    BY <1>4, <1>5, <2>1, <2>2 DEF Telling
<1>11. ASSUME NEW p \in Proc, Reply(p)
       PROVE  Quiet /\ log \subseteq log' /\ \A q \in Proc : Told(q)
  <2>1. /\ ~Telling(p)
        /\ pc' = [pc EXCEPT ![p] = "idle"]
        /\ at' = [at EXCEPT ![p] = "idle"]
        /\ \A q \in Proc : q # p => src'[q] = src[q] /\ dst'[q] = dst[q]
        /\ UNCHANGED log /\ expired' = expired \ {p}
    BY <1>5, <1>11 DEF Reply, Enter, Fs!Return, Fs!Goto, tables, Telling
  <2> QED
    BY <1>4, <1>5, <2>1 DEF Telling
<1>12. ASSUME \/ \E r \in Root : CreateRootFolder(r) \/ DeleteRootFolder(r)
              \/ Downloads
              \/ UNCHANGED vars
       PROVE  Quiet /\ log \subseteq log' /\ \A q \in Proc : Told(q)
  <2>1. UNCHANGED <<at, pc, src, dst, log, expired>>
    BY <1>12 DEF CreateRootFolder, DeleteRootFolder, Downloads, Fs!Downloads, Fs!Arrive,
       Fs!Vanish, vars, calls, tables
  <2> QED
    BY <1>4, <1>6, <2>1
<1>13. ~Crash /\ \A p \in Proc : ~Expire(p)
  BY <1>1, <1>3 DEF Crash, Fs!Crash, Fs!Mishap, Expire
<1>14. Quiet /\ log \subseteq log' /\ \A q \in Proc : Told(q)
  BY <1>7, <1>8, <1>9, <1>10, <1>11, <1>12, <1>13 DEF Next, HandlerStep
<1> QED
  BY <1>1, <1>2, <1>14

(* What a recorded file holds stays traced: it keeps its bytes while it is  *)
(* there, and the call that replaces it will tell the history.              *)
LEMMA FilesTracedNext ==
  ASSUME DownloadsOnly, NoneSlow, TypeOK, FsProof!IInv, FsProof!IInv', FilesTraced, [Next]_vars
  PROVE  FilesTraced'
<1> SUFFICES ASSUME mishaps' = 0, faults' = 0
             PROVE  /\ expired' = {}
                    /\ \A p \in Proc : /\ at'[p] # "error"
                                       /\ at'[p] \in {"setImported", "history"} => pc'[p] = "ok"
                                       /\ at'[p] # "idle" => src'[p] \in Download
                    /\ \A d \in Dest : dir'[d] # None /\ dir'[d] \notin suspect' => Traced(d)'
  BY DEF FilesTraced, Traced, Telling
<1>1. mishaps = 0 /\ faults = 0
  BY TellingStays
<1>2. log \subseteq log'
  BY TellingStays
<1>3. ASSUME NEW p \in Proc, Telling(p)
      PROVE  \/ Telling(p)' /\ dst'[p] = dst[p] /\ src'[p] = src[p]
             \/ \E h \in log' : h.from = src[p] /\ h.to = dst[p]
  BY <1>3, TellingStays
<1>4. ASSUME NEW p \in Proc, pc[p] # "ok", pc'[p] = "ok"
      PROVE  Telling(p)' /\ src[p] \in Download /\ dst'[p] = dst[p] /\ src'[p] = src[p]
  BY <1>4, TellingStays
<1>5. [FsProof!Next]_FsProof!vars
  BY StepOfImporter, SameImporter DEF Fs!vars, FsProof!vars
<1>6. ASSUME NEW d \in Dest, dir'[d] # None, dir'[d] \notin suspect'
      PROVE  Traced(d)'
  <2>1. CASE dir'[d] = dir[d] /\ dir[d] \notin suspect /\ data'[dir[d]] = data[dir[d]]
    <3>1. Traced(d)
      BY <1>1, <1>6, <2>1 DEF FilesTraced
    <3>2. CASE \E h \in log : h.to = d /\ data[dir[d]] = Fs!Whole(h.from)
      BY <1>2, <2>1, <3>2 DEF Traced, Fs!Whole
    <3>3. ASSUME NEW p \in Proc, Telling(p), dst[p] = d, data[dir[d]] = Fs!Whole(src[p])
          PROVE  Traced(d)'
      BY <1>3, <2>1, <3>3 DEF Traced, Fs!Whole
    <3> QED
      BY <3>1, <3>2, <3>3 DEF Traced
  <2>2. ASSUME NEW p \in Proc, pc[p] # "ok", pc'[p] = "ok", dst[p] = d
        PROVE  Traced(d)'
    <3>1. FsProof!Placed(p)
      BY <1>5, <2>2, SameImporter, FsProof!PlacesSource
    <3>2. data'[dir'[d]] = Fs!Whole(src[p])
      BY <1>4, <1>6, <2>2, <3>1 DEF FsProof!Placed, FsProof!Whole, Fs!Whole
    <3> QED
      BY <1>4, <2>2, <3>2 DEF Traced, Fs!Whole
  <2> QED
    BY <1>5, <1>6, <2>1, <2>2, SameImporter, FsProof!KeptOrPlaced
<1> QED
  BY <1>6, TellingStays

(* When files and database meet no fault, no copy outlasts its deadline and *)
(* requests name downloads, the history tells what every recorded file      *)
(* holds once the handlers are done, unless copies overlapped: however many *)
(* imports of one movie replaced each other's file and row in any order.    *)
THEOREM HistoryTells == ASSUME DownloadsOnly, NoneSlow PROVE Spec => []HistoryExplains
<1>1. Init => FsProof!IInv /\ FilesTraced
  <2>1. Init => FsProof!IInv
    BY FsInvInit
  <2>2. Init => FilesTraced
    BY DEF Init, Fs!Init, FilesTraced, Fs!Path
  <2> QED
    BY <2>1, <2>2
<1>2. TypeOK /\ FsProof!IInv /\ [Next]_vars => FsProof!IInv'
  BY FsInvNext
<1>3. TypeOK /\ FsProof!IInv /\ FsProof!IInv' /\ FilesTraced /\ [Next]_vars => FilesTraced'
  BY DownloadsOnly, NoneSlow, FilesTracedNext
<1>4. TypeOK /\ FilesTraced => HistoryExplains
  <2> SUFFICES ASSUME TypeOK, FilesTraced, mishaps = 0, faults = 0, Idle,
                      NEW m \in Movie, file[m] # None, dir[file[m]] # None,
                      dir[file[m]] \notin suspect
               PROVE  \E h \in log : h.to = file[m] /\ data[dir[file[m]]] = Fs!Whole(h.from)
    BY DEF HistoryExplains
  <2>1. file[m] \in Dest
    BY DEF TypeOK
  <2>2. \A p \in Proc : ~Telling(p)
    BY DEF Idle, Telling
  <2> QED
    BY <2>1, <2>2 DEF FilesTraced, Traced
<1> QED
  BY <1>1, <1>2, <1>3, <1>4, PipelineTypes, PTL DEF Spec
-----------------------------------------------------------------------------
(* The destination of a call carries the label of its source.              *)
LEMMA CallsLabelled ==
  ASSUME TypeOK, [Next]_vars, NEW p \in Proc, at'[p] # "idle"
  PROVE  \/ at[p] # "idle" /\ src'[p] = src[p] /\ dst'[p] = dst[p]
         \/ dst'[p].label = LabelOf[src'[p]]
<1> DEFINE Goal == \/ at[p] # "idle" /\ src'[p] = src[p] /\ dst'[p] = dst[p]
                   \/ dst'[p].label = LabelOf[src'[p]]
<1>0. /\ at \in [Proc -> {"idle", "import", "setImported", "history", "created", "error"}]
      /\ src \in [Proc -> Fs!Path \cup {None}] /\ dst \in [Proc -> Dest \cup {None}]
  BY DEF TypeOK, Fs!TypeOK
<1>1. ASSUME NEW q \in Proc, NEW m \in Movie, NEW paths \in RequestPath, Request(q, m, paths)
      PROVE  Goal
  <2>1. PICK s \in ScanVideoFiles(paths), root \in RootFolderFor(m) :
          Fs!Begin(q, s, DestPath(root, m, s))
    BY <1>1 DEF Request
  <2>2. DestPath(root, m, s).label = LabelOf[s]
    BY DEF DestPath
  <2>3. /\ src' = [src EXCEPT ![q] = s]
        /\ dst' = [dst EXCEPT ![q] = DestPath(root, m, s)]
        /\ at' = [at EXCEPT ![q] = "import"]
    BY <1>1, <2>1 DEF Fs!Begin, Request, Enter
  <2> QED
    BY <1>0, <2>2, <2>3
<1>2. ASSUME NEW q \in Proc, Import(q)
      PROVE  Goal
  BY <1>2 DEF Import, Fs!ImportStep, Fs!Prepare, Fs!Remove, Fs!Link, Fs!Open, Fs!Create,
     Fs!CopyChunk, Fs!Close, Fs!Rename, Fs!Fault
<1>3. ASSUME NEW q \in Proc, UpsertMovieFile(q) \/ SetMovieImported(q) \/ CreateHistory(q)
      PROVE  Goal
  <2>1. at[q] # "idle" /\ UNCHANGED <<src, dst>> /\ \E step : at' = [at EXCEPT ![q] = step]
    BY <1>3 DEF UpsertMovieFile, SetMovieImported, CreateHistory, DbCall, Enter, calls
  <2> QED
    BY <1>0, <2>1
<1>4. ASSUME NEW q \in Proc, Reply(q)
      PROVE  Goal
  BY <1>0, <1>4 DEF Reply, Enter, Fs!Return
<1>5. CASE Crash
  BY <1>5 DEF Crash
<1>6. ASSUME \/ \E q \in Proc : Expire(q)
             \/ \E r \in Root : CreateRootFolder(r) \/ DeleteRootFolder(r)
             \/ Downloads \/ UNCHANGED vars
      PROVE  Goal
  BY <1>6 DEF Expire, CreateRootFolder, DeleteRootFolder, Downloads, Fs!Downloads, Fs!Arrive,
     Fs!Vanish, vars, calls
<1> QED
  BY <1>1, <1>2, <1>3, <1>4, <1>5, <1>6 DEF Next, HandlerStep

(* What a name of the file system holds has the label of the name.         *)
LEMMA NamesLabelled ==
  ASSUME LabelsReadBack, FsProof!IInv, FilesLabelled, NEW x \in Fs!Path, dir[x] # None
  PROVE  Labelled(dir[x], LabelOf[x])
<1>1. CASE x \in Download
  BY <1>1 DEF FsProof!IInv, FsProof!NamesSound, Labelled, FsProof!Whole, Fs!Whole
<1>2. CASE x \notin Download
  BY <1>2 DEF LabelsReadBack, FilesLabelled, Labelled, Fs!Path
<1> QED
  BY <1>1, <1>2

LEMMA LabelsTracedNext ==
  ASSUME LabelsReadBack, TypeOK, TypeOK', FsProof!IInv, FsProof!IInv', LabelsTraced, [Next]_vars
  PROVE  LabelsTraced'
<1>1. [FsProof!Next]_FsProof!vars
  BY StepOfImporter, SameImporter DEF Fs!vars, FsProof!vars
<1>2. ASSUME NEW p \in Proc, at'[p] # "idle"
      PROVE  dst'[p].label = LabelOf[src'[p]]
  BY <1>2, CallsLabelled DEF LabelsTraced
<1>3. ASSUME NEW p \in Proc, pc[p] # "idle"
      PROVE  dst[p].label = LabelOf[src[p]]
  BY <1>3 DEF LabelsTraced, TypeOK
<1>4. ASSUME NEW p \in Proc, in[p] # None
      PROVE  pc[p] # "idle"
  BY <1>4 DEF TypeOK, Fs!TypeOK
<1>5. ASSUME NEW d \in Dest, dir'[d] # None, dir'[d] \notin suspect'
      PROVE  \E s \in Download : LabelOf[s] = d.label /\ data'[dir'[d]] = Fs!Whole(s)
  <2>1. CASE dir'[d] = dir[d] /\ dir[d] \notin suspect /\ data'[dir[d]] = data[dir[d]]
    BY <1>5, <2>1 DEF LabelsTraced, FilesLabelled
  <2>2. ASSUME NEW p \in Proc, pc[p] # "ok", pc'[p] = "ok", dst[p] = d
        PROVE  \E s \in Download : LabelOf[s] = d.label /\ data'[dir'[d]] = Fs!Whole(s)
    <3>1. pc[p] # "idle"
      <4>1. FsProof!Link(p) \/ FsProof!Rename(p)
        BY <1>1, <2>2, FsProof!SuccessSteps, SameImporter
      <4> QED
        BY <4>1 DEF FsProof!Link, FsProof!Rename
    <3>2. PICK i \in Inode : /\ \/ src[p] \in FsProof!Path /\ i = dir[src[p]]
                                \/ i = in[p]
                             /\ i \notin suspect
                             /\ data'[dir'[d]] = data[i]
      BY <1>1, <1>5, <2>2, FsProof!SuccessCopies, SameImporter
    <3>3. i # None
      BY SameImporter DEF FsProof!ConstantsAssumption
    <3>4. Labelled(i, d.label)
      BY <1>3, <2>2, <3>1, <3>2, <3>3, NamesLabelled DEF LabelsTraced, Fs!Path, FsProof!Path
    <3> QED
      BY <3>2, <3>4 DEF Labelled
  <2> QED
    BY <1>1, <1>5, <2>1, <2>2, FsProof!KeptOrPlaced, SameImporter
<1>6. ASSUME NEW p \in Proc, in'[p] # None
      PROVE  Labelled(in[p], dst[p].label)'
  <2> SUFFICES ASSUME in'[p] \notin suspect'
               PROVE  \E s \in Download : LabelOf[s] = dst'[p].label /\ data'[in'[p]] = Fs!Whole(s)
    BY DEF Labelled, Fs!Whole
  <2>1. CASE /\ in'[p] = in[p] /\ dst'[p] = dst[p]
             /\ in[p] \notin suspect /\ data'[in[p]] = data[in[p]]
    BY <1>6, <2>1 DEF LabelsTraced, Labelled
  <2>2. CASE /\ pc[p] = "open" /\ src[p] \in FsProof!Path /\ dir[src[p]] # None
             /\ in'[p] = dir[src[p]] /\ dst'[p] = dst[p] /\ UNCHANGED FsProof!files
    <3>1. Labelled(dir[src[p]], dst[p].label)
      BY <1>3, <2>2, NamesLabelled DEF LabelsTraced, Fs!Path, FsProof!Path
    <3> QED
      BY <2>2, <3>1 DEF Labelled, FsProof!files
  <2> QED
    BY <1>1, <1>6, <2>1, <2>2, FsProof!SourceKept, SameImporter
<1> QED
  BY <1>2, <1>5, <1>6 DEF LabelsTraced, FilesLabelled, Fs!Whole

(* If the parser reads back the labels that FileName writes, then whatever  *)
(* fails, is retried, replaced or imported again: the quality that the      *)
(* library shows for a file, in its name and in movie_file, is that of the  *)
(* download whose bytes it holds, unless copies overlapped.                 *)
THEOREM LabelsAreTrue ==
  ASSUME LabelsReadBack
  PROVE  Spec => []FilesLabelled
<1>1. Init => FsProof!IInv /\ LabelsTraced
  BY FsInvInit DEF Init, Fs!Init, LabelsTraced, FilesLabelled, Fs!Path
<1>2. TypeOK /\ FsProof!IInv /\ [Next]_vars => FsProof!IInv'
  BY FsInvNext
<1>3. TypeOK /\ TypeOK' /\ FsProof!IInv /\ FsProof!IInv' /\ LabelsTraced /\ [Next]_vars => LabelsTraced'
  BY LabelsTracedNext
<1>4. LabelsTraced => FilesLabelled
  BY DEF LabelsTraced
<1> QED
  BY <1>1, <1>2, <1>3, <1>4, PipelineTypes, PTL DEF Spec

-----------------------------------------------------------------------------
(* A step of Import, or its failure, leaves the call with less to do.       *)
LEMMA CallAdvances ==
  ASSUME Fs!TypeOK, NEW p \in Proc, Fs!ImportStep(p) \/ Fs!Fault(p)
  PROVE  Fs!StepsLeft(p)' < Fs!StepsLeft(p)
<1> DEFINE Rank(step, n) ==
      CASE step = "prepare" -> Chunks + 7
        [] step = "remove" -> Chunks + 6
        [] step = "link" -> Chunks + 5
        [] step = "open" -> Chunks + 4
        [] step = "create" -> Chunks + 3
        [] step = "copy" -> Chunks + 2 - n
        [] step = "rename" -> 1
        [] OTHER -> 0
<1>1. Fs!StepsLeft(p) = Rank(pc[p], off[p]) /\ Fs!StepsLeft(p)' = Rank(pc'[p], off'[p])
  BY DEF Fs!StepsLeft
<1>2. /\ Chunks \in Nat \ {0}
      /\ pc \in [Proc -> Fs!Step]
      /\ off \in [Proc -> 0..Chunks]
  BY PipelineAssumption DEF PipelineAssumption, Fs!ConstantsAssumption, Fs!TypeOK
<1>3. CASE /\ pc[p] \in {"prepare", "remove", "link", "open", "create", "copy", "rename"}
           /\ pc'[p] = "failed"
  <2>1. Rank(pc'[p], off'[p]) = 0
    BY <1>3
  <2>2. Rank(pc[p], off[p]) \in Nat \ {0}
    BY <1>2, <1>3
  <2> QED
    BY <1>1, <2>1, <2>2
<1>4. CASE Fs!Fault(p)
  <2>1. pc[p] \in {"prepare", "remove", "link", "open", "create", "copy", "rename"}
    BY <1>2, <1>4 DEF Fs!Fault, Fs!Active, Fs!Step
  <2>2. pc'[p] = "failed" \/ (pc[p] = "prepare" /\ pc'[p] = "link")
    BY <1>2, <1>4 DEF Fs!Fault, Fs!Finish, Fs!Goto
  <2> QED
    BY <1>1, <1>2, <1>3, <2>1, <2>2
<1>5. CASE Fs!Prepare(p)
  <2>1. pc[p] = "prepare" /\ pc'[p] \in {"remove", "link"}
    BY <1>2, <1>5 DEF Fs!Prepare, Fs!Goto
  <2> QED
    BY <1>1, <1>2, <2>1
<1>6. CASE Fs!Remove(p)
  <2>1. pc[p] = "remove" /\ pc'[p] \in {"link", "failed"}
    BY <1>2, <1>6 DEF Fs!Remove, Fs!Goto, Fs!Fail, Fs!Finish
  <2> QED
    BY <1>1, <1>2, <1>3, <2>1
<1>7. CASE Fs!Link(p)
  <2>1. pc[p] = "link" /\ pc'[p] \in {"open", "ok", "failed"}
    BY <1>2, <1>7 DEF Fs!Link, Fs!Goto, Fs!Fail, Fs!Finish
  <2> QED
    BY <1>1, <1>2, <1>3, <2>1
<1>8. CASE Fs!Open(p)
  <2>1. pc[p] = "open" /\ pc'[p] \in {"create", "failed"}
    BY <1>2, <1>8 DEF Fs!Open, Fs!Goto, Fs!Fail, Fs!Finish
  <2> QED
    BY <1>1, <1>2, <1>3, <2>1
<1>9. CASE Fs!Create(p)
  <2>1. pc[p] = "create" /\ pc'[p] = "copy" /\ off'[p] \in 0..Chunks
    BY <1>2, <1>9 DEF Fs!Create, Fs!Goto
  <2> QED
    BY <1>1, <1>2, <2>1
<1>10. CASE Fs!CopyChunk(p)
  <2>1. pc[p] = "copy" /\ pc'[p] = "copy" /\ off'[p] = off[p] + 1
    BY <1>2, <1>10 DEF Fs!CopyChunk
  <2> QED
    BY <1>1, <1>2, <2>1
<1>11. CASE Fs!Close(p)
  <2>1. pc[p] = "copy" /\ pc'[p] = "rename" /\ off[p] = Chunks
    BY <1>2, <1>11 DEF Fs!Close, Fs!Goto
  <2> QED
    BY <1>1, <1>2, <2>1
<1>12. CASE Fs!Rename(p)
  <2>1. pc[p] = "rename" /\ pc'[p] \in {"ok", "failed"}
    BY <1>2, <1>12 DEF Fs!Rename, Fs!Goto, Fs!Fail, Fs!Finish
  <2> QED
    BY <1>1, <1>2, <1>3, <2>1
<1> QED
  BY <1>4, <1>5, <1>6, <1>7, <1>8, <1>9, <1>10, <1>11, <1>12 DEF Fs!ImportStep

(* No step of the file system touches another call.                         *)
LEMMA OtherCallsKept ==
  ASSUME Fs!TypeOK, NEW p \in Proc, NEW q \in Proc \ {p},
         \/ \E s \in Fs!Path, d \in Dest : Fs!Begin(p, s, d)
         \/ Fs!ImportStep(p) \/ Fs!Fault(p) \/ Fs!Return(p)
  PROVE  UNCHANGED <<pc[q], off[q], in[q], out[q]>>
<1>1. /\ pc \in [Proc -> Fs!Step] /\ off \in [Proc -> 0..Chunks]
      /\ in \in [Proc -> Inode \cup {None}] /\ out \in [Proc -> Inode \cup {None}]
  BY DEF Fs!TypeOK
<1> USE <1>1 DEF Fs!Goto, Fs!Fail, Fs!Finish, Fs!fds
<1>2. CASE (\E s \in Fs!Path, d \in Dest : Fs!Begin(p, s, d)) \/ Fs!Return(p) \/ Fs!Fault(p)
  BY <1>2 DEF Fs!Begin, Fs!Return, Fs!Fault
<1>3. CASE Fs!Prepare(p) \/ Fs!Remove(p) \/ Fs!Link(p) \/ Fs!Open(p)
  BY <1>3 DEF Fs!Prepare, Fs!Remove, Fs!Link, Fs!Open
<1>4. CASE Fs!Create(p) \/ Fs!CopyChunk(p) \/ Fs!Close(p) \/ Fs!Rename(p)
  BY <1>4 DEF Fs!Create, Fs!CopyChunk, Fs!Close, Fs!Rename
<1> QED
  BY <1>2, <1>3, <1>4 DEF Fs!ImportStep

(* A call to Import takes at most Chunks + 7 steps, and a request four more. *)
LEMMA StepsLeftBounded ==
  ASSUME Fs!TypeOK, NEW p \in Proc
  PROVE  Fs!StepsLeft(p) \in 0..(Chunks + 7)
<1>1. Chunks \in Nat \ {0} /\ off[p] \in 0..Chunks
  BY PipelineAssumption DEF PipelineAssumption, Fs!ConstantsAssumption, Fs!TypeOK
<1> QED
  BY <1>1 DEF Fs!StepsLeft

(* A step leaves a busy handler's request with less to do, or alone.        *)
LEMMA WorkBoundedNext ==
  ASSUME TypeOK, TypeOK', [Next]_vars, NEW q \in Proc, at[q] # "idle"
  PROVE  CallsLeft(q)' < CallsLeft(q) \/ UNCHANGED <<at[q], pc[q], off[q], in[q], out[q]>>
<1> DEFINE Same == UNCHANGED <<at[q], pc[q], off[q], in[q], out[q]>>
<1>1. /\ at \in [Proc -> {"idle", "import", "setImported", "history", "created", "error"}]
      /\ at' \in [Proc -> {"idle", "import", "setImported", "history", "created", "error"}]
      /\ Fs!TypeOK /\ Fs!TypeOK'
  BY DEF TypeOK
<1>2. Fs!StepsLeft(q) \in Nat /\ Fs!StepsLeft(q)' \in Nat
  <2>1. Chunks \in Nat
    BY PipelineAssumption DEF PipelineAssumption, Fs!ConstantsAssumption
  <2>2. Fs!StepsLeft(q) \in 0..(Chunks + 7)
    BY <1>1, StepsLeftBounded
  <2>3. (Fs!StepsLeft(q) \in 0..(Chunks + 7))'
    <3>1. Chunks \in Nat \ {0} /\ off'[q] \in 0..Chunks
      BY <1>1, PipelineAssumption DEF PipelineAssumption, Fs!ConstantsAssumption, Fs!TypeOK
    <3> QED
      BY <3>1 DEF Fs!StepsLeft
  <2> QED
    BY <2>1, <2>2, <2>3
<1>3. ASSUME NEW p \in Proc, NEW m \in Movie, NEW paths \in RequestPath, Request(p, m, paths)
      PROVE  Same
  <2>1. \E s \in Fs!Path, d \in Dest : Fs!Begin(p, s, d)
    <3>1. PICK s \in ScanVideoFiles(paths), root \in RootFolderFor(m) :
               Fs!Begin(p, s, DestPath(root, m, s))
      BY <1>3 DEF Request
    <3>2. s \in Fs!Path /\ root \in Root
      BY PipelineAssumption DEF PipelineAssumption, ScanVideoFiles, RootFolderFor, TypeOK
    <3>3. DestPath(root, m, s) \in Dest
      BY <3>2, PipelineAssumption DEF PipelineAssumption
    <3> QED
      BY <3>1, <3>2, <3>3
  <2>2. p # q
    BY <1>3 DEF Request
  <2>3. UNCHANGED <<pc[q], off[q], in[q], out[q]>>
    BY <1>1, <2>1, <2>2, OtherCallsKept
  <2>4. at'[q] = at[q]
    BY <1>1, <1>3, <2>2 DEF Request, Enter
  <2> QED
    BY <2>3, <2>4
<1>4. ASSUME NEW p \in Proc, Import(p)
      PROVE  CallsLeft(q)' < CallsLeft(q) \/ Same
  <2>1. at'[q] = at[q]
    BY <1>4 DEF Import
  <2>2. CASE p = q
    <3>1. Fs!StepsLeft(q)' < Fs!StepsLeft(q)
      BY <1>1, <1>4, <2>2, CallAdvances DEF Import
    <3>2. at[q] = "import"
      BY <1>4, <2>2 DEF Import
    <3> QED
      BY <1>2, <2>1, <3>1, <3>2 DEF CallsLeft
  <2>3. CASE p # q
    BY <1>1, <1>4, <2>1, <2>3, OtherCallsKept DEF Import
  <2> QED
    BY <2>2, <2>3
<1>5. ASSUME NEW p \in Proc, UpsertMovieFile(p) \/ SetMovieImported(p) \/ CreateHistory(p)
      PROVE  CallsLeft(q)' < CallsLeft(q) \/ Same
  <2>1. UNCHANGED <<pc[q], off[q], in[q], out[q]>>
    BY <1>5 DEF UpsertMovieFile, SetMovieImported, CreateHistory, DbCall, calls
  <2>2. CASE p = q
    <3>1. \/ at[q] = "import" /\ at'[q] \in {"setImported", "error"}
          \/ at[q] = "setImported" /\ at'[q] \in {"history", "error"}
          \/ at[q] = "history" /\ at'[q] = "created"
      BY <1>1, <1>5, <2>2 DEF UpsertMovieFile, SetMovieImported, CreateHistory, DbCall, Enter
    <3> QED
      BY <1>2, <3>1 DEF CallsLeft
  <2>3. CASE p # q
    BY <1>1, <1>5, <2>1, <2>3 DEF UpsertMovieFile, SetMovieImported, CreateHistory, DbCall, Enter
  <2> QED
    BY <2>2, <2>3
<1>6. CASE at'[q] = "idle"
  BY <1>1, <1>2, <1>6 DEF CallsLeft
<1>7. ASSUME NEW p \in Proc, Reply(p)
      PROVE  CallsLeft(q)' < CallsLeft(q) \/ Same
  <2>1. CASE p = q
    BY <1>1, <1>6, <1>7, <2>1 DEF Reply, Enter
  <2>2. CASE p # q
    <3>1. UNCHANGED <<pc[q], off[q], in[q], out[q]>>
      BY <1>1, <1>7, <2>2, OtherCallsKept DEF Reply
    <3> QED
      BY <1>1, <1>7, <2>2, <3>1 DEF Reply, Enter
  <2> QED
    BY <2>1, <2>2
<1>8. CASE Crash
  BY <1>6, <1>8 DEF Crash
<1>9. ASSUME \/ \E p \in Proc : Expire(p)
             \/ \E r \in Root : CreateRootFolder(r) \/ DeleteRootFolder(r)
             \/ Downloads
             \/ UNCHANGED vars
      PROVE  Same
  BY <1>9 DEF Expire, CreateRootFolder, DeleteRootFolder, Downloads, Fs!Downloads, Fs!Arrive,
     Fs!Vanish, Fs!fds, calls, vars
<1> QED
  BY <1>3, <1>4, <1>5, <1>7, <1>8, <1>9 DEF Next, HandlerStep

(* A handler never goes back or over a call again, whatever the others and  *)
(* the surroundings do: its request ends after at most Chunks + 11 calls.   *)
THEOREM WorkIsBounded == Spec => WorkBounded
<1>1. TypeOK /\ TypeOK' /\ [Next]_vars =>
        [\A p \in Proc : at[p] # "idle" =>
           \/ CallsLeft(p)' < CallsLeft(p)
           \/ UNCHANGED <<at[p], pc[p], off[p], in[p], out[p]>>]_vars
  BY WorkBoundedNext
<1> QED
  BY <1>1, PipelineTypes, PTL DEF Spec, WorkBounded
=============================================================================
