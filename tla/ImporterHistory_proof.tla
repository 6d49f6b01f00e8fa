------------------------ MODULE ImporterHistory_proof ------------------------
(***************************************************************************)
(* The proof that Import implements AtomicImport, for any number of        *)
(* handlers, downloads, library paths, filesystems, chunks and mishaps.    *)
(* Every step of Importer begins, takes, places, gives up, returns or      *)
(* crashes in AtomicImport, or changes nothing there.                      *)
(***************************************************************************)
EXTENDS ImporterHistory, Importer_proof

(* The program starts with no call that could have met another.             *)
LEMMA MetInit == InitH => MetInv
BY DEF InitH, Init, MetInv, Active, Writing

(* A call that meets another one to its destination is in met as long as it *)
(* runs, so the writers of a partial file that two have written all are.    *)
LEMMA MetNext == IInv /\ MetInv /\ [NextH]_<<vars, met>> => MetInv'
<1> SUFFICES ASSUME IInv, MetInv, [NextH]_<<vars, met>>
             PROVE  MetInv'
  OBVIOUS
<1> USE ConstantsAssumption
<1>0. TypeOK /\ PartialsApart /\ SourcesSound /\ [Next]_vars
  BY DEF IInv, NextH
<1>1. CASE UNCHANGED <<vars, met>>
  BY <1>1 DEF MetInv, Active, Writing, vars
<1>2. CASE NextH
  <2> DEFINE Together(p, q) == Active(p)' /\ Active(q)' /\ dst'[p] = dst'[q]
  <2>1. met' \subseteq {p \in Proc : Active(p)'}
    BY <1>2 DEF NextH, Meet
  <2>2. \A p, q \in Proc : p # q /\ Together(p, q) => p \in met'
    BY <1>2 DEF NextH, Meet
  <2>3. ASSUME NEW p \in Proc, Writing(p)', src'[p] \in Download,
               partial'[dst'[p]] # None, partial'[dst'[p]] \in suspect'
        PROVE  p \in met'
    <3>0. Active(p)'
      BY <2>3 DEF Active, Writing
    <3>1. CASE \E q \in Proc \ {p} : Create(q) /\ dst'[q] = dst'[p]
      <4>1. PICK q \in Proc \ {p} : Create(q) /\ dst'[q] = dst'[p]
        BY <3>1
      <4>2. Active(q)'
        BY <1>0, <4>1 DEF Create, Goto, Active, TypeOK
      <4> QED
        BY <2>2, <3>0, <4>1, <4>2
    <3>2. CASE Create(p)
      <4>1. /\ pc[p] = "create" /\ in[p] # None /\ src'[p] = src[p] /\ dst' = dst
            /\ suspect' = IF Overlaps(p) \/ in[p] \in suspect
                          THEN suspect \cup {CreateTarget(p)}
                          ELSE suspect \ {CreateTarget(p)}
            /\ partial'[dst[p]] = CreateTarget(p)
        BY <1>0, <3>2 DEF TypeOK, Create
      <4>2. in[p] \notin suspect
        BY <1>0, <2>3, <4>1 DEF SourcesSound
      <4>3. Overlaps(p)
        <5> DEFINE t == CreateTarget(p)
        <5> HIDE DEF t
        <5>1. partial'[dst[p]] = t /\ t \in suspect'
          BY <2>3, <4>1 DEF t
        <5>2. ~Overlaps(p) => suspect' = suspect \ {t}
          BY <4>1, <4>2 DEF t
        <5> QED
          BY <5>1, <5>2
      <4>4. PICK q \in Proc \ {p} : Active(q) /\ dst[q] = dst[p]
        BY <4>3 DEF Overlaps, Writing, Active
      <4>5. Active(p)
        BY <4>1 DEF Active
      <4> QED
        BY <1>2, <3>0, <4>4, <4>5 DEF MetInv, NextH, Meet
    <3>3. CASE ~\E q \in Proc : Create(q) /\ dst'[q] = dst'[p]
      <4> DEFINE Kept == /\ Writing(p) /\ src'[p] = src[p] /\ dst'[p] = dst[p]
                         /\ partial'[dst[p]] = partial[dst[p]]
      <4>1. ASSUME NEW q \in Proc, ImportStep(q), ~Create(q), ~Rename(q)
            PROVE  Kept
        BY <1>0, <2>3, <4>1 DEF TypeOK, Writing, ImportStep, Prepare, Remove, Link, Open,
           CopyChunk, Close, Fail, Finish, Goto, files, fds
      <4>2. ASSUME NEW q \in Proc, Rename(q)
            PROVE  Kept
        BY <1>0, <2>3, <4>2 DEF TypeOK, Writing, Rename, Fail, Finish, Goto
      <4>3. ASSUME NEW q \in Proc, Create(q)
            PROVE  Kept
        <5> DEFINE t == CreateTarget(q)
        <5>1. /\ pc' = [pc EXCEPT ![q] = "copy"] /\ UNCHANGED <<src, dst>>
              /\ partial' = [partial EXCEPT ![dst[q]] = t]
          BY <4>3 DEF Create, Goto
        <5>2. p # q /\ dst[p] # dst[q]
          BY <3>3, <4>3, <5>1
        <5> HIDE DEF t
        <5> QED
          BY <1>0, <2>3, <5>1, <5>2 DEF TypeOK, Writing
      <4>4. ASSUME NEW q \in Proc, Fault(q)
            PROVE  Kept
        BY <1>0, <2>3, <4>4 DEF TypeOK, Writing, Fault, Finish, Goto, fds
      <4>5. ASSUME NEW q \in Proc, Return(q)
            PROVE  Kept
        BY <1>0, <2>3, <4>5 DEF TypeOK, Writing, Return, Goto, files
      <4>6. ASSUME NEW q \in Proc, NEW s \in Path, NEW d \in Dest, Begin(q, s, d)
            PROVE  Kept
        BY <1>0, <2>3, <4>6 DEF TypeOK, Writing, Begin, Goto, files
      <4>7. ASSUME Crash PROVE Kept
        BY <2>3, <4>7 DEF Writing, Crash
      <4>8. ASSUME Downloads PROVE Kept
        BY <2>3, <4>8 DEF Writing, Downloads, Arrive, Vanish
      <4>9. Kept
        BY <1>2, <4>1, <4>2, <4>3, <4>4, <4>5, <4>6, <4>7, <4>8 DEF NextH, Next
      <4>10. dst[p] \in Dest
        BY <1>0, <4>9 DEF TypeOK, Writing
      <4>11. partial[dst[p]] \in suspect
        <5>1. ASSUME NEW q \in Proc, Create(q)
              PROVE  partial[dst[p]] \in suspect
          <6> DEFINE t == CreateTarget(q)
          <6>1. \A i \in suspect' : i # t => i \in suspect
            BY <5>1 DEF Create
          <6>2. /\ dst[q] \in Dest /\ partial'[dst[q]] = t
                /\ dst' = dst
            BY <1>0, <5>1 DEF TypeOK, Create
          <6>3. dst[q] # dst[p]
            BY <3>3, <4>9, <5>1, <6>2
          <6>4. PartialsApart'
            BY <1>0, IInvNext DEF IInv
          <6> HIDE DEF t
          <6> QED
            BY <2>3, <4>9, <4>10, <6>1, <6>2, <6>3, <6>4 DEF PartialsApart
        <5>2. ASSUME NEW s \in Download, Arrive(s)
              PROVE  partial[dst[p]] \in suspect
          BY <2>3, <4>9, <5>2 DEF Arrive
        <5> QED
          BY <1>0, <2>3, <4>9, <5>1, <5>2, SuspectChanges
      <4> QED
        BY <1>2, <2>3, <3>0, <4>9, <4>11 DEF MetInv, NextH, Meet
    <3> QED
      BY <3>1, <3>2, <3>3
  <2> QED
    BY <2>1, <2>2, <2>3 DEF MetInv
<1> QED
  BY <1>1, <1>2
-----------------------------------------------------------------------------
(* What a library path that no call has just placed, and no call has just   *)
(* removed, is seen to hold does not change.                                *)
LEMMA HeldKept ==
  ASSUME IInv, [Next]_vars, NEW d \in Dest, dir'[d] = None => dir[d] = None,
         ~\E p \in Proc : pc[p] # "ok" /\ pc'[p] = "ok" /\ dst[p] = d
  PROVE  held'[d] = held[d]
<1> USE ConstantsAssumption
<1>1. CASE dir'[d] = None
  BY <1>1 DEF held
<1>2. CASE dir'[d] # None /\ dir'[d] \notin suspect'
  BY <1>2, KeptOrPlaced DEF held
<1>3. CASE dir'[d] # None /\ dir'[d] \in suspect'
  <2>0. TypeOK /\ TypeOK' /\ PartialsApart /\ d \in Path /\ d \notin Download
    BY TypeNext DEF IInv, Path
  <2>1. dir'[d] = dir[d]
    <3>1. ASSUME NEW p \in Proc, Remove(p) \/ Link(p) \/ Rename(p)
          PROVE  dir'[d] = dir[d]
      BY <1>3, <2>0, <3>1 DEF Remove, Link, Rename, Fail, Finish, Goto, files, TypeOK
    <3>2. ASSUME NEW s \in Download, Arrive(s) \/ Vanish(s)
          PROVE  dir'[d] = dir[d]
      BY <2>0, <3>2 DEF Arrive, Vanish, TypeOK
    <3> QED
      BY <3>1, <3>2 DEF Next, ImportStep, Begin, Prepare, Open, Create, CopyChunk, Close,
         Return, Fault, Crash, Downloads, Fail, files, vars
  <2>2. dir[d] \in suspect
    <3>1. ASSUME NEW p \in Proc, Create(p)
          PROVE  dir[d] \in suspect
      <4> DEFINE t == CreateTarget(p)
      <4>1. /\ dst[p] \in Dest /\ partial'[dst[p]] = t
            /\ \A i \in suspect' : i # t => i \in suspect
        BY <2>0, <3>1 DEF TypeOK, Create
      <4>2. PartialsApart'
        BY IInvNext DEF IInv
      <4> HIDE DEF t
      <4>3. t # None
        BY <2>0, <3>1, FreshInode DEF t, CreateTarget, Create, TypeOK
      <4> QED
        BY <1>3, <2>0, <2>1, <4>1, <4>2, <4>3 DEF PartialsApart
    <3>2. ASSUME NEW s \in Download, Arrive(s)
          PROVE  dir[d] \in suspect
      BY <1>3, <2>1, <3>2 DEF Arrive
    <3> QED
      BY <1>3, <2>1, <3>1, <3>2, SuspectChanges
  <2> QED
    BY <1>3, <2>1, <2>2 DEF held
<1> QED
  BY <1>1, <1>2, <1>3

(* A download is recognised by its bytes.                                  *)
LEMMA WholeApart == \A s, t \in Download : Whole(s) = Whole(t) => s = t
<1> SUFFICES ASSUME NEW s \in Download, NEW t \in Download, Whole(s) = Whole(t)
             PROVE  s = t
  OBVIOUS
<1>1. 1 \in 1..Chunks
  BY ConstantsAssumption
<1>2. Whole(s)[1] = s /\ Whole(t)[1] = t
  BY <1>1 DEF Whole
<1> QED
  BY <1>2

(* A library path holds a download, a torn file, or nothing.                *)
HeldTyped ==
  \A d \in Dest :
    /\ held[d] = None <=> dir[d] = None
    /\ dir[d] # None => held[d] \in Download \cup {Torn}
    /\ \A s \in Download :
         dir[d] # None /\ dir[d] \notin suspect /\ data[dir[d]] = Whole(s) => held[d] = s
    /\ dir[d] # None /\ dir[d] \in suspect => held[d] = Torn

LEMMA HeldType == IInv => HeldTyped
<1> SUFFICES ASSUME IInv, NEW d \in Dest
             PROVE  HeldTyped!(d)
  BY DEF HeldTyped
<1> USE ConstantsAssumption, TornAssumption
<1>1. dir[d] # None /\ dir[d] \notin suspect => \E s \in Download : data[dir[d]] = Whole(s)
  BY DEF IInv, NamesSound, Sound, IsWhole, Path
<1>2. held[d] = IF dir[d] = None THEN None
                ELSE IF dir[d] \in suspect THEN Torn
                ELSE CHOOSE s \in Download : data[dir[d]] = Whole(s)
  BY DEF held
<1>3. dir[d] # None /\ dir[d] \notin suspect =>
        held[d] \in Download /\ data[dir[d]] = Whole(held[d])
  BY <1>1, <1>2
<1> QED
  BY <1>2, <1>3, WholeApart DEF Path

LEMMA HeldTypeNext == IInv' => HeldTyped'
BY HeldType, PTL
-----------------------------------------------------------------------------
(* The handlers of AtomicImport that run are those inside Import.           *)
LEMMA RunningIsActive ==
  /\ Atomic!Running = {p \in Proc : Active(p)}
  /\ Atomic!Running' = {p \in Proc : Active(p)'}
BY DEF Atomic!Running, call, Active

(* The history variables of both specifications record the same meetings.   *)
LEMMA MeetIsMeet == NextH => Atomic!Meet
<1> SUFFICES ASSUME NextH
             PROVE  Atomic!Meet
  OBVIOUS
<1> DEFINE R == {p \in Proc : Active(p)'}
<1>1. \A p \in Proc : call'[p].dst = dst'[p]
  BY DEF call
<1>2. met' = {p \in R : p \in met \/ \E q \in R \ {p} : call'[q].dst = call'[p].dst}
  BY <1>1 DEF NextH, Meet
<1> QED
  BY <1>2, RunningIsActive DEF Atomic!Meet

(* A step that neither removes nor places a library file shows nothing.     *)
LEMMA HeldSame ==
  ASSUME IInv, [Next]_vars,
         \A d \in Dest : dir'[d] = None => dir[d] = None,
         ~\E p \in Proc : pc[p] # "ok" /\ pc'[p] = "ok"
  PROVE  held' = held
<1>1. \A d \in Dest : held'[d] = held[d]
  BY HeldKept
<1> QED
  BY <1>1 DEF held

(* A call that fails gives up.                                             *)
LEMMA FailGivesUp ==
  ASSUME IInv, NextH, NEW p \in Proc, Active(p),
         pc' = [pc EXCEPT ![p] = "failed"], UNCHANGED <<dir, src, dst>>
  PROVE  Atomic!GiveUp(p)
<1>0. TypeOK
  BY DEF IInv
<1>1. call' = [call EXCEPT ![p].result = "failed"]
  BY <1>0 DEF TypeOK, call, Active
<1>2. held' = held
  BY <1>0, HeldSame DEF TypeOK, Active, NextH
<1> QED
  BY <1>1, <1>2, RunningIsActive DEF Atomic!GiveUp

(* A call that succeeds places its source, or a torn file if it met another *)
(* call to its destination.                                                 *)
LEMMA SuccessPlaces ==
  ASSUME IInv, IInv', MetInv, NextH, NEW p \in Proc, Link(p) \/ Rename(p),
         pc' = [pc EXCEPT ![p] = "ok"]
  PROVE  Atomic!Place(p)
<1> USE ConstantsAssumption, TornAssumption
<1>0. /\ TypeOK /\ TypeOK' /\ Active(p)
      /\ UNCHANGED <<src, dst>> /\ dst[p] \in Dest /\ src[p] \in Path
      /\ pc[p] # "ok" /\ pc'[p] = "ok"
  BY DEF IInv, TypeOK, Link, Rename, Active
<1>1. call' = [call EXCEPT ![p].result = "ok"]
  BY <1>0 DEF TypeOK, call, Active
<1>2. Placed(p)
  BY <1>0, PlacesSource DEF NextH
<1>3. held'[dst[p]] \in Atomic!Outcome(p)
  <2>1. call[p].src = src[p]
    BY DEF call
  <2>2. held'[dst[p]] \in Download \cup {Torn}
    BY <1>0, <1>2, HeldTypeNext DEF Placed, HeldTyped
  <2>3. CASE src[p] \in Download
    <3>1. CASE dir'[dst[p]] \notin suspect'
      <4>1. held'[dst[p]] = src[p]
        BY <1>0, <1>2, <2>3, <3>1, HeldTypeNext DEF Placed, HeldTyped
      <4> QED
        BY <2>1, <2>3, <4>1 DEF Atomic!Outcome
    <3>2. CASE dir'[dst[p]] \in suspect'
      <4>1. held'[dst[p]] = Torn
        BY <1>0, <1>2, <3>2, HeldTypeNext DEF Placed, HeldTyped
      <4>2. p \in met
        <5>1. CASE Link(p)
          BY <1>0, <1>2, <2>3, <3>2, <5>1
             DEF IInv, NamesSound, TypeOK, Link, Fail, Finish, Goto, files
        <5>2. CASE Rename(p)
          <6>1. /\ Writing(p) /\ partial[dst[p]] # None /\ UNCHANGED suspect
                /\ dir'[dst[p]] = partial[dst[p]]
            BY <1>0, <5>2 DEF TypeOK, Rename, Fail, Finish, Goto, Writing, Path
          <6> QED
            BY <2>3, <3>2, <6>1 DEF MetInv
        <5> QED
          BY <5>1, <5>2
      <4> QED
        BY <2>1, <2>3, <4>1, <4>2 DEF Atomic!Outcome
    <3> QED
      BY <3>1, <3>2
  <2> QED
    BY <2>1, <2>2, <2>3 DEF Atomic!Outcome
<1>4. held' = [held EXCEPT ![dst[p]] = held'[dst[p]]]
  <2>1. ASSUME NEW d \in Dest, d # dst[p]
        PROVE  held'[d] = held[d]
    <3>1. dir'[d] = dir[d]
      BY <1>0, <2>1 DEF TypeOK, Link, Rename, Fail, Finish, Goto, files, Path
    <3>2. ~\E q \in Proc : pc[q] # "ok" /\ pc'[q] = "ok" /\ dst[q] = d
      BY <1>0, <2>1 DEF TypeOK
    <3> QED
      BY <3>1, <3>2, HeldKept DEF NextH
  <2>2. held = [d \in Dest |-> held[d]] /\ held' = [d \in Dest |-> held'[d]]
    BY DEF held
  <2> QED
    BY <2>1, <2>2
<1>5. call[p].dst = dst[p]
  BY DEF call
<1>6. \E c \in Atomic!Outcome(p) : held' = [held EXCEPT ![call[p].dst] = c]
  BY <1>3, <1>4, <1>5
<1>7. p \in Atomic!Running
  BY <1>0, RunningIsActive
<1> QED
  BY <1>1, <1>6, <1>7 DEF Atomic!Place

(* A system call that neither ends its call nor removes a library file, and *)
(* an arrival or a deletion of a download, cannot be seen.                  *)
LEMMA Unseen ==
  ASSUME IInv, NextH, UNCHANGED <<src, dst>>,
         \A d \in Dest : dir'[d] = None => dir[d] = None,
         \A p \in Proc : \/ Active(p) /\ Active(p)'
                         \/ pc'[p] = pc[p]
  PROVE  call' = call /\ held' = held
<1>1. call' = call
  BY DEF call, Active
<1>2. ~\E p \in Proc : pc[p] # "ok" /\ pc'[p] = "ok"
  BY DEF Active
<1> QED
  BY <1>1, <1>2, HeldSame DEF NextH

(* Every step of Importer is a step of AtomicImport or changes nothing      *)
(* there.                                                                   *)
LEMMA AtomicStep ==
  IInv /\ IInv' /\ MetInv /\ [NextH]_<<vars, met>> =>
    [Atomic!Next]_<<call, met, held>>
<1> SUFFICES ASSUME IInv, IInv', MetInv, [NextH]_<<vars, met>>
             PROVE  Atomic!Next \/ UNCHANGED <<call, met, held>>
  OBVIOUS
<1> USE ConstantsAssumption
<1>0. TypeOK /\ TypeOK'
  BY DEF IInv
<1>1. CASE UNCHANGED <<vars, met>>
  BY <1>1 DEF vars, call, held, Active
<1>2. CASE NextH
  <2>m. Atomic!Meet
    BY <1>2, MeetIsMeet
  <2>u. ASSUME call' = call, held' = held
        PROVE  UNCHANGED <<call, met, held>>
    <3> DEFINE R == {p \in Proc : Active(p)}
               R1 == {p \in Proc : Active(p)'}
    <3>1. R1 = R
      BY <2>u DEF call, Active
    <3>2. \A p \in Proc : dst'[p] = dst[p]
      BY <2>u DEF call
    <3>3. met' = met
      BY <1>2, <3>1, <3>2 DEF NextH, Meet, MetInv
    <3> QED
      BY <2>u, <3>3
  <2>1. ASSUME NEW p \in Proc, NEW s \in Path, NEW d \in Dest, Begin(p, s, d)
        PROVE  Atomic!Begin(p, s, d)
    <3>1. call' = [call EXCEPT ![p] = [src |-> s, dst |-> d, result |-> "running"]]
      BY <1>0, <2>1 DEF TypeOK, Begin, Goto, call, Active
    <3>2. held' = held
      BY <1>0, <1>2, <2>1, HeldSame DEF TypeOK, Begin, Goto, files, NextH
    <3>3. call[p].result = "idle"
      BY <2>1 DEF Begin, call, Active
    <3> QED
      BY <3>1, <3>2, <3>3 DEF Atomic!Begin
  <2>2. ASSUME NEW p \in Proc, Fail(p), Active(p), UNCHANGED <<src, dst>>
        PROVE  Atomic!GiveUp(p)
    BY <1>2, <2>2, FailGivesUp DEF Fail, Finish, Goto
  <2>3. ASSUME NEW p \in Proc, Prepare(p) \/ Create(p) \/ CopyChunk(p) \/ Close(p)
        PROVE  call' = call /\ held' = held
    BY <1>0, <1>2, <2>3, Unseen DEF TypeOK, Prepare, Create, CopyChunk, Close, Goto, files, Active
  <2>4. ASSUME NEW p \in Proc, Remove(p), ~Fail(p)
        PROVE  Atomic!Take(p)
    <3>1. /\ Active(p) /\ dst[p] \in Dest /\ dir[dst[p]] # None
          /\ dir' = [dir EXCEPT ![dst[p]] = None]
          /\ pc' = [pc EXCEPT ![p] = "link"] /\ UNCHANGED <<src, dst>>
      BY <1>0, <2>4 DEF TypeOK, Remove, Goto, Active
    <3>2. call' = call
      BY <1>0, <3>1 DEF TypeOK, call, Active
    <3>3. call[p].dst = dst[p]
      BY DEF call
    <3>4. held[dst[p]] # None
      BY <3>1, HeldType DEF HeldTyped
    <3>5. held'[dst[p]] = None
      BY <1>0, <3>1, HeldTypeNext DEF TypeOK, HeldTyped, Path
    <3>6. ASSUME NEW d \in Dest, d # dst[p]
          PROVE  held'[d] = held[d]
      <4>1. dir'[d] = dir[d]
        BY <1>0, <3>1, <3>6 DEF TypeOK, Path
      <4>2. ~\E q \in Proc : pc[q] # "ok" /\ pc'[q] = "ok" /\ dst[q] = d
        BY <1>0, <3>1 DEF TypeOK
      <4> QED
        BY <1>2, <4>1, <4>2, HeldKept DEF NextH
    <3>7. held = [d \in Dest |-> held[d]] /\ held' = [d \in Dest |-> held'[d]]
      BY DEF held
    <3>8. held' = [held EXCEPT ![call[p].dst] = None]
      BY <3>3, <3>5, <3>6, <3>7
    <3> QED
      BY <3>1, <3>2, <3>3, <3>4, <3>8, RunningIsActive DEF Atomic!Take
  <2>5. ASSUME NEW p \in Proc, Link(p), ~Fail(p)
        PROVE  Atomic!Place(p) \/ (call' = call /\ held' = held)
    <3>1. CASE pc' = [pc EXCEPT ![p] = "ok"]
      BY <1>2, <2>5, <3>1, SuccessPlaces
    <3>2. CASE pc' # [pc EXCEPT ![p] = "ok"]
      BY <1>0, <1>2, <2>5, <3>2, Unseen DEF TypeOK, Link, Goto, files, Active
    <3> QED
      BY <3>1, <3>2
  <2>6. ASSUME NEW p \in Proc, Open(p), ~Fail(p)
        PROVE  call' = call /\ held' = held
    BY <1>0, <1>2, <2>6, Unseen DEF TypeOK, Open, Goto, files, Active
  <2>7. ASSUME NEW p \in Proc, Rename(p), ~Fail(p)
        PROVE  Atomic!Place(p)
    BY <1>2, <2>7, SuccessPlaces DEF Rename, Finish, Goto
  <2>8. ASSUME NEW p \in Proc, ImportStep(p)
        PROVE  Atomic!GiveUp(p) \/ Atomic!Take(p) \/ Atomic!Place(p) \/ (call' = call /\ held' = held)
    <3>1. Active(p)
      BY <2>8 DEF ImportStep, Prepare, Remove, Link, Open, Create, CopyChunk, Close, Rename, Active
    <3>2. Remove(p) \/ Link(p) \/ Open(p) \/ Rename(p) => UNCHANGED <<src, dst>>
      BY DEF Remove, Link, Open, Rename
    <3> QED
      BY <2>2, <2>3, <2>4, <2>5, <2>6, <2>7, <2>8, <3>1, <3>2 DEF ImportStep
  <2>9. ASSUME NEW p \in Proc, Fault(p)
        PROVE  Atomic!GiveUp(p) \/ (call' = call /\ held' = held)
    <3>1. CASE pc' = [pc EXCEPT ![p] = "failed"]
      BY <1>2, <2>9, <3>1, FailGivesUp DEF Fault
    <3>2. CASE pc' # [pc EXCEPT ![p] = "failed"]
      BY <1>0, <1>2, <2>9, <3>2, Unseen DEF TypeOK, Fault, Finish, Goto, Active
    <3> QED
      BY <3>1, <3>2
  <2>10. ASSUME NEW p \in Proc, Return(p)
         PROVE  Atomic!Return(p)
    <3>1. call' = [call EXCEPT ![p] = Atomic!Idle]
      BY <1>0, <2>10 DEF TypeOK, Return, Goto, call, Active, Atomic!Idle
    <3>2. held' = held
      BY <1>0, <1>2, <2>10, HeldSame DEF TypeOK, Return, Goto, files, NextH
    <3>3. call[p].result \in {"ok", "failed"}
      BY <2>10 DEF Return, call, Active
    <3> QED
      BY <3>1, <3>2, <3>3 DEF Atomic!Return
  <2>11. ASSUME Crash
         PROVE  Atomic!Crash
    <3>1. call' = [p \in Proc |-> Atomic!Idle]
      BY <2>11 DEF Crash, call, Active, Atomic!Idle
    <3>2. held' = held
      BY <1>2, <2>11, HeldSame DEF Crash, NextH
    <3> QED
      BY <3>1, <3>2 DEF Atomic!Crash
  <2>12. ASSUME NEW s \in Download, Arrive(s) \/ Vanish(s)
         PROVE  call' = call /\ held' = held
    <3>1. UNCHANGED <<pc, src, dst>> /\ \A d \in Dest : dir'[d] = dir[d]
      BY <1>0, <2>12 DEF TypeOK, Arrive, Vanish, Path
    <3> QED
      BY <1>2, <3>1, Unseen
  <2> QED
    BY <1>2, <2>m, <2>u, <2>1, <2>8, <2>9, <2>10, <2>11, <2>12
       DEF NextH, Next, Downloads, Path, Atomic!Next
<1> QED
  BY <1>1, <1>2

(* Whatever the interleaving of imports, faults, crashes and downloads that *)
(* come and go: who looks at the library sees each call place its source in *)
(* one step or not at all, and torn files only of calls that met.           *)
THEOREM ImplementsAtomicImport == SpecH => KeepsAtomicImport
<1>1. InitH => Init /\ Atomic!Init
  BY ConstantsAssumption DEF InitH, Init, Atomic!Init, Atomic!Idle, call, held, Active, Path
<1>2. [NextH]_<<vars, met>> => [Next]_vars
  BY DEF NextH
<1> QED
  BY <1>1, <1>2, IInvInit, IInvNext, MetInit, MetNext, AtomicStep, PTL
     DEF SpecH, KeepsAtomicImport, Atomic!Spec
=============================================================================
