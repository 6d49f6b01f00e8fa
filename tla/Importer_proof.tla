--------------------------- MODULE Importer_proof ---------------------------
(***************************************************************************)
(* Proofs about Importer, for any number of handlers, downloads, library   *)
(* paths, filesystems, inodes, chunks and environment events.              *)
(***************************************************************************)
EXTENDS Importer, TLAPS

(* While an inode is free, the one a new file gets is unused.               *)
LEMMA FreshInode ==
  ASSUME Free # {}
  PROVE  Fresh \in Inode /\ Fresh \notin InUse
BY DEF Free, Fresh

(* The program starts, with no call in progress, in a well-typed state.     *)
LEMMA TypeInit == Init => TypeOK
BY ConstantsAssumption DEF Init, TypeOK, Content, Blank, Step

(* Giving back the contents of deleted files keeps data well-typed.         *)
LEMMA StoreType ==
  \A c \in [Inode -> Content] : Store(c) => data' \in [Inode -> Content]
BY ConstantsAssumption DEF Store, Content, Blank

(* Store keeps what an inode in use holds.                                 *)
LEMMA StoreKeeps ==
  \A c : Store(c) => \A i \in Inode : i \in InUse' => data'[i] = c[i]
BY DEF Store

(* Every system call of Import and every mishap keeps the state well-typed; *)
(* descriptors are open exactly in the steps of copyFile that use them.     *)
LEMMA TypeNext == TypeOK /\ [Next]_vars => TypeOK'
<1> SUFFICES ASSUME TypeOK, [Next]_vars
             PROVE  TypeOK'
  OBVIOUS
<1> USE ConstantsAssumption
<1>0. Store(data) => data' \in [Inode -> Content]
  <2>1. data \in [Inode -> Content]
    BY DEF TypeOK
  <2> QED
    BY <2>1, StoreType
<1>1. ASSUME NEW p \in Proc, NEW s \in Path, NEW d \in Dest, Begin(p, s, d)
      PROVE  TypeOK'
  BY <1>1 DEF TypeOK, Begin, Goto, files, fds, Step
<1>2. ASSUME NEW p \in Proc, Fail(p), UNCHANGED <<src, dst, mishaps>>,
             pc[p] # "idle"
      PROVE  TypeOK'
  BY <1>0, <1>2 DEF TypeOK, Fail, Finish, Goto, Step
<1>3. ASSUME NEW p \in Proc, Prepare(p)
      PROVE  TypeOK'
  BY <1>3 DEF TypeOK, Prepare, Goto, files, fds, Step
<1>4. ASSUME NEW p \in Proc, Remove(p)
      PROVE  TypeOK'
  BY <1>0, <1>2, <1>4 DEF TypeOK, Remove, Goto, fds, Step
<1>5. ASSUME NEW p \in Proc, Link(p)
      PROVE  TypeOK'
  BY <1>0, <1>2, <1>5 DEF TypeOK, Link, Goto, files, fds, Step, Path
<1>6. ASSUME NEW p \in Proc, Open(p)
      PROVE  TypeOK'
  BY <1>0, <1>2, <1>6 DEF TypeOK, Open, Goto, files, Step
<1>7. ASSUME NEW p \in Proc, Create(p)
      PROVE  TypeOK'
  <2> DEFINE t == CreateTarget(p)
  <2>1. t \in Inode
    BY <1>7, FreshInode DEF TypeOK, Create, CreateTarget
  <2>2. Blank \in Content
    BY DEF Blank, Content
  <2>3. [data EXCEPT ![t] = Blank] \in [Inode -> Content]
    BY <2>1, <2>2 DEF TypeOK
  <2>4. data' \in [Inode -> Content]
    BY <1>7, <2>3, StoreType DEF Create
  <2> HIDE DEF t
  <2> QED
    BY <1>7, <2>1, <2>4 DEF TypeOK, Create, Goto, Step, t
<1>8. ASSUME NEW p \in Proc, CopyChunk(p)
      PROVE  TypeOK'
  BY <1>8 DEF TypeOK, CopyChunk, Content
<1>9. ASSUME NEW p \in Proc, Close(p)
      PROVE  TypeOK'
  BY <1>0, <1>9 DEF TypeOK, Close, Goto, Step
<1>10. ASSUME NEW p \in Proc, Rename(p)
       PROVE  TypeOK'
  BY <1>0, <1>2, <1>10 DEF TypeOK, Rename, Finish, Goto, Step, Path
<1>11. ASSUME NEW p \in Proc, Return(p)
       PROVE  TypeOK'
  BY <1>11 DEF TypeOK, Return, Goto, files, fds, Step
<1>12. ASSUME NEW p \in Proc, Fault(p)
       PROVE  TypeOK'
  BY <1>0, <1>12 DEF TypeOK, Fault, Active, Mishap, Finish, Goto, fds, Step
<1>13. CASE Crash
  BY <1>0, <1>13 DEF TypeOK, Crash, Mishap, Step
<1>14. ASSUME NEW s \in Download, Arrive(s)
       PROVE  TypeOK'
  <2>1. Whole(s) \in Content
    BY DEF Whole, Content
  <2> QED
    BY <1>14, <2>1, FreshInode DEF TypeOK, Arrive, fds, Path
<1>15. ASSUME NEW s \in Download, Vanish(s)
       PROVE  TypeOK'
  BY <1>0, <1>15 DEF TypeOK, Vanish, Mishap, fds, Path
<1>16. CASE UNCHANGED vars
  BY <1>16 DEF TypeOK, vars
<1> QED
  BY <1>1, <1>3, <1>4, <1>5, <1>6, <1>7, <1>8, <1>9, <1>10, <1>11, <1>12,
     <1>13, <1>14, <1>15, <1>16 DEF Next, ImportStep, Downloads

(* The state stays well-typed: no path out of copyFile leaks a descriptor.  *)
THEOREM TypeCorrect == Spec => []TypeOK
<1>1. TypeOK /\ [Next]_vars => TypeOK'
  BY TypeNext
<1> QED
  BY <1>1, TypeInit, PTL DEF Spec

-----------------------------------------------------------------------------
(* What is named, read or written is in use, so Store keeps its contents.  *)
LEMMA InUseAfter ==
  /\ \A x \in Path : dir'[x] \in InUse'
  /\ \A d \in Dest : partial'[d] \in InUse'
  /\ \A p \in Proc : in'[p] \in InUse' /\ out'[p] \in InUse'
BY DEF InUse

(* The inductive invariant holds before the first import.                   *)
LEMMA IInvInit == Init => IInv
BY TypeInit, ConstantsAssumption
   DEF Init, IInv, PartialsApart, NamesSound, SourcesSound, CopiesFaithful, Writing, Path

(* Every system call of Import and every mishap preserves the inductive     *)
(* invariant.                                                               *)
LEMMA IInvNext == IInv /\ [Next]_vars => IInv'
<1> SUFFICES ASSUME IInv, [Next]_vars
             PROVE  IInv'
  OBVIOUS
<1> USE ConstantsAssumption
<1>0. /\ TypeOK /\ TypeOK'
      /\ PartialsApart /\ NamesSound /\ SourcesSound /\ CopiesFaithful
  BY TypeNext DEF IInv
<1>k. Store(data) =>
        /\ \A x \in Path : dir'[x] # None => data'[dir'[x]] = data[dir'[x]]
        /\ \A d \in Dest : partial'[d] # None => data'[partial'[d]] = data[partial'[d]]
        /\ \A p \in Proc : in'[p] # None => data'[in'[p]] = data[in'[p]]
  BY <1>0, InUseAfter, StoreKeeps DEF TypeOK
<1>1. ASSUME NEW p \in Proc, NEW s \in Path, NEW d \in Dest, Begin(p, s, d)
      PROVE  IInv'
  BY <1>0, <1>1 DEF IInv, PartialsApart, NamesSound, SourcesSound, CopiesFaithful, Sound, 
     IsWhole, Writing, Overlaps, TypeOK, Begin, Goto, files, fds, Step
<1>2. ASSUME NEW p \in Proc, Fail(p), UNCHANGED <<src, dst, mishaps>>,
             pc[p] # "idle"
      PROVE  IInv'
  <2>1. PartialsApart'
  BY <1>0, <1>2 DEF PartialsApart, TypeOK, Fail, Finish, Goto
  <2>2. NamesSound'
  BY <1>0, <1>k, <1>2 DEF NamesSound, Sound, IsWhole, TypeOK, Fail, Finish, Goto, Path
  <2>3. SourcesSound'
  BY <1>0, <1>k, <1>2 DEF SourcesSound, Writing, Sound, IsWhole, TypeOK, Fail, Finish, Goto, Path
  <2>4. CopiesFaithful'
  BY <1>0, <1>k, <1>2 DEF CopiesFaithful, Writing, Overlaps, TypeOK, Fail, Finish, Goto, Path
  <2> QED
  BY <1>0, <2>1, <2>2, <2>3, <2>4 DEF IInv
<1>3. ASSUME NEW p \in Proc, Prepare(p)
      PROVE  IInv'
  <2>1. PartialsApart'
    BY <1>0, <1>k, <1>3 DEF PartialsApart, TypeOK, Prepare, Goto, files, fds
  <2>2. NamesSound'
    BY <1>0, <1>k, <1>3 DEF NamesSound, Sound, IsWhole, TypeOK, Prepare, Goto, files, fds
  <2>3. SourcesSound'
    BY <1>0, <1>k, <1>3 DEF SourcesSound, Writing, Sound, IsWhole, TypeOK, Prepare, Goto, files, fds
  <2>4. CopiesFaithful'
    BY <1>0, <1>k, <1>3 DEF CopiesFaithful, Writing, Overlaps, TypeOK, Prepare, Goto, files, fds
  <2> QED
    BY <1>0, <2>1, <2>2, <2>3, <2>4 DEF IInv
<1>4. ASSUME NEW p \in Proc, Remove(p)
      PROVE  IInv'
  <2>0. Fail(p) => IInv'
    BY <1>2, <1>4 DEF Remove
  <2>1. ~Fail(p) => PartialsApart'
    BY <1>0, <1>k, <1>4 DEF PartialsApart, TypeOK, Remove, Goto, fds, Path
  <2>2. ~Fail(p) => NamesSound'
    BY <1>0, <1>k, <1>4 DEF NamesSound, Sound, IsWhole, TypeOK, Remove, Goto, fds, Path
  <2>3. ~Fail(p) => SourcesSound'
    BY <1>0, <1>k, <1>4 DEF SourcesSound, Writing, Sound, IsWhole, TypeOK, Remove, Goto, fds, Path
  <2>4. ~Fail(p) => CopiesFaithful'
    BY <1>0, <1>k, <1>4 DEF CopiesFaithful, Writing, Overlaps, TypeOK, Remove, Goto, fds, Path
  <2> QED
    BY <1>0, <2>0, <2>1, <2>2, <2>3, <2>4 DEF IInv
<1>5. ASSUME NEW p \in Proc, Link(p)
      PROVE  IInv'
  <2>0. Fail(p) => IInv'
    BY <1>2, <1>5 DEF Link
  <2>1. ~Fail(p) => PartialsApart'
    BY <1>0, <1>k, <1>5 DEF PartialsApart, TypeOK, Link, Goto, files, fds, Path
  <2>2. ~Fail(p) => NamesSound'
    BY <1>0, <1>k, <1>5 DEF NamesSound, Sound, IsWhole, TypeOK, Link, Goto, files, fds, Path
  <2>3. ~Fail(p) => SourcesSound'
    BY <1>0, <1>k, <1>5 DEF SourcesSound, Writing, Sound, IsWhole, TypeOK, Link, Goto, files, fds, Path
  <2>4. ~Fail(p) => CopiesFaithful'
    BY <1>0, <1>k, <1>5 DEF CopiesFaithful, Writing, Overlaps, TypeOK, Link, Goto, files, fds, Path
  <2> QED
    BY <1>0, <2>0, <2>1, <2>2, <2>3, <2>4 DEF IInv
<1>6. ASSUME NEW p \in Proc, Open(p)
      PROVE  IInv'
  <2>0. Fail(p) => IInv'
    BY <1>2, <1>6 DEF Open
  <2>1. ~Fail(p) => PartialsApart'
    BY <1>0, <1>k, <1>6 DEF PartialsApart, TypeOK, Open, Goto, files, Path
  <2>2. ~Fail(p) => NamesSound'
    BY <1>0, <1>k, <1>6 DEF NamesSound, Sound, IsWhole, TypeOK, Open, Goto, files, Path
  <2>3. ~Fail(p) => SourcesSound'
    BY <1>0, <1>k, <1>6 DEF SourcesSound, Writing, NamesSound, Sound, IsWhole, TypeOK, Open, Goto, files, Path
  <2>4. ~Fail(p) => CopiesFaithful'
    BY <1>0, <1>k, <1>6 DEF CopiesFaithful, Writing, Overlaps, TypeOK, Open, Goto, files, Path
  <2> QED
    BY <1>0, <2>0, <2>1, <2>2, <2>3, <2>4 DEF IInv
<1>7. ASSUME NEW p \in Proc, Create(p)
      PROVE  IInv'
  <2> DEFINE t == CreateTarget(p)
  <2>1. /\ t \in Inode /\ dst[p] \in Dest /\ in[p] \in Inode /\ out[p] = None
        /\ partial' = [partial EXCEPT ![dst[p]] = t]
        /\ out' = [out EXCEPT ![p] = t]
        /\ pc' = [pc EXCEPT ![p] = "copy"]
        /\ UNCHANGED <<dir, src, dst, in, off>>
    BY <1>0, <1>7, FreshInode DEF TypeOK, Create, Goto, CreateTarget
  <2>6. pc[p] = "create" /\ (partial[dst[p]] # None => t = partial[dst[p]])
    BY <1>7 DEF Create, CreateTarget
  <2>2. /\ \A x \in Path : dir[x] # t
        /\ \A q \in Proc : in[q] # t
        /\ \A e \in Dest : partial[e] = t => e = dst[p]
        /\ \A q \in Proc : out[q] = t => dst[q] = dst[p]
    <3>1. CASE partial[dst[p]] # None
      BY <1>0, <2>1, <3>1 DEF PartialsApart, CreateTarget
    <3>2. CASE partial[dst[p]] = None
      <4>1. t \notin InUse
        BY <1>7, <3>2, FreshInode DEF Create, CreateTarget
      <4> HIDE DEF t
      <4> QED
        BY <4>1 DEF InUse
    <3> QED
      BY <3>1, <3>2
  <2>3. /\ t \in suspect' <=> Overlaps(p) \/ in[p] \in suspect
        /\ \A i \in Inode : i # t => (i \in suspect' <=> i \in suspect)
    BY <1>7 DEF Create
  <2>4. \A i \in Inode : i \in InUse' /\ i # t => data'[i] = data[i]
    <3>1. Store([data EXCEPT ![t] = Blank])
      BY <1>7 DEF Create
    <3> HIDE DEF t
    <3> QED
      BY <1>0, <2>1, <3>1 DEF TypeOK, Store
  <2>5. /\ \A x \in Path : dir[x] # None => data'[dir[x]] = data[dir[x]]
        /\ \A q \in Proc : in[q] # None => data'[in[q]] = data[in[q]]
        /\ \A d \in Dest : partial[d] # None /\ partial[d] # t => data'[partial[d]] = data[partial[d]]
    <3> HIDE DEF t
    <3> QED
      BY <1>0, <2>1, <2>2, <2>4, <2>6, InUseAfter DEF TypeOK
  <2> HIDE DEF t
  <2>7. PartialsApart'
    BY <1>0, <2>1, <2>2 DEF PartialsApart, TypeOK
  <2>8. NamesSound'
    BY <1>0, <2>1, <2>2, <2>3, <2>5 DEF NamesSound, Sound, IsWhole, TypeOK, Path
  <2>9. SourcesSound'
    BY <1>0, <2>1, <2>2, <2>3, <2>5, <2>6 DEF SourcesSound, Writing, Sound, IsWhole, TypeOK
  <2>10. CopiesFaithful'
    <3> SUFFICES ASSUME NEW q \in Proc, Writing(q)'
                 PROVE  /\ out'[q] # None /\ out'[q] \notin suspect' => partial'[dst[q]] = out'[q]
                        /\ partial'[dst[q]] # None /\ partial'[dst[q]] \notin suspect' =>
                             /\ ~Overlaps(q)'
                             /\ in[q] \notin suspect'
                             /\ pc'[q] = "copy" => out'[q] = partial'[dst[q]]
                             /\ \A k \in 1..off[q] : data'[partial'[dst[q]]][k] = data'[in[q]][k]
      BY <2>1 DEF CopiesFaithful
    <3>1. CASE q = p
      BY <1>0, <2>1, <2>2, <2>3, <2>6, <3>1 DEF SourcesSound, Writing, Overlaps, TypeOK
    <3>2. CASE q # p /\ dst[q] = dst[p]
      BY <1>0, <2>1, <2>2, <2>3, <2>6, <3>2 DEF CopiesFaithful, Writing, Overlaps, TypeOK
    <3>3. CASE q # p /\ dst[q] # dst[p]
      <4>1. Writing(q) /\ dst[q] \in Dest /\ in[q] \in Inode /\ out'[q] = out[q] /\ partial'[dst[q]] = partial[dst[q]]
        BY <1>0, <2>1, <3>3 DEF Writing, TypeOK
      <4>2. ~Overlaps(q) => ~Overlaps(q)'
        BY <1>0, <2>1, <3>3 DEF Writing, Overlaps, TypeOK
      <4> QED
        BY <1>0, <2>1, <2>2, <2>3, <2>5, <3>3, <4>1, <4>2 DEF CopiesFaithful, TypeOK
    <3> QED
      BY <3>1, <3>2, <3>3
  <2> QED
    BY <1>0, <2>7, <2>8, <2>9, <2>10 DEF IInv
<1>8. ASSUME NEW p \in Proc, CopyChunk(p)
      PROVE  IInv'
  <2> DEFINE i == out[p]
             n == off[p] + 1
  <2>1. /\ pc[p] = "copy" /\ dst[p] \in Dest /\ i \in Inode /\ in[p] \in Inode
        /\ n \in 1..Chunks
        /\ off' = [off EXCEPT ![p] = n]
        /\ UNCHANGED <<dir, partial, suspect, pc, src, dst, in, out>>
    BY <1>0, <1>8 DEF TypeOK, CopyChunk
  <2>2. /\ \A j \in Inode : j # i => data'[j] = data[j]
        /\ \A k \in 1..Chunks : k # n => data'[i][k] = data[i][k]
        /\ data'[i][n] = data[in[p]][n]
    BY <1>0, <1>8, <2>1 DEF TypeOK, CopyChunk, Content
  <2> HIDE DEF i, n
  <2>3. \A j \in Inode : j \notin suspect /\ Sound(j) => j # i
    BY DEF Sound, i
  <2>4. \A j \in Inode : Sound(j) => Sound(j)'
    BY <2>1, <2>2, <2>3 DEF Sound, IsWhole
  <2>5. PartialsApart'
    BY <1>0, <2>1 DEF PartialsApart
  <2>6. NamesSound'
    BY <1>0, <2>1, <2>2, <2>3, <2>4 DEF NamesSound, TypeOK, Path
  <2>7. SourcesSound'
    BY <1>0, <2>1, <2>2, <2>3, <2>4 DEF SourcesSound, Writing, TypeOK
  <2>8. CopiesFaithful'
    <3> SUFFICES ASSUME NEW q \in Proc, Writing(q), partial[dst[q]] # None,
                        partial[dst[q]] \notin suspect, ~Overlaps(q), in[q] \notin suspect,
                        \A k \in 1..off[q] : data[partial[dst[q]]][k] = data[in[q]][k],
                        NEW k \in 1..off'[q]
                 PROVE  data'[partial[dst[q]]][k] = data'[in[q]][k]
      BY <1>0, <2>1 DEF CopiesFaithful, Writing, Overlaps
    <3>1. dst[q] \in Dest /\ in[q] \in Inode /\ partial[dst[q]] \in Inode
      BY <1>0 DEF TypeOK, Writing
    <3>2. in[q] # i
      BY <1>0, <2>3, <3>1 DEF SourcesSound, TypeOK
    <3>3. CASE q = p
      <4>1. partial[dst[q]] = i
        BY <1>0, <2>1, <3>3 DEF CopiesFaithful, Writing, i
      <4>2. off'[q] = n /\ off[q] \in 0..Chunks /\ n = off[q] + 1
        BY <1>0, <2>1, <3>3 DEF TypeOK, n
      <4>3. k \in 1..Chunks /\ (k # n => k \in 1..off[q])
        BY <2>1, <4>2
      <4> QED
        BY <2>1, <2>2, <3>1, <3>2, <3>3, <4>1, <4>3
    <3>4. CASE q # p
      <4>1. partial[dst[q]] # i
        BY <1>0, <2>1, <3>1, <3>4 DEF PartialsApart, Overlaps, Writing, i
      <4>2. off'[q] = off[q]
        BY <1>0, <2>1, <3>4 DEF TypeOK
      <4> QED
        BY <2>2, <3>1, <3>2, <4>1, <4>2
    <3> QED
      BY <3>3, <3>4
  <2> QED
    BY <1>0, <2>5, <2>6, <2>7, <2>8 DEF IInv
<1>9. ASSUME NEW p \in Proc, Close(p)
      PROVE  IInv'
  <2>1. PartialsApart'
    BY <1>0, <1>k, <1>9 DEF PartialsApart, TypeOK, Close, Goto, Path
  <2>2. NamesSound'
    BY <1>0, <1>k, <1>9 DEF NamesSound, Sound, IsWhole, TypeOK, Close, Goto, Path
  <2>3. SourcesSound'
    BY <1>0, <1>k, <1>9 DEF SourcesSound, Writing, Sound, IsWhole, TypeOK, Close, Goto, Path
  <2>4. CopiesFaithful'
    BY <1>0, <1>k, <1>9 DEF CopiesFaithful, Writing, Overlaps, TypeOK, Close, Goto, Path
  <2> QED
    BY <1>0, <2>1, <2>2, <2>3, <2>4 DEF IInv
<1>10. ASSUME NEW p \in Proc, Rename(p)
      PROVE  IInv'
  <2>0. Fail(p) => IInv'
    BY <1>2, <1>10 DEF Rename
  <2>1. ~Fail(p) => PartialsApart'
    BY <1>0, <1>k, <1>10 DEF PartialsApart, TypeOK, Rename, Finish, Goto, Path
  <2>2. ~Fail(p) => NamesSound'
    <3> SUFFICES ASSUME ~Fail(p)
                 PROVE  NamesSound'
      OBVIOUS
    <3> DEFINE i == partial[dst[p]]
    <3>1. /\ pc[p] = "rename" /\ dst[p] \in Dest /\ i \in Inode /\ in[p] \in Inode
          /\ dir' = [dir EXCEPT ![dst[p]] = i]
          /\ UNCHANGED suspect /\ Store(data)
          /\ out' = [out EXCEPT ![p] = None]
      BY <1>0, <1>10 DEF TypeOK, Rename, Finish
    <3>2. data'[i] = data[i]
      BY <1>0, <1>k, <3>1 DEF TypeOK, Path
    <3>3. ASSUME i \notin suspect
          PROVE  IsWhole(data[i]) /\ \A q \in Proc : out[q] # i
      <4>1. ~Overlaps(p) /\ in[p] \notin suspect /\ \A k \in 1..Chunks : data[i][k] = data[in[p]][k]
        BY <1>0, <3>1, <3>3 DEF CopiesFaithful, SourcesSound, Writing
      <4>2. data[i] \in Content /\ data[in[p]] \in Content
        BY <1>0, <3>1 DEF TypeOK
      <4>3. data[i] = data[in[p]]
        BY <4>1, <4>2 DEF Content
      <4>4. IsWhole(data[in[p]])
        BY <1>0, <3>1, <4>1 DEF SourcesSound, Sound
      <4>5. ASSUME NEW q \in Proc, out[q] = i
            PROVE  FALSE
        BY <1>0, <3>1, <4>1, <4>5 DEF PartialsApart, TypeOK, Overlaps, Writing
      <4> QED
        BY <4>3, <4>4, <4>5
    <3>4. ASSUME NEW x \in Path, dir'[x] # None
          PROVE  Sound(dir[x])'
      <4>1. CASE x = dst[p]
        BY <1>0, <3>1, <3>2, <3>3, <4>1 DEF TypeOK, Sound, IsWhole
      <4>2. CASE x # dst[p]
        BY <1>0, <1>k, <3>1, <3>4, <4>2 DEF TypeOK, NamesSound, Sound, IsWhole
      <4> QED
        BY <4>1, <4>2
    <3>5. ASSUME NEW s \in Download, dir'[s] # None
          PROVE  dir'[s] \notin suspect' /\ data'[dir'[s]] = Whole(s)
      BY <1>0, <1>k, <3>1, <3>5 DEF TypeOK, NamesSound, Path
    <3> QED
      BY <3>4, <3>5 DEF NamesSound
  <2>3. ~Fail(p) => SourcesSound'
    BY <1>0, <1>k, <1>10 DEF SourcesSound, Writing, Sound, IsWhole, TypeOK, Rename, Finish, Goto, Path
  <2>4. ~Fail(p) => CopiesFaithful'
    BY <1>0, <1>k, <1>10 DEF CopiesFaithful, Writing, Overlaps, TypeOK, Rename, Finish, Goto, Path
  <2> QED
    BY <1>0, <2>0, <2>1, <2>2, <2>3, <2>4 DEF IInv
<1>11. ASSUME NEW p \in Proc, Return(p)
      PROVE  IInv'
  <2>1. PartialsApart'
    BY <1>0, <1>k, <1>11 DEF PartialsApart, TypeOK, Return, Goto, files, fds
  <2>2. NamesSound'
    BY <1>0, <1>k, <1>11 DEF NamesSound, Sound, IsWhole, TypeOK, Return, Goto, files, fds
  <2>3. SourcesSound'
    BY <1>0, <1>k, <1>11 DEF SourcesSound, Writing, Sound, IsWhole, TypeOK, Return, Goto, files, fds
  <2>4. CopiesFaithful'
    BY <1>0, <1>k, <1>11 DEF CopiesFaithful, Writing, Overlaps, TypeOK, Return, Goto, files, fds
  <2> QED
    BY <1>0, <2>1, <2>2, <2>3, <2>4 DEF IInv
<1>12. ASSUME NEW p \in Proc, Fault(p)
      PROVE  IInv'
  <2>1. PartialsApart'
    BY <1>0, <1>k, <1>12 DEF PartialsApart, TypeOK, Fault, Active, Mishap, Finish, Goto, fds, Path
  <2>2. NamesSound'
    BY <1>0, <1>k, <1>12 DEF NamesSound, Sound, IsWhole, TypeOK, Fault, Active, Mishap, Finish, Goto, fds, Path
  <2>3. SourcesSound'
    BY <1>0, <1>k, <1>12 DEF SourcesSound, Writing, Sound, IsWhole, TypeOK, Fault, Active, Mishap, Finish, Goto, fds, Path
  <2>4. CopiesFaithful'
    BY <1>0, <1>k, <1>12 DEF CopiesFaithful, Writing, Overlaps, TypeOK, Fault, Active, Mishap, Finish, Goto, fds, Path
  <2> QED
    BY <1>0, <2>1, <2>2, <2>3, <2>4 DEF IInv
<1>13. CASE Crash
  <2>1. PartialsApart'
    BY <1>0, <1>k, <1>13 DEF PartialsApart, TypeOK, Crash, Mishap, Path
  <2>2. NamesSound'
    BY <1>0, <1>k, <1>13 DEF NamesSound, Sound, IsWhole, TypeOK, Crash, Mishap, Path
  <2>3. SourcesSound'
    BY <1>0, <1>k, <1>13 DEF SourcesSound, Writing, Sound, IsWhole, TypeOK, Crash, Mishap, Path
  <2>4. CopiesFaithful'
    BY <1>0, <1>k, <1>13 DEF CopiesFaithful, Writing, Overlaps, TypeOK, Crash, Mishap, Path
  <2> QED
    BY <1>0, <2>1, <2>2, <2>3, <2>4 DEF IInv
<1>14. ASSUME NEW s \in Download, Arrive(s)
       PROVE  IInv'
  <2>1. PICK f \in Inode : f = Fresh /\ f \notin InUse
    BY <1>14, FreshInode DEF Arrive
  <2>2. /\ dir' = [dir EXCEPT ![s] = f]
        /\ suspect' = suspect \ {f}
        /\ data' = [data EXCEPT ![f] = Whole(s)]
        /\ UNCHANGED <<partial, pc, src, dst, in, out, off>>
    BY <1>14, <2>1 DEF Arrive, fds
  <2>3. /\ \A x \in Path : dir[x] # f
        /\ \A d \in Dest : partial[d] # f
        /\ \A p \in Proc : in[p] # f /\ out[p] # f
    BY <2>1 DEF InUse
  <2>4. /\ \A i \in Inode : i # f => data'[i] = data[i]
        /\ data'[f] = Whole(s)
    BY <1>0, <2>1, <2>2 DEF TypeOK
  <2>5. \A i \in Inode : i # f /\ Sound(i) => Sound(i)'
    BY <2>2, <2>4 DEF Sound, IsWhole
  <2>6. Sound(f)'
    BY <2>2, <2>3, <2>4 DEF Sound, IsWhole
  <2>7. PartialsApart'
    BY <1>0, <2>2, <2>3 DEF PartialsApart, TypeOK
  <2>8. NamesSound'
    BY <1>0, <2>1, <2>2, <2>3, <2>4, <2>5, <2>6 DEF NamesSound, TypeOK, Path
  <2>9. SourcesSound'
    BY <1>0, <2>2, <2>3, <2>4, <2>5 DEF SourcesSound, Writing, TypeOK
  <2>10. CopiesFaithful'
    BY <1>0, <2>2, <2>3, <2>4 DEF CopiesFaithful, Writing, Overlaps, TypeOK
  <2> QED
    BY <1>0, <2>7, <2>8, <2>9, <2>10 DEF IInv
<1>15. ASSUME NEW s \in Download, Vanish(s)
       PROVE  IInv'
  <2>1. PartialsApart'
    BY <1>0, <1>k, <1>15 DEF PartialsApart, TypeOK, Vanish, fds, Path
  <2>2. NamesSound'
    BY <1>0, <1>k, <1>15 DEF NamesSound, Sound, IsWhole, TypeOK, Vanish, fds, Path
  <2>3. SourcesSound'
    BY <1>0, <1>k, <1>15 DEF SourcesSound, Writing, Sound, IsWhole, TypeOK, Vanish, fds, Path
  <2>4. CopiesFaithful'
    BY <1>0, <1>k, <1>15 DEF CopiesFaithful, Writing, Overlaps, TypeOK, Vanish, fds, Path
  <2> QED
    BY <1>0, <2>1, <2>2, <2>3, <2>4 DEF IInv
<1>16. CASE UNCHANGED vars
  BY <1>0, <1>16 DEF IInv, PartialsApart, NamesSound, SourcesSound, CopiesFaithful, Sound,
     IsWhole, Writing, Overlaps, TypeOK, vars
<1> QED
  BY <1>1, <1>3, <1>4, <1>5, <1>6, <1>7, <1>8, <1>9, <1>10, <1>11, <1>12,
     <1>13, <1>14, <1>15, <1>16 DEF Next, ImportStep, Downloads

(* The invariant behind the results below: partial files are apart from all *)
(* that is named or read, names and sources are sound, and a copy nobody    *)
(* disturbed is faithful so far.                                            *)
THEOREM Inductive == Spec => []IInv
<1> QED
  BY IInvInit, IInvNext, PTL DEF Spec

-----------------------------------------------------------------------------
(* No interleaving of imports with crashes and I/O errors changes a byte   *)
(* of a finished download.                                                 *)
THEOREM DownloadsStayIntact == Spec => []DownloadsIntact
<1>1. IInv => DownloadsIntact
  BY DEF IInv, NamesSound, DownloadsIntact
<1> QED
  BY <1>1, Inductive, PTL

(* Only two copies to one destination that overlap in time can leave a     *)
(* library file that is not one whole download.                            *)
THEOREM OnlyOverlapTears == Spec => []TornOnlyByOverlap
<1>1. IInv => TornOnlyByOverlap
  BY DEF IInv, NamesSound, Sound, TornOnlyByOverlap, Path
<1> QED
  BY <1>1, Inductive, PTL

(* A partial file without a writer is the trace of a fault or of a crash.  *)
THEOREM LeftoversNeedMishap == Spec => []NoLeftovers
<1>1. Init => NoLeftovers
  BY DEF Init, NoLeftovers
<1>2. TypeOK /\ TypeOK' /\ NoLeftovers /\ [Next]_vars => NoLeftovers'
  <2> SUFFICES ASSUME TypeOK, TypeOK', NoLeftovers, [Next]_vars, mishaps' = 0,
                      NEW d \in Dest, partial'[d] # None
               PROVE  \E p \in Proc : Writing(p)' /\ dst'[p] = d
    BY DEF NoLeftovers
  <2> USE DEF TypeOK, NoLeftovers, Writing
  <2>1. ASSUME NEW p \in Proc, NEW s \in Path, NEW e \in Dest, Begin(p, s, e)
        PROVE  \E q \in Proc : Writing(q)' /\ dst'[q] = d
    BY <2>1 DEF Begin, Goto, files
  <2>2. ASSUME NEW p \in Proc, ImportStep(p), ~Create(p), ~Rename(p)
        PROVE  \E q \in Proc : Writing(q)' /\ dst'[q] = d
    BY <2>2 DEF ImportStep, Prepare, Remove, Link, Open, CopyChunk, Close, Fail, Finish, Goto, files
  <2>3. ASSUME NEW p \in Proc, Create(p)
        PROVE  \E q \in Proc : Writing(q)' /\ dst'[q] = d
    BY <2>3 DEF Create, Goto
  <2>4. ASSUME NEW p \in Proc, Rename(p)
        PROVE  \E q \in Proc : Writing(q)' /\ dst'[q] = d
    BY <2>4 DEF Rename, Fail, Finish, Goto
  <2>5. ASSUME NEW p \in Proc, Return(p)
        PROVE  \E q \in Proc : Writing(q)' /\ dst'[q] = d
    BY <2>5 DEF Return, Goto, files
  <2>6. ASSUME Mishap
        PROVE  FALSE
    BY <2>6 DEF Mishap
  <2>7. ASSUME NEW s \in Download, Arrive(s)
        PROVE  \E q \in Proc : Writing(q)' /\ dst'[q] = d
    BY <2>7 DEF Arrive
  <2>8. CASE UNCHANGED vars
    BY <2>8 DEF vars
  <2> QED
    BY <2>1, <2>2, <2>3, <2>4, <2>5, <2>6, <2>7, <2>8 DEF Next, Fault, Crash, Downloads, Vanish
<1> QED
  BY <1>1, <1>2, TypeCorrect, PTL DEF Spec

(* Only Link and Rename report success.                                    *)
LEMMA SuccessSteps ==
  ASSUME IInv, [Next]_vars, NEW p \in Proc, pc[p] # "ok", pc'[p] = "ok"
  PROVE  Link(p) \/ Rename(p)
<1> USE ConstantsAssumption
<1>0. pc \in [Proc -> Step]
  BY DEF IInv, TypeOK
<1>1. ASSUME NEW q \in Proc, NEW s \in Path, NEW d \in Dest, Begin(q, s, d)
      PROVE  FALSE
  BY <1>0, <1>1 DEF Begin, Goto
<1>2. ASSUME NEW q \in Proc, ImportStep(q), ~Link(q), ~Rename(q)
      PROVE  FALSE
  BY <1>0, <1>2 DEF ImportStep, Prepare, Remove, Open, Create, CopyChunk, Close,
                    Fail, Finish, Goto
<1>3. ASSUME NEW q \in Proc, Return(q) \/ Fault(q)
      PROVE  FALSE
  BY <1>0, <1>3 DEF Return, Fault, Finish, Goto
<1>4. ASSUME NEW q \in Proc, Link(q) \/ Rename(q)
      PROVE  q = p
  BY <1>0, <1>4 DEF Link, Rename, Fail, Finish, Goto
<1>5. ASSUME Crash \/ Downloads \/ UNCHANGED vars
      PROVE  FALSE
  BY <1>0, <1>5 DEF Crash, Downloads, Arrive, Vanish, vars
<1> QED
  BY <1>1, <1>2, <1>3, <1>4, <1>5 DEF Next

(* The step in which a call reports success puts the bytes of its source   *)
(* under the destination.                                                  *)
LEMMA PlacesSource ==
  ASSUME IInv, IInv', [Next]_vars, NEW p \in Proc, pc[p] # "ok", pc'[p] = "ok"
  PROVE  Placed(p)
<1> USE ConstantsAssumption
<1>1. Link(p) \/ Rename(p)
  BY SuccessSteps
<1>2. dir'[dst[p]] # None
  BY <1>1 DEF IInv, TypeOK, Link, Rename, Fail, Finish, Goto, Path
<1>3. dst[p] \in Dest /\ dst'[p] = dst[p] /\ src'[p] = src[p]
  BY <1>1 DEF IInv, TypeOK, Link, Rename
<1>4. dir'[dst[p]] \notin suspect' => IsWhole(data'[dir'[dst[p]]])
  BY <1>2, <1>3 DEF IInv, NamesSound, Sound, IsWhole, Path
<1>5. CASE Link(p) /\ src[p] \in Download
  BY <1>2, <1>5 DEF IInv, TypeOK, NamesSound, Link, Fail, Finish, Goto, Placed, Path
<1>6. CASE Rename(p) /\ src[p] \in Download
  <2> DEFINE i == partial[dst[p]]
  <2>1. /\ pc[p] = "rename" /\ i \in Inode /\ in[p] \in Inode
        /\ dir'[dst[p]] = i /\ UNCHANGED suspect /\ Store(data)
    BY <1>2, <1>3, <1>6 DEF IInv, TypeOK, Rename, Fail, Finish, Goto, Path
  <2>2. data'[i] = data[i]
    <3>1. i \in InUse'
      BY <1>3, <2>1, InUseAfter DEF Path
    <3> QED
      BY <2>1, <3>1, StoreKeeps
  <2>3. data[in[p]] = Whole(src[p])
    BY <1>6, <2>1 DEF IInv, SourcesSound
  <2>4. i \notin suspect => \A k \in 1..Chunks : data[i][k] = data[in[p]][k]
    BY <2>1 DEF IInv, CopiesFaithful, SourcesSound, Writing
  <2>5. data[i] \in Content /\ data[in[p]] \in Content
    BY <2>1 DEF IInv, TypeOK
  <2>6. i \notin suspect => data[i] = data[in[p]]
    BY <2>4, <2>5 DEF Content
  <2> QED
    BY <1>2, <1>6, <2>1, <2>2, <2>3, <2>6 DEF Placed
<1> QED
  BY <1>1, <1>2, <1>3, <1>4, <1>5, <1>6 DEF Placed

(* A library file that is not torn has been there, with the bytes it has,  *)
(* or a call has just reported success for it.                             *)
LEMMA KeptOrPlaced ==
  ASSUME IInv, [Next]_vars, NEW d \in Dest, dir'[d] # None, dir'[d] \notin suspect'
  PROVE  \/ dir'[d] = dir[d] /\ dir[d] \notin suspect /\ data'[dir[d]] = data[dir[d]]
         \/ \E p \in Proc : pc[p] # "ok" /\ pc'[p] = "ok" /\ dst[p] = d
<1> USE ConstantsAssumption
<1> DEFINE Goal == \/ dir'[d] = dir[d] /\ dir[d] \notin suspect /\ data'[dir[d]] = data[dir[d]]
                   \/ \E p \in Proc : pc[p] # "ok" /\ pc'[p] = "ok" /\ dst[p] = d
<1>0. TypeOK /\ PartialsApart /\ NamesSound /\ d \in Path /\ d \notin Download
  BY DEF IInv, Path
<1>k. dir'[d] = dir[d] /\ Store(data) => data'[dir[d]] = data[dir[d]]
  BY <1>0, InUseAfter, StoreKeeps DEF TypeOK
<1>1. ASSUME UNCHANGED <<dir, suspect, data>>
      PROVE  Goal
  BY <1>1
<1>2. ASSUME NEW p \in Proc, Fail(p)
      PROVE  Goal
  BY <1>k, <1>2 DEF Fail
<1>3. ASSUME NEW p \in Proc, Remove(p)
      PROVE  Goal
  BY <1>0, <1>k, <1>2, <1>3 DEF Remove, TypeOK
<1>4. ASSUME NEW p \in Proc, Link(p)
      PROVE  Goal
  BY <1>0, <1>2, <1>4 DEF Link, Goto, files, TypeOK
<1>5. ASSUME NEW p \in Proc, Create(p)
      PROVE  Goal
  <2> DEFINE t == CreateTarget(p)
  <2>1. /\ t \in Inode /\ dst[p] \in Dest
        /\ UNCHANGED dir /\ Store([data EXCEPT ![t] = Blank])
        /\ \A i \in Inode : i # t => (i \in suspect' <=> i \in suspect)
    BY <1>0, <1>5, FreshInode DEF TypeOK, Create, CreateTarget
  <2>2. dir[d] # t
    <3>1. CASE partial[dst[p]] # None
      BY <1>0, <2>1, <3>1 DEF PartialsApart, CreateTarget
    <3>2. CASE partial[dst[p]] = None
      <4>1. t \notin InUse
        BY <1>5, <3>2, FreshInode DEF Create, CreateTarget
      <4> HIDE DEF t
      <4> QED
        BY <1>0, <4>1 DEF InUse
    <3> QED
      BY <3>1, <3>2
  <2> HIDE DEF t
  <2>3. data'[dir[d]] = data[dir[d]]
    <3>1. dir[d] \in Inode /\ dir[d] \in InUse'
      BY <1>0, <2>1, InUseAfter DEF TypeOK
    <3> QED
      BY <1>0, <2>1, <2>2, <3>1 DEF Store, TypeOK
  <2> QED
    BY <1>0, <2>1, <2>2, <2>3 DEF TypeOK
<1>6. ASSUME NEW p \in Proc, CopyChunk(p)
      PROVE  Goal
  <2>1. dir[d] # out[p]
    BY <1>0, <1>6 DEF CopyChunk, NamesSound, Sound
  <2> QED
    BY <1>0, <1>6, <2>1 DEF CopyChunk, TypeOK
<1>7. ASSUME NEW p \in Proc, Close(p) \/ Fault(p)
      PROVE  Goal
  BY <1>k, <1>7 DEF Close, Fault
<1>8. ASSUME NEW p \in Proc, Rename(p)
      PROVE  Goal
  BY <1>0, <1>k, <1>2, <1>8 DEF Rename, Finish, Goto, TypeOK
<1>9. CASE Crash
  BY <1>k, <1>9 DEF Crash
<1>10. ASSUME NEW s \in Download, Arrive(s)
       PROVE  Goal
  <2>1. Fresh \in Inode /\ dir[d] # Fresh
    BY <1>0, <1>10, FreshInode DEF Arrive, InUse
  <2> QED
    BY <1>0, <1>10, <2>1 DEF Arrive, TypeOK
<1>11. ASSUME NEW s \in Download, Vanish(s)
       PROVE  Goal
  BY <1>0, <1>k, <1>11 DEF Vanish, TypeOK
<1>12. ASSUME \/ \E p \in Proc : \/ \E s \in Path, e \in Dest : Begin(p, s, e)
                                \/ Prepare(p) \/ Return(p)
              \/ UNCHANGED vars
       PROVE  Goal
  BY <1>1, <1>12 DEF Begin, Prepare, Return, files, vars
<1>13. ASSUME NEW p \in Proc, Open(p)
       PROVE  Goal
  BY <1>1, <1>2, <1>13 DEF Open, files
<1> QED
  BY <1>3, <1>4, <1>5, <1>6, <1>7, <1>8, <1>9, <1>10, <1>11, <1>12, <1>13 DEF Next, ImportStep, Downloads

(* A file that is named or read keeps its bytes and stays trusted: copies   *)
(* write to partial files, and those have no other name and no reader.     *)
LEMMA NamedKept ==
  ASSUME IInv, [Next]_vars, NEW i \in Inode, i \in InUse, i \in InUse', i \notin suspect',
         Sound(i), \A d \in Dest : partial[d] # i
  PROVE  i \notin suspect /\ data'[i] = data[i]
<1> USE ConstantsAssumption
<1> DEFINE Goal == i \notin suspect /\ data'[i] = data[i]
<1>0. TypeOK /\ i \in Inode
  BY DEF IInv
<1>k. UNCHANGED suspect /\ Store(data) => Goal
  BY DEF Store
<1>1. ASSUME UNCHANGED <<suspect, data>>
      PROVE  Goal
  BY <1>1
<1>2. ASSUME NEW p \in Proc, Fail(p)
      PROVE  Goal
  BY <1>k, <1>2 DEF Fail
<1>3. ASSUME NEW p \in Proc, Prepare(p) \/ Remove(p) \/ Link(p) \/ Open(p)
      PROVE  Goal
  BY <1>k, <1>1, <1>2, <1>3 DEF Prepare, Remove, Link, Open, files
<1>4. ASSUME NEW p \in Proc, Create(p)
      PROVE  Goal
  <2> DEFINE t == CreateTarget(p)
  <2>1. /\ t \in Inode /\ Store([data EXCEPT ![t] = Blank])
        /\ i # t => (i \in suspect' <=> i \in suspect)
    BY <1>0, <1>4, FreshInode DEF TypeOK, Create, CreateTarget
  <2>2. i # t
    BY <1>0, <1>4, FreshInode DEF TypeOK, Create, CreateTarget
  <2> HIDE DEF t
  <2> QED
    BY <1>0, <2>1, <2>2 DEF Store, TypeOK
<1>5. ASSUME NEW p \in Proc, CopyChunk(p)
      PROVE  Goal
  <2>1. i \notin suspect /\ out[p] # i /\ data' = [data EXCEPT ![out[p]][off[p] + 1] = data[in[p]][off[p] + 1]]
    BY <1>5 DEF CopyChunk, Sound
  <2> QED
    BY <1>0, <2>1 DEF TypeOK
<1>6. ASSUME NEW p \in Proc, Close(p) \/ Rename(p) \/ Fault(p)
      PROVE  Goal
  BY <1>k, <1>2, <1>6 DEF Close, Rename, Fault
<1>7. CASE Crash
  BY <1>k, <1>7 DEF Crash
<1>8. ASSUME NEW s \in Download, Arrive(s)
      PROVE  Goal
  <2>1. Fresh \in Inode /\ i # Fresh
    BY <1>8, FreshInode DEF Arrive
  <2> QED
    BY <1>0, <1>8, <2>1 DEF Arrive, TypeOK
<1>9. ASSUME NEW s \in Download, Vanish(s)
      PROVE  Goal
  BY <1>k, <1>9 DEF Vanish
<1>10. ASSUME NEW p \in Proc, Return(p) \/ \E s \in Path, d \in Dest : Begin(p, s, d)
       PROVE  Goal
  BY <1>1, <1>10 DEF Return, Begin, files
<1>11. UNCHANGED vars => Goal
  BY <1>1 DEF vars
<1> QED
  BY <1>3, <1>4, <1>5, <1>6, <1>7, <1>8, <1>9, <1>10, <1>11 DEF Next, ImportStep, Downloads

(* The file a copy reads has been open, with the bytes it has, or has just  *)
(* been opened under the name of its source.                               *)
LEMMA SourceKept ==
  ASSUME IInv, IInv', [Next]_vars, NEW p \in Proc, in'[p] # None, in'[p] \notin suspect'
  PROVE  \/ /\ in'[p] = in[p] /\ dst'[p] = dst[p]
            /\ in[p] \notin suspect /\ data'[in[p]] = data[in[p]]
         \/ /\ pc[p] = "open" /\ src[p] \in Path /\ dir[src[p]] # None
            /\ in'[p] = dir[src[p]] /\ dst'[p] = dst[p] /\ UNCHANGED files
<1>0. TypeOK /\ TypeOK' /\ PartialsApart /\ SourcesSound
  BY DEF IInv
<1>1. CASE Open(p)
  BY <1>0, <1>1 DEF TypeOK, Open, Fail, Finish
<1>2. CASE ~Open(p)
  <2>1. in'[p] = in[p] /\ dst'[p] = dst[p]
    <3>1. ASSUME NEW q \in Proc, NEW s \in Path, NEW d \in Dest, Begin(q, s, d)
          PROVE  in'[p] = in[p] /\ dst'[p] = dst[p]
      BY <1>0, <3>1 DEF TypeOK, Begin, fds
    <3>2. ASSUME NEW q \in Proc, ImportStep(q)
          PROVE  in'[p] = in[p] /\ dst'[p] = dst[p]
      BY <1>0, <1>2, <3>2 DEF TypeOK, ImportStep, Prepare, Remove, Link, Open, Create, CopyChunk,
         Close, Rename, Fail, Finish, fds
    <3>3. ASSUME NEW q \in Proc, Return(q) \/ Fault(q)
          PROVE  in'[p] = in[p] /\ dst'[p] = dst[p]
      BY <1>0, <3>3 DEF TypeOK, Return, Fault, Finish, fds
    <3>4. CASE Downloads \/ UNCHANGED vars
      BY <3>4 DEF Downloads, Arrive, Vanish, fds, vars
    <3>5. ~Crash
      BY DEF Crash
    <3> QED
      BY <3>1, <3>2, <3>3, <3>4, <3>5 DEF Next
  <2>2. /\ in[p] \in Inode /\ in[p] \in InUse /\ in[p] \in InUse'
        /\ Sound(in[p]) /\ \A d \in Dest : partial[d] # in[p]
    BY <1>0, <2>1 DEF TypeOK, PartialsApart, SourcesSound, InUse
  <2> QED
    BY <2>1, <2>2, NamedKept
<1> QED
  BY <1>1, <1>2

(* A call that reports success has placed what its source held, by a link,  *)
(* or what the file held that it opened.                                   *)
LEMMA SuccessCopies ==
  ASSUME IInv, IInv', [Next]_vars, NEW p \in Proc, pc[p] # "ok", pc'[p] = "ok",
         dir'[dst[p]] \notin suspect'
  PROVE  \E i \in Inode : /\ \/ src[p] \in Path /\ i = dir[src[p]]
                             \/ i = in[p]
                          /\ i \notin suspect
                          /\ data'[dir'[dst[p]]] = data[i]
<1> USE ConstantsAssumption
<1>1. Link(p) \/ Rename(p)
  BY SuccessSteps
<1>2. dst[p] \in Dest /\ src[p] \in Path
  BY <1>1 DEF IInv, TypeOK, Link, Rename
<1>3. CASE Link(p)
  <2>1. /\ dir[src[p]] \in Inode /\ dir' = [dir EXCEPT ![dst[p]] = dir[src[p]]]
        /\ UNCHANGED <<data, suspect>>
    BY <1>2, <1>3 DEF IInv, TypeOK, Link, Fail, Finish, Goto
  <2>2. dir'[dst[p]] = dir[src[p]]
    BY <1>2, <2>1 DEF IInv, TypeOK, Path
  <2> QED
    BY <1>2, <2>1, <2>2
<1>4. CASE Rename(p)
  <2> DEFINE i == partial[dst[p]]
  <2>1. /\ pc[p] = "rename" /\ i \in Inode /\ in[p] \in Inode
        /\ dir'[dst[p]] = i /\ UNCHANGED suspect /\ Store(data)
    BY <1>2, <1>4 DEF IInv, TypeOK, Rename, Fail, Finish, Goto, Path
  <2>2. data'[i] = data[i]
    BY <1>2, <2>1, InUseAfter, StoreKeeps DEF Path
  <2>3. in[p] \notin suspect /\ \A k \in 1..Chunks : data[i][k] = data[in[p]][k]
    BY <2>1 DEF IInv, CopiesFaithful, SourcesSound, Writing
  <2>4. data[i] \in Content /\ data[in[p]] \in Content
    BY <2>1 DEF IInv, TypeOK
  <2> QED
    BY <2>1, <2>2, <2>3, <2>4 DEF Content
<1> QED
  BY <1>1, <1>3, <1>4

(* Import reports success exactly when it has put the bytes of its source  *)
(* under the destination.                                                  *)
THEOREM SuccessIsPlacement == Spec => SuccessPlacesSource
<1> DEFINE Honest == \A p \in Proc : pc[p] # "ok" /\ pc'[p] = "ok" => Placed(p)
<1>1. IInv /\ IInv' /\ [Next]_vars => Honest
  BY PlacesSource
<1> QED
  BY <1>1, Inductive, PTL DEF Spec, SuccessPlacesSource

-----------------------------------------------------------------------------
(* While no copies have overlapped, every library file is one download.    *)
LEMMA UntornWhole == IInv /\ suspect = {} => DestWhole
BY DEF IInv, NamesSound, Sound, DestWhole, Path

(* Only Create and the arrival of a download change what is suspect.       *)
LEMMA SuspectChanges ==
  ASSUME [Next]_vars, suspect' # suspect
  PROVE  \/ \E p \in Proc : Create(p)
         \/ \E s \in Download : Arrive(s)
BY DEF Next, ImportStep, Begin, Prepare, Remove, Link, Open, CopyChunk, Close, Rename,
   Return, Fault, Crash, Downloads, Vanish, Fail, files, vars

(* Requests that come one after the other never leave a torn file, whatever *)
(* faults and crashes they meet: importer_torn needs two handlers.          *)
THEOREM OneHandlerWhole ==
  ASSUME \A p, q \in Proc : p = q
  PROVE  Spec => []DestWhole
<1> DEFINE Untorn == suspect = {}
<1>1. Init => Untorn
  BY DEF Init
<1>2. Untorn /\ [Next]_vars => Untorn'
  <2> SUFFICES ASSUME suspect = {}, [Next]_vars
               PROVE  suspect' = {}
    OBVIOUS
  <2>1. ASSUME NEW p \in Proc, Create(p)
        PROVE  suspect' = {}
    BY <2>1 DEF Create, Overlaps
  <2>2. ASSUME NEW s \in Download, Arrive(s)
        PROVE  suspect' = {}
    BY <2>2 DEF Arrive
  <2> QED
    BY <2>1, <2>2, SuspectChanges
<1>3. IInv /\ Untorn => DestWhole
  BY UntornWhole
<1> QED
  BY <1>1, <1>2, <1>3, Inductive, PTL DEF Spec

(* Nor does a library on the filesystem of the downloads, where every      *)
(* import is a hard link (importer.go:112-118), for any number of handlers.*)
THEOREM OneDeviceWhole ==
  ASSUME \A x \in Path, d \in Dest : Device[x] = Device[d]
  PROVE  Spec => []DestWhole
<1> DEFINE Linked == suspect = {} /\ \A p \in Proc : pc[p] \notin {"open", "create"}
<1>1. Init => Linked
  BY DEF Init
<1>2. TypeOK /\ Linked /\ [Next]_vars => Linked'
  <2> SUFFICES ASSUME TypeOK, Linked, [Next]_vars
               PROVE  Linked'
    OBVIOUS
  <2>0. ASSUME NEW p \in Proc, Create(p) \/ Open(p)
        PROVE  FALSE
    BY <2>0 DEF Create, Open
  <2>1. ASSUME NEW s \in Download, Arrive(s)
        PROVE  suspect' = {}
    BY <2>1 DEF Arrive
  <2>2. suspect' = {}
    BY <2>0, <2>1, SuspectChanges
  <2>3. ASSUME NEW p \in Proc, NEW q \in Proc, Link(q)
        PROVE  pc'[p] \notin {"open", "create"}
    <3>1. Device[src[q]] = Device[dst[q]]
      BY <2>3 DEF TypeOK, Link
    <3> QED
      BY <2>3, <3>1 DEF TypeOK, Link, Fail, Finish, Goto
  <2>4. ASSUME NEW p \in Proc, NEW q \in Proc, ImportStep(q)
        PROVE  pc'[p] \notin {"open", "create"}
    BY <2>0, <2>3, <2>4 DEF TypeOK, ImportStep, Prepare, Remove, CopyChunk, Close, Rename,
       Fail, Finish, Goto
  <2>5. ASSUME NEW p \in Proc, NEW q \in Proc,
               Fault(q) \/ Return(q) \/ \E s \in Path, d \in Dest : Begin(q, s, d)
        PROVE  pc'[p] \notin {"open", "create"}
    BY <2>5 DEF TypeOK, Begin, Return, Fault, Finish, Goto
  <2>6. ASSUME NEW p \in Proc, Crash \/ Downloads \/ UNCHANGED vars
        PROVE  pc'[p] \notin {"open", "create"}
    BY <2>6 DEF Crash, Downloads, Arrive, Vanish, vars
  <2> QED
    BY <2>2, <2>4, <2>5, <2>6 DEF Next
<1>3. IInv /\ Linked => TypeOK /\ DestWhole
  BY UntornWhole DEF IInv
<1> QED
  BY <1>1, <1>2, <1>3, Inductive, TypeCorrect, PTL DEF Spec
=============================================================================
