---------------------------- MODULE Search_proof ----------------------------
(***************************************************************************)
(* Proofs about Search, for any finite set of indexers and any feeds.      *)
(***************************************************************************)
EXTENDS Search, FiniteSetTheorems, TLAPS

(* Appending what one more indexer found keeps the collection complete and *)
(* free of duplicates.                                                     *)
LEMMA Concatenation ==
  ASSUME NEW s \in Seq(Release), NEW t \in Seq(Release),
         IsInjective(s), IsInjective(t), Range(s) \cap Range(t) = {}
  PROVE  /\ s \o t \in Seq(Release)
         /\ Range(s \o t) = Range(s) \cup Range(t)
         /\ IsInjective(s \o t)
<1>1. /\ s \o t \in Seq(Release)
      /\ DOMAIN (s \o t) = 1..(Len(s) + Len(t))
      /\ \A k \in DOMAIN s : (s \o t)[k] = s[k]
      /\ \A k \in DOMAIN t : Len(s) + k \in DOMAIN (s \o t) /\ (s \o t)[Len(s) + k] = t[k]
      /\ DOMAIN s = 1..Len(s) /\ DOMAIN t = 1..Len(t)
      /\ Len(s) \in Nat /\ Len(t) \in Nat
  OBVIOUS
<1>2. \A k \in DOMAIN (s \o t) : k \in DOMAIN s \/ (k - Len(s) \in DOMAIN t /\ k = Len(s) + (k - Len(s)))
  BY <1>1
<1>3. Range(s \o t) = Range(s) \cup Range(t)
  <2>1. Range(s \o t) \subseteq Range(s) \cup Range(t)
    BY <1>1, <1>2 DEF Range
  <2>2. Range(s) \subseteq Range(s \o t)
    BY <1>1 DEF Range
  <2>3. Range(t) \subseteq Range(s \o t)
    <3> SUFFICES ASSUME NEW k \in DOMAIN t
                 PROVE  t[k] \in Range(s \o t)
      BY DEF Range
    <3> QED
      BY <1>1 DEF Range
  <2> QED
    BY <2>1, <2>2, <2>3
<1>4. IsInjective(s \o t)
  <2> SUFFICES ASSUME NEW i \in DOMAIN (s \o t), NEW j \in DOMAIN (s \o t),
                      (s \o t)[i] = (s \o t)[j]
               PROVE  i = j
    BY DEF IsInjective
  <2>1. CASE i \in DOMAIN s /\ j \in DOMAIN s
    BY <1>1, <2>1 DEF IsInjective
  <2>2. CASE i \in DOMAIN s /\ j - Len(s) \in DOMAIN t
    BY <1>1, <2>2 DEF Range
  <2>3. CASE i - Len(s) \in DOMAIN t /\ j \in DOMAIN s
    <3> DEFINE a == i - Len(s)
    <3>1. a \in DOMAIN t /\ i = Len(s) + a
      BY <1>1, <2>3
    <3>2. t[a] = s[j]
      BY <1>1, <2>3, <3>1
    <3> QED
      BY <2>3, <3>1, <3>2 DEF Range
  <2>4. CASE i - Len(s) \in DOMAIN t /\ j - Len(s) \in DOMAIN t
    <3> DEFINE a == i - Len(s)
               b == j - Len(s)
    <3>1. a \in DOMAIN t /\ b \in DOMAIN t /\ i = Len(s) + a /\ j = Len(s) + b
      BY <1>1, <2>4
    <3>2. t[a] = t[b]
      BY <1>1, <3>1
    <3>3. a = b
      BY <3>1, <3>2 DEF IsInjective
    <3> QED
      BY <3>1, <3>3
  <2> QED
    BY <1>2, <2>1, <2>2, <2>3, <2>4
<1> QED
  BY <1>1, <1>3, <1>4

(* Sorting neither loses nor doubles a release.                            *)
LEMMA Sorting ==
  ASSUME NEW s \in Seq(Release), IsInjective(s), NEW t \in StablySorted(s)
  PROVE  t \in Seq(Release) /\ Range(t) = Range(s) /\ IsInjective(t)
<1>1. PICK order \in Bijection(DOMAIN s, DOMAIN s) : t = [k \in DOMAIN s |-> s[order[k]]]
  BY DEF StablySorted
<1>2. /\ order \in [DOMAIN s -> DOMAIN s]
      /\ \A a, b \in DOMAIN s : order[a] = order[b] => a = b
      /\ \A k \in DOMAIN s : \E j \in DOMAIN s : order[j] = k
  BY DEF Bijection, Injection, Surjection, IsInjective
<1>3. DOMAIN t = DOMAIN s /\ \A k \in DOMAIN s : t[k] = s[order[k]]
  BY <1>1
<1>4. t \in Seq(Release)
  <2>1. Len(s) \in Nat /\ DOMAIN s = 1..Len(s) /\ \A k \in DOMAIN s : s[k] \in Release
    OBVIOUS
  <2>2. t \in [1..Len(s) -> Release]
    BY <1>1, <1>2, <2>1
  <2> QED
    BY <2>1, <2>2
<1>5. Range(t) = Range(s)
  BY <1>2, <1>3 DEF Range
<1>6. IsInjective(t)
  BY <1>2, <1>3 DEF IsInjective
<1> QED
  BY <1>4, <1>5, <1>6

(* Nothing is in an empty collection.                                      *)
LEMMA Empty == <<>> \in Seq(Release) /\ IsInjective(<<>>) /\ Range(<<>>) = {}
BY DEF IsInjective, Range

(* The feeds of two indexers share no release, and a feed has no duplicate.*)
LEMMA Feeds ==
  \A ix \in Indexer :
    /\ Offers[ix] \in Seq(Release) /\ IsInjective(Offers[ix])
    /\ \A r \in Range(Offers[ix]) : r.indexer = ix
BY SearchAssumption DEF IsInjective, Range

-----------------------------------------------------------------------------
(* The invariant holds before a search.                                    *)
LEMMA SearchInvInit == Init => SearchInv
<1> SUFFICES ASSUME Init PROVE SearchInv
  OBVIOUS
<1>1. Running = {} /\ Collected = {} /\ Range(<<>>) = {} /\ IsInjective(<<>>)
  BY DEF Init, Running, Collected, Range, IsInjective
<1>2. Counted
  BY <1>1, FS_EmptySet DEF Counted, Init
<1>3. TypeOK
  BY SearchAssumption, Empty DEF Init, TypeOK
<1>4. Exclusive
  BY SearchAssumption DEF Init, Exclusive, Critical
<1>5. Started
  BY DEF Init, Started
<1>6. Gathered
  BY <1>1 DEF Init, Gathered
<1> QED
  BY <1>2, <1>3, <1>4, <1>5, <1>6 DEF SearchInv

(* Every step of the handler, of a goroutine or of the surroundings        *)
(* preserves it.                                                           *)
LEMMA SearchInvNext == SearchInv /\ [Next]_vars => SearchInv'
<1> SUFFICES ASSUME SearchInv, [Next]_vars
             PROVE  SearchInv'
  OBVIOUS
<1>0. TypeOK /\ Counted /\ Exclusive /\ Started /\ Gathered
  BY DEF SearchInv
<1>a. IsFiniteSet(Running)
  BY SearchAssumption, FS_Subset DEF Running
<1>1. CASE Request
  <2>1. Running' = Running /\ Collected' = Collected
    BY <1>1 DEF Request, Running, Collected
  <2>2. TypeOK' /\ Exclusive'
    <3>1. Enabled \subseteq Indexer
      BY DEF Enabled
    <3> QED BY <1>0, <1>1, <3>1 DEF Request, TypeOK, Exclusive, Critical
  <2>3. Started'
    BY <1>0, <1>1 DEF Request, TypeOK, Started
  <2>4. Counted' /\ Gathered'
    BY <1>0, <1>1, <2>1 DEF Request, Counted, Gathered
  <2> QED
    BY <2>2, <2>3, <2>4 DEF SearchInv
<1>2. ASSUME NEW ix \in Indexer, Spawn(ix)
      PROVE  SearchInv'
  <2>1. worker[ix] = "none" /\ worker' = [worker EXCEPT ![ix] = "query"]
    BY <1>0, <1>2 DEF Spawn, Goto, Started
  <2>2. Running' = Running \cup {ix} /\ ix \notin Running /\ Collected' = Collected
    BY <1>0, <2>1 DEF Running, Collected, TypeOK
  <2>3. TypeOK'
    BY <1>0, <1>2, <2>1 DEF Spawn, TypeOK
  <2>4. Counted'
    BY <1>0, <1>2, <1>a, <2>2, FS_AddElement DEF Spawn, Counted
  <2>5. Exclusive'
    BY <1>0, <1>2, <2>1 DEF Spawn, Exclusive, Critical, TypeOK
  <2>6. Started'
    BY <1>0, <1>2, <2>1 DEF Spawn, Started, TypeOK
  <2>7. Gathered'
    BY <1>0, <1>2, <2>1, <2>2 DEF Spawn, Gathered, TypeOK
  <2> QED
    BY <2>3, <2>4, <2>5, <2>6, <2>7 DEF SearchInv
<1>3. CASE EnterWait \/ Wait
  <2>1. Running' = Running /\ Collected' = Collected
    BY <1>3 DEF EnterWait, Wait, Running, Collected
  <2>2. TypeOK' /\ Exclusive'
    BY <1>0, <1>3 DEF EnterWait, Wait, TypeOK, Exclusive, Critical
  <2>3. wg = 0 => Running = {}
    BY <1>0, <1>a, FS_EmptySet DEF Counted
  <2>4. Started'
    BY <1>0, <1>3, <2>1, <2>3 DEF EnterWait, Wait, TypeOK, Started
  <2>5. Counted' /\ Gathered'
    BY <1>0, <1>3, <2>1 DEF EnterWait, Wait, Counted, Gathered
  <2> QED
    BY <2>2, <2>4, <2>5 DEF SearchInv
<1>4. CASE Sort
  <2>1. Running' = Running /\ Collected' = Collected
    BY <1>4 DEF Sort, Running, Collected
  <2>2. all' \in Seq(Release) /\ Range(all') = Range(all) /\ IsInjective(all')
    BY <1>0, <1>4, Sorting DEF Sort, TypeOK, Gathered
  <2>3. TypeOK' /\ Exclusive'
    BY <1>0, <1>4, <2>2 DEF Sort, TypeOK, Exclusive, Critical
  <2>4. Started' /\ Counted'
    BY <1>0, <1>4, <2>1 DEF Sort, TypeOK, Started, Counted
  <2>5. \A jx \in Indexer : worker[jx] # "write"
    BY <1>0, <1>4 DEF Sort, Started, Running
  <2>6. Gathered'
    BY <1>0, <1>4, <2>1, <2>2, <2>5 DEF Sort, Gathered
  <2> QED
    BY <2>3, <2>4, <2>6 DEF SearchInv
<1>5. CASE Reply
  <2>1. Running = {} /\ Running' = {} /\ Collected' = {}
    BY <1>0, <1>5 DEF Reply, Running, Collected, Started
  <2>2. TypeOK'
    BY <1>0, <1>5, Empty DEF Reply, TypeOK, Started
  <2>3. Exclusive'
    BY <1>0, <1>5, <2>1 DEF Reply, Exclusive, Critical, Running
  <2>4. Started' /\ Counted'
    BY <1>0, <1>5, <2>1 DEF Reply, TypeOK, Started, Counted
  <2>5. Range(all') = {} /\ IsInjective(all')
    BY <1>5 DEF Reply, Range, IsInjective
  <2>6. Gathered'
    BY <1>5, <2>1, <2>5 DEF Reply, Gathered
  <2> QED
    BY <2>2, <2>3, <2>4, <2>6 DEF SearchInv
<1>6. ASSUME NEW ix \in Indexer, SearchIndexer(ix)
      PROVE  SearchInv'
  <2>1. worker[ix] = "query" /\ worker' = [worker EXCEPT ![ix] = "lock"]
    BY <1>6 DEF SearchIndexer, Goto
  <2>2. Running' = Running /\ Collected' = Collected /\ ix \notin Collected
    BY <1>0, <2>1 DEF Running, Collected, TypeOK
  <2>3. /\ local' \in [Indexer -> Seq(Release)]
        /\ \A jx \in Indexer : local'[jx] \in {<<>>, Offers[jx]}
        /\ \A jx \in Indexer : jx # ix => local'[jx] = local[jx]
    BY <1>0, <1>6, Feeds, Empty, ZenonT(30) DEF SearchIndexer, TypeOK, Gathered
  <2>4. TypeOK'
    BY <1>0, <1>6, <2>1, <2>3 DEF SearchIndexer, TypeOK
  <2>5. Counted' /\ Started' /\ Exclusive'
    BY <1>0, <1>6, <2>1, <2>2 DEF SearchIndexer, Counted, Started, Exclusive, Critical, TypeOK
  <2>6. Gathered'
    BY <1>0, <1>6, <2>1, <2>2, <2>3 DEF SearchIndexer, Gathered, TypeOK, Collected
  <2> QED
    BY <2>4, <2>5, <2>6 DEF SearchInv
<1>7. ASSUME NEW ix \in Indexer, Lock(ix)
      PROVE  SearchInv'
  <2>1. worker[ix] = "lock" /\ worker' = [worker EXCEPT ![ix] = "read"]
    BY <1>7 DEF Lock, Goto
  <2>2. Running' = Running /\ Collected' = Collected
    BY <1>0, <2>1 DEF Running, Collected, TypeOK
  <2>3. TypeOK'
    BY <1>0, <1>7, <2>1 DEF Lock, TypeOK, Critical
  <2>4. Exclusive'
    BY <1>0, <1>7, <2>1, SearchAssumption DEF Lock, Exclusive, Critical, TypeOK
  <2>5. Counted' /\ Started'
    BY <1>0, <1>7, <2>1, <2>2 DEF Lock, Counted, Started, TypeOK
  <2>6. Gathered'
    BY <1>0, <1>7, <2>1, <2>2 DEF Lock, Gathered, TypeOK
  <2> QED
    BY <2>3, <2>4, <2>5, <2>6 DEF SearchInv
<1>8. ASSUME NEW ix \in Indexer, Read(ix)
      PROVE  SearchInv'
  <2>1. worker[ix] = "read" /\ worker' = [worker EXCEPT ![ix] = "write"]
    BY <1>8 DEF Read, Goto
  <2>2. Running' = Running /\ Collected' = Collected
    BY <1>0, <2>1 DEF Running, Collected, TypeOK
  <2>3. TypeOK'
    BY <1>0, <1>8, <2>1 DEF Read, TypeOK, Critical
  <2>4. Exclusive'
    BY <1>0, <1>8, <2>1 DEF Read, Exclusive, Critical, TypeOK
  <2>5. Counted' /\ Started'
    BY <1>0, <1>8, <2>1, <2>2 DEF Read, Counted, Started, TypeOK
  <2>6. Gathered'
    BY <1>0, <1>8, <2>1, <2>2 DEF Read, Gathered, TypeOK
  <2> QED
    BY <2>3, <2>4, <2>5, <2>6 DEF SearchInv
<1>9. ASSUME NEW ix \in Indexer, Write(ix)
      PROVE  SearchInv'
  <2>1. worker[ix] = "write" /\ worker' = [worker EXCEPT ![ix] = "unlock"]
    BY <1>9 DEF Write, Goto
  <2>2. Running' = Running /\ Collected' = Collected \cup {ix} /\ ix \notin Collected
    BY <1>0, <2>1 DEF Running, Collected, TypeOK
  <2>3. all' = all \o local[ix] /\ local' = local
    BY <1>0, <1>9, <2>1 DEF Write, Gathered
  <2>4. local[ix] \in Seq(Release) /\ IsInjective(local[ix])
        /\ \A jx \in Indexer : \A r \in Range(local[jx]) : r.indexer = jx
    BY <1>0, Feeds, Empty DEF Gathered, TypeOK
  <2>5. Range(all) \cap Range(local[ix]) = {}
    BY <1>0, <2>2, <2>4 DEF Gathered, Collected
  <2>6. /\ all' \in Seq(Release)
        /\ Range(all') = Range(all) \cup Range(local[ix])
        /\ IsInjective(all')
    BY <1>0, <2>3, <2>4, <2>5, Concatenation DEF Gathered, TypeOK
  <2>7. base' \in [Indexer -> Seq(Release)]
    BY <1>0, <1>9 DEF Write, TypeOK
  <2>8. TypeOK'
    BY <1>0, <1>9, <2>1, <2>6, <2>7 DEF Write, TypeOK, Critical
  <2>9. Exclusive'
    BY <1>0, <1>9, <2>1 DEF Write, Exclusive, Critical, TypeOK
  <2>10. Counted' /\ Started'
    BY <1>0, <1>9, <2>1, <2>2 DEF Write, Counted, Started, TypeOK
  <2>11. \A jx \in Indexer : worker'[jx] # "write"
    BY <1>0, <2>1 DEF Exclusive, Critical, TypeOK
  <2>12. Gathered'
    BY <1>0, <2>2, <2>3, <2>6, <2>11 DEF Gathered
  <2> QED
    BY <2>8, <2>9, <2>10, <2>12 DEF SearchInv
<1>10. ASSUME NEW ix \in Indexer, Unlock(ix)
      PROVE  SearchInv'
  <2>1. worker[ix] = "unlock" /\ worker' = [worker EXCEPT ![ix] = "finish"]
    BY <1>10 DEF Unlock, Goto
  <2>2. Running' = Running /\ Collected' = Collected
    BY <1>0, <2>1 DEF Running, Collected, TypeOK
  <2>3. TypeOK'
    BY <1>0, <1>10, <2>1 DEF Unlock, TypeOK, Critical
  <2>4. Exclusive'
    BY <1>0, <1>10, <2>1, SearchAssumption DEF Unlock, Exclusive, Critical, TypeOK
  <2>5. Counted' /\ Started'
    BY <1>0, <1>10, <2>1, <2>2 DEF Unlock, Counted, Started, TypeOK
  <2>6. Gathered'
    BY <1>0, <1>10, <2>1, <2>2 DEF Unlock, Gathered, TypeOK
  <2> QED
    BY <2>3, <2>4, <2>5, <2>6 DEF SearchInv
<1>11. ASSUME NEW ix \in Indexer, Done(ix)
      PROVE  SearchInv'
  <2>1. worker[ix] = "finish" /\ worker' = [worker EXCEPT ![ix] = "done"]
    BY <1>11 DEF Done, Goto
  <2>2. Running' = Running \ {ix} /\ ix \in Running /\ Collected' = Collected
    BY <1>0, <2>1 DEF Running, Collected, TypeOK
  <2>3. wg' = Cardinality(Running') /\ wg' \in Nat
    <3>1. IsFiniteSet(Running') /\ Cardinality(Running') = Cardinality(Running) - 1
      BY <1>a, <2>2, FS_RemoveElement
    <3>2. Cardinality(Running') \in Nat
      BY <3>1, FS_CardinalityType
    <3> QED
      BY <1>0, <1>11, <3>1, <3>2 DEF Done, Counted
  <2>4. TypeOK'
    BY <1>0, <1>11, <2>1, <2>3 DEF Done, TypeOK
  <2>5. Exclusive' /\ Started' /\ Counted'
    BY <1>0, <1>11, <2>1, <2>2, <2>3 DEF Done, Exclusive, Critical, Started, Counted, TypeOK
  <2>6. Gathered'
    BY <1>0, <1>11, <2>1, <2>2 DEF Done, Gathered, TypeOK
  <2> QED
    BY <2>4, <2>5, <2>6 DEF SearchInv
<1>12. CASE Expire \/ (\E ix \in Indexer : ChangeTable(ix)) \/ UNCHANGED vars
  <2>1. UNCHANGED <<at, todo, asked, worker, local, base, all, mu, wg>>
    BY <1>12 DEF Expire, ChangeTable, CreateIndexer, UpdateIndexer, DeleteIndexer, vars
  <2>2. table' \in [Indexer -> {"absent", "on", "off"}] /\ expired' \in BOOLEAN
    BY <1>0, <1>12 DEF Expire, ChangeTable, CreateIndexer, UpdateIndexer, DeleteIndexer, Flag,
       boolOr, vars, TypeOK
  <2>3. Running' = Running /\ Collected' = Collected
    BY <2>1 DEF Running, Collected
  <2> QED
    BY <1>0, <2>1, <2>2, <2>3
       DEF SearchInv, TypeOK, Counted, Exclusive, Started, Gathered
<1> QED
  BY <1>1, <1>2, <1>3, <1>4, <1>5, <1>6, <1>7, <1>8, <1>9, <1>10, <1>11, <1>12
     DEF Next, Handler, Worker

(* The WaitGroup counts the running goroutines, the mutex lets in one, and *)
(* what they appended is what the finished ones found.                     *)
THEOREM SearchInductive == Spec => []SearchInv
<1> QED
  BY SearchInvInit, SearchInvNext, PTL DEF Spec

(* No release that an indexer returned in time is missing from the answer  *)
(* or is in it twice.                                                      *)
THEOREM AnswerIsComplete == Spec => []NothingLost
<1>1. SearchInv => NothingLost
  <2> SUFFICES ASSUME SearchInv, at \in {"sort", "reply"}
               PROVE  /\ \A ix \in asked : worker[ix] = "done"
                      /\ Range(all) = UNION {Range(local[ix]) : ix \in asked}
                      /\ IsInjective(all)
    BY DEF NothingLost
  <2>1. todo = {} /\ asked \subseteq Indexer /\ \A ix \in Indexer : worker[ix] \in {"none", "done"}
    BY DEF SearchInv, Started, Running, TypeOK
  <2>2. \A ix \in Indexer : ix \in asked <=> worker[ix] = "done"
    BY <2>1 DEF SearchInv, Started
  <2>3. Collected = asked
    BY <2>1, <2>2 DEF Collected
  <2> QED
    BY <2>1, <2>2, <2>3 DEF SearchInv, Gathered
<1> QED
  BY <1>1, SearchInductive, PTL

-----------------------------------------------------------------------------
(* "Resolution dominates, then source" (quality.go:42): a higher weight    *)
(* never goes with a lower resolution.                                     *)
LEMMA ResolutionDominates ==
  ASSUME NEW s1, NEW s2, NEW r1, NEW r2, Weight(s1, r1) >= Weight(s2, r2)
  PROVE  resolutionRank(r1) >= resolutionRank(r2)
<1>1. \A r : resolutionRank(r) \in 0..4
  BY DEF resolutionRank
<1>2. \A s : sourceRank(s) \in 0..6
  BY DEF sourceRank
<1> QED
  BY <1>1, <1>2 DEF Weight

(* Weights are numbers, and the comparison of two releases is asymmetric.  *)
LEMMA BetterFacts ==
  ASSUME NEW r \in Release, NEW s \in Release
  PROVE  /\ QualityWeight(r) \in Int /\ QualityWeight(s) \in Int
         /\ Better(r, s) => ~Better(s, r)
         /\ ~Better(s, r) => QualityWeight(r) >= QualityWeight(s)
<1>1. \A x : resolutionRank(x) \in 0..4
  BY DEF resolutionRank
<1>2. \A x : sourceRank(x) \in 0..6
  BY DEF sourceRank
<1>3. QualityWeight(r) \in Int /\ QualityWeight(s) \in Int
  BY <1>1, <1>2 DEF QualityWeight, Weight
<1>4. r.seeders \in Nat /\ s.seeders \in Nat
  BY DEF Release
<1> QED
  BY <1>3, <1>4 DEF Better

(* Type correctness: the counter of the WaitGroup is never negative, and   *)
(* what is collected are releases (search.go:51-73).                       *)
THEOREM SearchTypes == Spec => []TypeOK
BY SearchInductive, PTL DEF SearchInv

(* The answer is ranked best-first, resolution before source before        *)
(* seeders, for any feeds.                                                 *)
THEOREM AnswerIsRanked == Spec => []BestFirst
<1>1. Init => BestFirst
  BY DEF Init, BestFirst
<1>2. SearchInv /\ BestFirst /\ [Next]_vars => BestFirst'
  <2> SUFFICES ASSUME SearchInv, BestFirst, [Next]_vars, at' = "reply",
                      NEW i \in DOMAIN all', NEW j \in DOMAIN all', i < j
               PROVE  /\ ~Better(all'[j], all'[i])
                      /\ resolutionRank(all'[i].resolution) >= resolutionRank(all'[j].resolution)
    BY DEF BestFirst, Better, QualityWeight
  <2>1. CASE Sort
    <3>1. PICK f \in Bijection(DOMAIN all, DOMAIN all) :
            /\ all' = [k \in DOMAIN all |-> all[f[k]]]
            /\ \A a, b \in DOMAIN all : a < b =>
                 \/ Better(all[f[a]], all[f[b]])
                 \/ ~Better(all[f[b]], all[f[a]]) /\ f[a] < f[b]
      BY <2>1 DEF Sort, StablySorted
    <3>2. i \in DOMAIN all /\ j \in DOMAIN all /\ all'[i] = all[f[i]] /\ all'[j] = all[f[j]]
      BY <3>1
    <3>3. f[i] \in DOMAIN all /\ f[j] \in DOMAIN all
      BY <3>1, <3>2 DEF Bijection, Injection
    <3>4. all'[i] \in Release /\ all'[j] \in Release
      BY <3>2, <3>3 DEF SearchInv, TypeOK
    <3>5. ~Better(all'[j], all'[i])
      BY <3>1, <3>2, <3>4, BetterFacts
    <3>6. QualityWeight(all'[i]) >= QualityWeight(all'[j])
      BY <3>4, <3>5, BetterFacts
    <3> QED
      BY <3>5, <3>6, ResolutionDominates DEF QualityWeight
  <2>2. CASE ~Sort
    <3>1. at = "reply"
      BY <2>2 DEF Next, Handler, Worker, vars, Request, Spawn, EnterWait, SearchIndexer, Lock,
         Read, Write, Unlock, Done, Wait, Reply, Expire, ChangeTable, CreateIndexer, UpdateIndexer, DeleteIndexer
    <3>2. \A ix \in Indexer : ~Write(ix)
      BY <3>1 DEF SearchInv, Started, Running, Write
    <3>3. all' = all
      BY <2>2, <3>1, <3>2 DEF Next, Handler, Worker, vars, Request, Spawn, EnterWait,
         SearchIndexer, Lock, Read, Unlock, Done, Wait, Reply, Expire, ChangeTable, CreateIndexer, UpdateIndexer, DeleteIndexer
    <3> QED
      BY <3>1, <3>3 DEF BestFirst
  <2> QED
    BY <2>1, <2>2
<1> QED
  BY <1>1, <1>2, SearchInductive, PTL DEF Spec

-----------------------------------------------------------------------------
\* The handler waits for nobody, or some goroutine can take its next step: it
\* needs no lock, or the lock is free.
CanGoOn ==
  at = "wait" =>
    \/ wg = 0
    \/ \E ix \in Indexer :
         \/ worker[ix] \in {"query", "finish"} \cup Critical
         \/ worker[ix] = "lock" /\ mu = None

\* How far a goroutine has come.
Stage(step) ==
  CASE step = "none" -> 0
    [] step = "query" -> 1
    [] step = "lock" -> 2
    [] step = "read" -> 3
    [] step = "write" -> 4
    [] step = "unlock" -> 5
    [] step = "finish" -> 6
    [] step = "done" -> 7

Advances(ix) == Stage(worker'[ix]) = Stage(worker[ix]) + 1
Forward == at' = "idle" \/ \A ix \in Indexer : worker'[ix] = worker[ix] \/ Advances(ix)

(* The safety half of EventuallyAnswered, for any number of indexers: the  *)
(* wait for the group is never a deadlock, since whoever holds the mutex   *)
(* can go on and the group counts no goroutine that has ended; and no      *)
(* goroutine ever goes back, so that a search takes at most seven steps of *)
(* each (search.go:54-73).                                                 *)
THEOREM SearchCannotStall == Spec => []CanGoOn /\ [][Forward]_vars
<1>1. SearchInv => CanGoOn
  <2> SUFFICES ASSUME SearchInv, at = "wait", wg # 0
               PROVE  \E ix \in Indexer :
                        \/ worker[ix] \in {"query", "finish"} \cup Critical
                        \/ worker[ix] = "lock" /\ mu = None
    BY DEF CanGoOn
  <2>1. Running # {}
    BY FS_EmptySet DEF SearchInv, Counted
  <2>2. PICK ix \in Indexer : worker[ix] \notin {"none", "done"}
    BY <2>1 DEF Running
  <2>3. CASE mu = None
    BY <2>2, <2>3 DEF SearchInv, TypeOK
  <2>4. CASE mu # None
    <3>1. mu \in Indexer /\ worker[mu] \in Critical
      BY <2>4 DEF SearchInv, TypeOK, Exclusive
    <3> QED
      BY <3>1
  <2> QED
    BY <2>3, <2>4
<1>2. SearchInv /\ [Next]_vars => [Forward]_vars
  <2> SUFFICES ASSUME SearchInv, Next
               PROVE  Forward
    OBVIOUS
  <2>0. worker = [jx \in Indexer |-> worker[jx]]
    BY DEF SearchInv, TypeOK
  <2>1. ASSUME NEW ix \in Indexer, NEW step, Goto(ix, step), Stage(step) = Stage(worker[ix]) + 1
        PROVE  Forward
    BY <2>0, <2>1 DEF Goto, Forward, Advances
  <2>2. CASE worker' = worker
    BY <2>2 DEF Forward
  <2>3. CASE Reply
    BY <2>3 DEF Reply, Forward
  <2>4. ASSUME NEW ix \in Indexer, Spawn(ix)
        PROVE  Forward
    <3>1. worker[ix] = "none" /\ Goto(ix, "query")
      BY <2>4 DEF Spawn, SearchInv, Started
    <3> QED
      BY <2>1, <3>1 DEF Stage
  <2>5. ASSUME NEW ix \in Indexer, Worker(ix)
        PROVE  Forward
    <3>1. \/ worker[ix] = "query" /\ Goto(ix, "lock")
          \/ worker[ix] = "lock" /\ Goto(ix, "read")
          \/ worker[ix] = "read" /\ Goto(ix, "write")
          \/ worker[ix] = "write" /\ Goto(ix, "unlock")
          \/ worker[ix] = "unlock" /\ Goto(ix, "finish")
          \/ worker[ix] = "finish" /\ Goto(ix, "done")
      BY <2>5 DEF Worker, SearchIndexer, Lock, Read, Write, Unlock, Done
    <3>2. PICK step : Goto(ix, step) /\ Stage(step) = Stage(worker[ix]) + 1
      BY <3>1 DEF Stage
    <3> QED
      BY <2>1, <3>2
  <2> QED
    BY <2>2, <2>3, <2>4, <2>5
       DEF Next, Handler, Request, EnterWait, Wait, Sort, Expire, ChangeTable,
           CreateIndexer, UpdateIndexer, DeleteIndexer
<1> QED
  BY <1>1, <1>2, SearchInductive, PTL DEF Spec
=============================================================================
