---------------------------- MODULE Startup_proof ----------------------------
(***************************************************************************)
(* No process serves a schema older than its release, and every migration  *)
(* is committed once and in order, for any number of processes, releases   *)
(* and mishaps.  The heart is LockSound: who holds the lock knows the      *)
(* schema, and the recorded version is wrong only while it is dirty.       *)
(***************************************************************************)
EXTENDS Startup, TLAPS

(* One more migration keeps the history of migrations in order.            *)
LEMMA AppendUpTo ==
  ASSUME NEW s \in Seq(1..Latest), s = UpTo(Len(s)), Len(s) + 1 \in 1..Latest,
         Latest \in Nat
  PROVE  LET t == Append(s, Len(s) + 1)
         IN  t \in Seq(1..Latest) /\ Len(t) = Len(s) + 1 /\ t = UpTo(Len(t))
<1> DEFINE n == Len(s)
           t == Append(s, n + 1)
<1>1. n \in Nat /\ t \in Seq(1..Latest) /\ Len(t) = n + 1
  OBVIOUS
<1>2. \A k \in 1..(n + 1) : t[k] = k
  <2> SUFFICES ASSUME NEW k \in 1..(n + 1) PROVE t[k] = k
    OBVIOUS
  <2>1. CASE k = n + 1
    BY <2>1, <1>1
  <2>2. CASE k \in 1..n
    <3>1. t[k] = s[k]
      BY <2>2, <1>1
    <3>2. s[k] = k
      BY <2>2 DEF UpTo
    <3> QED BY <3>1, <3>2
  <2> QED BY <2>1, <2>2, <1>1
<1>3. t = [k \in 1..(n + 1) |-> k]
  BY <1>1, <1>2
<1> QED BY <1>1, <1>3 DEF UpTo

LEMMA UpToSeq ==
  ASSUME NEW n \in 0..Latest, Latest \in Nat
  PROVE  UpTo(n) \in Seq(1..Latest) /\ Len(UpTo(n)) = n
<1>1. UpTo(n) \in [1..n -> 1..Latest]
  BY DEF UpTo
<1>2. n \in Nat
  OBVIOUS
<1>3. UpTo(n) \in Seq(1..Latest)
  BY <1>1, <1>2
<1> QED BY <1>1, <1>2, <1>3

LEMMA InitStartup == Init => StartupInv
<1> SUFFICES ASSUME Init PROVE StartupInv
  OBVIOUS
<1> USE ProcessesAssumption
<1>1. schema \in Seq(1..Latest) /\ Len(schema) = version
  BY UpToSeq DEF Init
<1>2. TypeOK
  <2>1. next \in [Instance -> 1..(Latest + 1)]
    BY DEF Init
  <2>2. mishaps \in 0..MaxMishaps
    <3>1. mishaps = 0 /\ MaxMishaps \in Nat
      BY DEF Init
    <3> QED BY <3>1
  <2>3. phase \in [Instance -> Phase] /\ signalled \subseteq Instance
        /\ lock \in Instance \cup {None} /\ version \in 0..Latest /\ dirty \in BOOLEAN
    BY DEF Init, Phase
  <2> QED BY <1>1, <2>1, <2>2, <2>3 DEF TypeOK
<1>3. LockSound
  BY <1>1 DEF Init, LockSound, Migrating, MigratedOnce
<1> QED BY <1>2, <1>3 DEF StartupInv, NeverOutOfDate, Serving, Init

(* run's return keeps the invariant: who held the lock gives it back.      *)
LEMMA ExitKeeps ==
  ASSUME StartupInv, NEW i \in Instance, phase[i] # "down", Exit(i),
         UNCHANGED <<next, table>>, mishaps' \in 0..MaxMishaps
  PROVE  StartupInv'
<1> USE ProcessesAssumption DEF Exit, Goto, table
<1>1. TypeOK'
  BY DEF StartupInv, TypeOK, Phase
<1>2. \A j \in Instance : phase'[j] = IF j = i THEN "down" ELSE phase[j]
  BY DEF StartupInv, TypeOK
<1>3. \A j \in Instance : phase'[j] \in Migrating <=> lock' = j
  BY <1>2 DEF StartupInv, LockSound, Migrating
<1>4. LockSound'
  BY <1>2, <1>3 DEF StartupInv, LockSound, MigratedOnce
<1>5. NeverOutOfDate'
  BY <1>2 DEF StartupInv, NeverOutOfDate, Serving
<1> QED BY <1>1, <1>4, <1>5 DEF StartupInv

LEMMA NextStartup == StartupInv /\ [Next]_vars => StartupInv'
<1> USE ProcessesAssumption
<1> SUFFICES ASSUME StartupInv, [Next]_vars PROVE StartupInv'
  OBVIOUS
<1>t. TypeOK /\ LockSound /\ NeverOutOfDate
  BY DEF StartupInv
<1>0. CASE UNCHANGED vars
  BY <1>0, <1>t DEF StartupInv, vars, TypeOK, LockSound, MigratedOnce, Migrating,
     NeverOutOfDate, Serving
<1>1. CASE Next
  <2> PICK i \in Instance : Progress(i) \/ SigTerm(i) \/ Fail(i)
    BY <1>1 DEF Next
  <2>1. CASE Start(i)
    <3>1. \A j \in Instance : phase'[j] = IF j = i THEN "lock" ELSE phase[j]
      BY <2>1, <1>t DEF Start, Goto, TypeOK
    <3>2. TypeOK'
      BY <2>1, <1>t DEF Start, Goto, table, TypeOK, Phase
    <3>3. LockSound'
      BY <2>1, <3>1, <1>t DEF Start, table, LockSound, MigratedOnce, Migrating
    <3>4. NeverOutOfDate'
      BY <2>1, <3>1, <1>t DEF Start, table, NeverOutOfDate, Serving
    <3> QED BY <3>2, <3>3, <3>4 DEF StartupInv
  <2>2. CASE Lock(i)
    <3>1. \A j \in Instance : phase'[j] = IF j = i THEN "plan" ELSE phase[j]
      BY <2>2, <1>t DEF Lock, Goto, TypeOK
    <3>2. TypeOK'
      BY <2>2, <1>t DEF Lock, Goto, table, TypeOK, Phase
    <3>3. LockSound'
      BY <2>2, <3>1, <1>t DEF Lock, table, LockSound, MigratedOnce, Migrating
    <3>4. NeverOutOfDate'
      BY <2>2, <3>1, <1>t DEF Lock, table, NeverOutOfDate, Serving
    <3> QED BY <3>2, <3>3, <3>4 DEF StartupInv
  <2>3. CASE Plan(i)
    <3>0. lock = i /\ phase[i] = "plan" /\ UNCHANGED <<table, mishaps>>
      BY <2>3, <1>t DEF Plan, LockSound, Migrating
    <3>1. CASE dirty \/ version > Release[i]
      BY <2>3, <3>1, <3>0, <1>t, ExitKeeps DEF Plan, TypeOK, table
    <3>2. CASE ~dirty /\ version < Release[i]
      <4>1. /\ phase' = [phase EXCEPT ![i] = "mark"]
            /\ next' = [next EXCEPT ![i] = version + 1]
            /\ UNCHANGED <<signalled, lock>>
        BY <2>3, <3>2, <3>0, <1>t DEF Plan, Proceed, Goto, TypeOK
      <4>2. \A j \in Instance : /\ phase'[j] = IF j = i THEN "mark" ELSE phase[j]
                                /\ next'[j] = IF j = i THEN version + 1 ELSE next[j]
        BY <4>1, <1>t DEF TypeOK
      <4>3. TypeOK'
        BY <4>1, <3>0, <3>2, <1>t DEF table, TypeOK, Phase
      <4>4. LockSound'
        BY <4>1, <4>2, <3>0, <3>2, <1>t DEF table, LockSound, MigratedOnce, Migrating, TypeOK
      <4>5. NeverOutOfDate'
        BY <4>2, <3>0, <1>t DEF table, NeverOutOfDate, Serving
      <4> QED BY <4>3, <4>4, <4>5 DEF StartupInv
    <3>3. CASE ~dirty /\ version = Release[i]
      <4>1. /\ phase' = [phase EXCEPT ![i] = "connect"]
            /\ next' = [next EXCEPT ![i] = version + 1]
            /\ lock' = None
            /\ UNCHANGED signalled
        BY <2>3, <3>3, <3>0, <1>t DEF Plan, Proceed, Goto, TypeOK
      <4>2. \A j \in Instance : /\ phase'[j] = IF j = i THEN "connect" ELSE phase[j]
                                /\ next'[j] = IF j = i THEN version + 1 ELSE next[j]
        BY <4>1, <1>t DEF TypeOK
      <4>3. TypeOK'
        BY <4>1, <3>0, <3>3, <1>t DEF table, TypeOK, Phase
      <4>4. LockSound'
        BY <4>1, <4>2, <3>0, <3>3, <1>t DEF table, LockSound, MigratedOnce, Migrating, TypeOK
      <4>5. NeverOutOfDate'
        BY <4>2, <3>0, <1>t DEF table, NeverOutOfDate, Serving
      <4> QED BY <4>3, <4>4, <4>5 DEF StartupInv
    <3> QED BY <3>1, <3>2, <3>3, <1>t DEF TypeOK
  <2>4. CASE SetDirty(i)
    <3>0. lock = i /\ ~dirty /\ next[i] = version + 1 /\ next[i] <= Release[i]
          /\ Len(schema) = version
      BY <2>4, <1>t DEF SetDirty, LockSound, Migrating
    <3>1. \A j \in Instance : phase'[j] = IF j = i THEN "apply" ELSE phase[j]
      BY <2>4, <1>t DEF SetDirty, Goto, TypeOK
    <3>2. TypeOK'
      BY <2>4, <3>0, <1>t DEF SetDirty, Goto, TypeOK, Phase
    <3>3. LockSound'
      BY <2>4, <3>0, <3>1, <1>t DEF SetDirty, LockSound, MigratedOnce, Migrating, TypeOK
    <3>4. NeverOutOfDate'
      BY <2>4, <3>1, <1>t DEF SetDirty, NeverOutOfDate, Serving
    <3> QED BY <3>2, <3>3, <3>4 DEF StartupInv
  <2>5. CASE Apply(i)
    <3>0. lock = i /\ dirty /\ next[i] = version /\ Len(schema) = version - 1
          /\ next[i] <= Release[i] /\ schema = UpTo(Len(schema)) /\ version >= 1
      BY <2>5, <1>t DEF Apply, LockSound, Migrating, MigratedOnce
    <3>1. \A j \in Instance : phase'[j] = IF j = i THEN "clear" ELSE phase[j]
      BY <2>5, <1>t DEF Apply, Goto, TypeOK
    <3>2. schema' = Append(schema, Len(schema) + 1) /\ Len(schema) + 1 \in 1..Latest
      BY <2>5, <3>0, <1>t DEF Apply, TypeOK
    <3>3. schema' \in Seq(1..Latest) /\ Len(schema') = version /\ schema' = UpTo(Len(schema'))
      BY <3>0, <3>2, <1>t, AppendUpTo DEF TypeOK
    <3>4. TypeOK'
      BY <2>5, <3>3, <1>t DEF Apply, Goto, TypeOK, Phase
    <3>5. LockSound'
      <4>1. UNCHANGED <<signalled, next, lock, version, dirty, mishaps>>
        BY <2>5 DEF Apply
      <4>2. \A j \in Instance : phase'[j] \in Migrating <=> lock' = j
        BY <2>5, <3>0, <3>1, <4>1, <1>t DEF Apply, LockSound, Migrating
      <4>3. \A j \in Instance \ {i} : phase'[j] \notin Migrating
        BY <3>0, <4>1, <4>2
      <4>4. version \in Nat /\ Release[i] \in Nat
        BY <1>t DEF TypeOK
      <4>5. \A j \in Instance : phase'[j] = "connect" => Release[j] <= Len(schema')
        <5> SUFFICES ASSUME NEW j \in Instance, phase'[j] = "connect"
                     PROVE  Release[j] <= version
          BY <3>3
        <5>1. Release[j] <= Len(schema) /\ Release[j] \in Nat
          BY <3>1, <1>t DEF LockSound
        <5> QED BY <5>1, <3>0, <4>4
      <4> HIDE DEF UpTo
      <4> QED BY <3>0, <3>1, <3>3, <4>1, <4>2, <4>3, <4>4, <4>5
           DEF LockSound, MigratedOnce, Migrating
    <3>6. NeverOutOfDate'
      BY <2>5, <3>0, <3>1, <3>3, <1>t DEF Apply, NeverOutOfDate, Serving, TypeOK
    <3> QED BY <3>4, <3>5, <3>6 DEF StartupInv
  <2>6. CASE ClearDirty(i)
    <3>0. lock = i /\ dirty /\ next[i] = version /\ Len(schema) = version
          /\ next[i] <= Release[i] /\ phase[i] = "clear"
      BY <2>6, <1>t DEF ClearDirty, LockSound, Migrating
    <3>1. CASE next[i] + 1 <= Release[i]
      <4>1. /\ phase' = [phase EXCEPT ![i] = "mark"]
            /\ next' = [next EXCEPT ![i] = version + 1]
            /\ version' = version /\ dirty' = FALSE
            /\ UNCHANGED <<signalled, lock, schema, mishaps>>
        BY <2>6, <3>1, <3>0 DEF ClearDirty, Proceed, Goto
      <4>2. \A j \in Instance : /\ phase'[j] = IF j = i THEN "mark" ELSE phase[j]
                                /\ next'[j] = IF j = i THEN version + 1 ELSE next[j]
        BY <4>1, <1>t DEF TypeOK
      <4>3. TypeOK'
        <5>1. next' \in [Instance -> 1..(Latest + 1)]
          BY <4>1, <1>t DEF TypeOK
        <5>2. phase' \in [Instance -> Phase]
          BY <4>1, <1>t DEF TypeOK, Phase
        <5> QED BY <4>1, <5>1, <5>2, <1>t DEF TypeOK
      <4>4. LockSound'
        BY <4>1, <4>2, <3>0, <3>1, <1>t DEF LockSound, MigratedOnce, Migrating, TypeOK
      <4>5. NeverOutOfDate'
        BY <4>1, <4>2, <1>t DEF NeverOutOfDate, Serving
      <4> QED BY <4>3, <4>4, <4>5 DEF StartupInv
    <3>2. CASE next[i] + 1 > Release[i]
      <4>1. /\ phase' = [phase EXCEPT ![i] = "connect"]
            /\ next' = [next EXCEPT ![i] = version + 1]
            /\ version' = version /\ dirty' = FALSE
            /\ lock' = None
            /\ UNCHANGED <<signalled, schema, mishaps>>
        BY <2>6, <3>2, <3>0, <1>t DEF ClearDirty, Proceed, Goto, TypeOK
      <4>2. \A j \in Instance : /\ phase'[j] = IF j = i THEN "connect" ELSE phase[j]
                                /\ next'[j] = IF j = i THEN version + 1 ELSE next[j]
        BY <4>1, <1>t DEF TypeOK
      <4>3. TypeOK'
        <5>1. next' \in [Instance -> 1..(Latest + 1)]
          BY <4>1, <1>t DEF TypeOK
        <5>2. phase' \in [Instance -> Phase]
          BY <4>1, <1>t DEF TypeOK, Phase
        <5> QED BY <4>1, <5>1, <5>2, <1>t DEF TypeOK
      <4>4. LockSound'
        BY <4>1, <4>2, <3>0, <3>2, <1>t DEF LockSound, MigratedOnce, Migrating, TypeOK
      <4>5. NeverOutOfDate'
        BY <4>1, <4>2, <1>t DEF NeverOutOfDate, Serving
      <4> QED BY <4>3, <4>4, <4>5 DEF StartupInv
    <3> QED BY <3>1, <3>2, <1>t DEF TypeOK
  <2>7. CASE Connect(i)
    <3>1. CASE i \in signalled
      BY <2>7, <3>1, <1>t, ExitKeeps DEF Connect, TypeOK, table
    <3>2. CASE i \notin signalled
      <4>1. \A j \in Instance : phase'[j] = IF j = i THEN "serve" ELSE phase[j]
        BY <2>7, <3>2, <1>t DEF Connect, Goto, TypeOK
      <4>2. TypeOK'
        BY <2>7, <3>2, <1>t DEF Connect, Goto, table, TypeOK, Phase
      <4>3. LockSound'
        BY <2>7, <3>2, <4>1, <1>t DEF Connect, table, LockSound, MigratedOnce, Migrating
      <4>4. NeverOutOfDate'
        BY <2>7, <3>2, <4>1, <1>t DEF Connect, table, NeverOutOfDate, Serving, LockSound
      <4> QED BY <4>2, <4>3, <4>4 DEF StartupInv
    <3> QED BY <3>1, <3>2
  <2>8. CASE Shutdown(i)
    <3>1. \A j \in Instance : phase'[j] = IF j = i THEN "drain" ELSE phase[j]
      BY <2>8, <1>t DEF Shutdown, Goto, TypeOK
    <3>2. TypeOK'
      BY <2>8, <1>t DEF Shutdown, Goto, table, TypeOK, Phase
    <3>3. LockSound'
      BY <2>8, <3>1, <1>t DEF Shutdown, table, LockSound, MigratedOnce, Migrating
    <3>4. NeverOutOfDate'
      BY <2>8, <3>1, <1>t DEF Shutdown, table, NeverOutOfDate, Serving
    <3> QED BY <3>2, <3>3, <3>4 DEF StartupInv
  <2>9. CASE Drained(i)
    BY <2>9, <1>t, ExitKeeps DEF Drained, TypeOK, table
  <2>10. CASE SigTerm(i)
    <3>1. TypeOK'
      BY <2>10, <1>t DEF SigTerm, Mishap, table, TypeOK
    <3>2. LockSound' /\ NeverOutOfDate'
      BY <2>10, <1>t DEF SigTerm, table, LockSound, MigratedOnce, Migrating,
         NeverOutOfDate, Serving
    <3> QED BY <3>1, <3>2 DEF StartupInv
  <2>11. CASE Fail(i)
    <3>1. mishaps' \in 0..MaxMishaps
      BY <2>11, <1>t DEF Fail, Mishap, TypeOK
    <3> QED BY <2>11, <3>1, ExitKeeps DEF Fail
  <2> QED BY <2>1, <2>2, <2>3, <2>4, <2>5, <2>6, <2>7, <2>8, <2>9, <2>10, <2>11 DEF Progress
<1> QED BY <1>0, <1>1 DEF Next

(* The invariant of Startup holds for every value of its constants.        *)
THEOREM StartupInductive == Spec => []StartupInv
<1>1. Init => StartupInv
  BY InitStartup
<1>2. StartupInv /\ [Next]_vars => StartupInv'
  BY NextStartup
<1> QED BY <1>1, <1>2, PTL DEF Spec

(* "so the service never serves against an out-of-date schema"             *)
(* (main.go:44-45), for any number of processes and releases.              *)
THEOREM ServesCurrentSchema == Spec => []NeverOutOfDate
<1>1. StartupInv => NeverOutOfDate
  BY DEF StartupInv
<1> QED BY <1>1, StartupInductive, PTL

(* Every migration is committed once and in order (db.go:50).              *)
THEOREM MigratesOnce == Spec => []MigratedOnce
<1>1. StartupInv => MigratedOnce
  BY DEF StartupInv, LockSound
<1> QED BY <1>1, StartupInductive, PTL
=============================================================================
