---------------------------- MODULE Catalog_proof ----------------------------
(***************************************************************************)
(* Catalog for every number of processes, handlers, movies and faults: the *)
(* processes under the handlers behave as Startup, the answers are true of *)
(* the table, and the handlers implement MovieTable.                       *)
(***************************************************************************)
EXTENDS Catalog, TLAPS

ServerProof == INSTANCE Startup_proof

(* Startup and the module of its proofs are one specification.             *)
LEMMA SameStartup ==
  /\ ServerProof!ProcessesAssumption
  /\ ServerProof!vars = Server!vars
  /\ ServerProof!Init <=> Server!Init
  /\ ServerProof!Next <=> Server!Next
  /\ ServerProof!NeverOutOfDate <=> Server!NeverOutOfDate
  /\ ServerProof!MigratedOnce <=> Server!MigratedOnce
<1> USE DEF Server!vars, ServerProof!vars, Server!table, ServerProof!table,
    Server!UpTo, ServerProof!UpTo
<1>1. ServerProof!ProcessesAssumption
  BY ProcessesAssumption DEF ProcessesAssumption, ServerProof!ProcessesAssumption
<1>2. ServerProof!vars = Server!vars
  OBVIOUS
<1>3. ServerProof!Init <=> Server!Init
  BY DEF Server!Init, ServerProof!Init
<1>4. ServerProof!Next <=> Server!Next
  BY DEF Server!Next, ServerProof!Next, Server!Progress, ServerProof!Progress,
     Server!Start, ServerProof!Start, Server!Lock, ServerProof!Lock,
     Server!Plan, ServerProof!Plan, Server!Proceed, ServerProof!Proceed,
     Server!SetDirty, ServerProof!SetDirty, Server!Apply, ServerProof!Apply,
     Server!ClearDirty, ServerProof!ClearDirty, Server!Connect, ServerProof!Connect,
     Server!Shutdown, ServerProof!Shutdown, Server!Drained, ServerProof!Drained,
     Server!SigTerm, ServerProof!SigTerm, Server!Fail, ServerProof!Fail,
     Server!Exit, ServerProof!Exit, Server!Goto, ServerProof!Goto,
     Server!Mishap, ServerProof!Mishap
<1>5. ServerProof!NeverOutOfDate <=> Server!NeverOutOfDate
  BY DEF Server!NeverOutOfDate, ServerProof!NeverOutOfDate,
     Server!Serving, ServerProof!Serving
<1>6. ServerProof!MigratedOnce <=> Server!MigratedOnce
  BY DEF Server!MigratedOnce, ServerProof!MigratedOnce
<1> QED BY <1>1, <1>2, <1>3, <1>4, <1>5, <1>6

(* A handler leaves the processes alone.                                   *)
LEMMA StepOfServer == [Next]_vars => [Server!Next]_(Server!vars)
<1> SUFFICES ASSUME [Next]_vars PROVE Server!Next \/ UNCHANGED server
  BY DEF server, Server!vars
<1>1. CASE UNCHANGED vars
  BY <1>1 DEF vars
<1>2. CASE ServerStep
  BY <1>2 DEF ServerStep
<1>3. ASSUME NEW p \in Proc, HandlerStep(p) PROVE UNCHANGED server
  BY <1>3 DEF HandlerStep, GetMovieByTMDB, GetMovie, CreateMovie, Reply
<1>4. ASSUME NEW p \in Proc, NEW i \in Instance, NEW r \in Asked, Add(p, i, r)
      PROVE  UNCHANGED server
  BY <1>4 DEF Add
<1> QED BY <1>1, <1>2, <1>3, <1>4 DEF Next

(* The processes that run the handlers are those of Startup.               *)
THEOREM ImplementsStartup == Spec => Server!Spec
<1>1. Init => Server!Init
  BY DEF Init
<1> QED BY <1>1, StepOfServer, PTL DEF Spec, Server!Spec

(* The processes keep the invariant of Startup.                            *)
LEMMA ServerInductive ==
  /\ Init => ServerProof!StartupInv
  /\ ServerProof!StartupInv /\ [Next]_vars => ServerProof!StartupInv'
<1>1. Init => ServerProof!StartupInv
  BY SameStartup, ServerProof!InitStartup DEF Init
<1>2. [Next]_vars => [ServerProof!Next]_(ServerProof!vars)
  BY SameStartup, StepOfServer DEF ServerProof!vars, Server!vars
<1>3. ServerProof!StartupInv /\ [ServerProof!Next]_(ServerProof!vars) => ServerProof!StartupInv'
  BY SameStartup, ServerProof!NextStartup
<1> QED BY <1>1, <1>2, <1>3

(* "so the service never serves against an out-of-date schema"             *)
(* (main.go:44-45), while movies are added.                                *)
THEOREM CatalogServesCurrentSchema == Spec => []NeverOutOfDate
<1>1. ServerProof!StartupInv => NeverOutOfDate
  BY SameStartup DEF NeverOutOfDate, ServerProof!StartupInv
<1> QED BY <1>1, ServerInductive, PTL DEF Spec

(* Every migration is committed once and in order (db.go:50).              *)
THEOREM CatalogMigratesOnce == Spec => []MigratedOnce
<1>1. ServerProof!StartupInv => MigratedOnce
  BY SameStartup DEF MigratedOnce, ServerProof!StartupInv, ServerProof!LockSound
<1> QED BY <1>1, ServerInductive, PTL DEF Spec

-----------------------------------------------------------------------------
(* TMDb decides who may have a row, and its verdict does not change.       *)
Verdict ==
  /\ \A m \in Movie : rows[m] # None => m \in Listed
  /\ \A p \in Proc : at[p] = "insert" => req[p].movie \in Listed
  /\ \A p \in Proc : at[p] = "404" => req[p].movie \notin Listed
  /\ \A p \in Proc : at[p] = "201" => rows[req[p].movie] # None

CatalogInv == TypeOK /\ Verdict /\ AnswersTrue

LEMMA RequestType ==
  ASSUME TypeOK, NEW p \in Proc, at[p] # "idle"
  PROVE  req[p] \in Asked /\ req[p].movie \in Movie
BY CatalogAssumption DEF TypeOK, CatalogAssumption, Request

LEMMA InitCatalog == Init => CatalogInv
<1> SUFFICES ASSUME Init PROVE CatalogInv
  OBVIOUS
<1>1. Server!TypeOK
  <2>1. ServerProof!TypeOK
    BY ServerInductive DEF ServerProof!StartupInv
  <2> QED BY <2>1 DEF Server!TypeOK, ServerProof!TypeOK, Server!Phase, ServerProof!Phase
<1>2. TypeOK
  BY <1>1, CatalogAssumption DEF Init, TypeOK, Table!Init, CatalogAssumption
<1> QED BY <1>2 DEF Init, Table!Init, CatalogInv, Verdict, AnswersTrue

(* A process that serves goes on, drains or is gone.                       *)
LEMMA ServingKept ==
  ASSUME Server!TypeOK, Server!Next, NEW i \in Server!Serving
  PROVE  i \in Instance /\ (phase'[i] = "down" \/ i \in Server!Serving')
<1> PICK j \in Instance : Server!Progress(j) \/ Server!SigTerm(j) \/ Server!Fail(j)
  BY DEF Server!Next
<1> USE DEF Server!Goto, Server!Exit, Server!TypeOK, Server!Serving
<1>1. CASE Server!Start(j) \/ Server!Lock(j) \/ Server!SetDirty(j) \/ Server!Apply(j)
           \/ Server!Shutdown(j) \/ Server!Drained(j) \/ Server!Connect(j)
  BY <1>1 DEF Server!Start, Server!Lock, Server!SetDirty, Server!Apply,
     Server!Shutdown, Server!Drained, Server!Connect
<1>2. CASE Server!Plan(j) \/ Server!ClearDirty(j)
  BY <1>2 DEF Server!Plan, Server!ClearDirty, Server!Proceed
<1>3. CASE Server!SigTerm(j) \/ Server!Fail(j)
  BY <1>3 DEF Server!SigTerm, Server!Fail
<1> QED BY <1>1, <1>2, <1>3 DEF Server!Progress

LEMMA NextCatalog ==
  ASSUME CatalogInv, [Next]_vars, Server!TypeOK'
  PROVE  CatalogInv'
<1>t. TypeOK /\ Verdict /\ AnswersTrue
  BY DEF CatalogInv
<1>1. CASE UNCHANGED vars
  <2>1. UNCHANGED <<phase, at, on, req, rows, acks, faults>>
    BY <1>1 DEF vars, server, handlers
  <2>2. TypeOK'
    BY <2>1, <1>t DEF TypeOK, Server!Serving
  <2> QED BY <2>1, <2>2, <1>t DEF CatalogInv, Verdict, AnswersTrue
<1>2. CASE ServerStep
  <2>1. Server!Next /\ CutOff /\ UNCHANGED <<rows, acks, faults>>
    BY <1>2 DEF ServerStep
  <2>2. \A p \in Proc : \/ on'[p] = on[p] /\ at'[p] = at[p] /\ req'[p] = req[p]
                        \/ on'[p] = None /\ at'[p] = "idle" /\ req'[p] = None
    BY <2>1 DEF CutOff
  <2>3. at' \in [Proc -> {"idle"} \cup Calls \cup Answers]
        /\ on' \in [Proc -> Instance \cup {None}] /\ req' \in [Proc -> Asked \cup {None}]
    BY <2>1, <1>t DEF CutOff, TypeOK
  <2>4. \A p \in Proc : at'[p] # "idle" => on'[p] \in Server!Serving'
    <3> SUFFICES ASSUME NEW p \in Proc, at'[p] # "idle" PROVE on'[p] \in Server!Serving'
      OBVIOUS
    <3>1. at[p] # "idle" /\ on'[p] = on[p] /\ on[p] \in Server!Serving
      BY <2>2, <1>t DEF TypeOK
    <3>2. on[p] \in Instance /\ on[p] # None
      BY <3>1, ProcessesAssumption DEF Server!Serving, ProcessesAssumption
    <3>3. phase'[on[p]] # "down"
      BY <3>1, <3>2, <2>1 DEF CutOff
    <3> QED BY <3>1, <3>3, <2>1, <1>t, ServingKept DEF TypeOK
  <2>5. \A p \in Proc : at'[p] # "idle" <=> req'[p] # None
    BY <2>2, <1>t DEF TypeOK
  <2>6. TypeOK'
    BY <2>1, <2>3, <2>4, <2>5, <1>t DEF TypeOK
  <2>7. Verdict' /\ AnswersTrue'
    BY <2>1, <2>2, <1>t DEF Verdict, AnswersTrue
  <2> QED BY <2>6, <2>7 DEF CatalogInv
<1>3. ASSUME NEW p \in Proc, NEW i \in Instance, NEW r \in Asked, Add(p, i, r)
      PROVE  CatalogInv'
  <2>1. /\ at' = [at EXCEPT ![p] = "check"]
        /\ on' = [on EXCEPT ![p] = i]
        /\ req' = [req EXCEPT ![p] = r]
        /\ UNCHANGED <<phase, rows, acks, faults>>
        /\ phase[i] = "serve"
    BY <1>3 DEF Add, Goto, server
  <2>2. r # None
    BY CatalogAssumption DEF CatalogAssumption
  <2>3. TypeOK'
    BY <2>1, <2>2, <1>t DEF TypeOK, Server!Serving, Calls
  <2> QED BY <2>1, <2>3, <1>t DEF CatalogInv, Verdict, AnswersTrue, TypeOK
<1>4. ASSUME NEW p \in Proc, Reply(p)
      PROVE  CatalogInv'
  <2>1. /\ at' = [at EXCEPT ![p] = "idle"]
        /\ on' = [on EXCEPT ![p] = None]
        /\ req' = [req EXCEPT ![p] = None]
        /\ UNCHANGED <<phase, rows, acks, faults>>
    BY <1>4 DEF Reply, Goto, server
  <2>2. TypeOK'
    BY <2>1, <1>t DEF TypeOK, Server!Serving
  <2> QED BY <2>1, <2>2, <1>t DEF CatalogInv, Verdict, AnswersTrue, TypeOK
<1>5. ASSUME NEW p \in Proc, GetMovieByTMDB(p) \/ GetMovie(p)
      PROVE  CatalogInv'
  <2>0. at[p] \in {"check", "fetch"} /\ UNCHANGED <<phase, on, req, rows, acks>>
    BY <1>5 DEF GetMovieByTMDB, GetMovie, server
  <2>1. PICK place \in {"fetch", "insert", "404", "409", "500", "502", "503"} :
          /\ at' = [at EXCEPT ![p] = place]
          /\ place = "409" => rows[req[p].movie] # None
          /\ place = "404" => req[p].movie \notin Listed
          /\ place = "insert" => req[p].movie \in Listed
    BY <1>5 DEF GetMovieByTMDB, GetMovie, Goto
  <2>2. faults' \in 0..MaxFaults
    BY <1>5, <1>t, CatalogAssumption
    DEF GetMovieByTMDB, GetMovie, Calm, Disturbed, TypeOK, CatalogAssumption
  <2>3. at' \in [Proc -> {"idle"} \cup Calls \cup Answers]
    BY <2>1, <1>t DEF TypeOK, Calls, Answers
  <2>4. TypeOK'
    BY <2>0, <2>1, <2>2, <2>3, <1>t DEF TypeOK, Server!Serving
  <2>5. req[p].movie \in Movie
    BY <2>0, <1>t, RequestType
  <2> QED BY <2>0, <2>1, <2>4, <2>5, <1>t DEF CatalogInv, Verdict, AnswersTrue, TypeOK
<1>6. ASSUME NEW p \in Proc, CreateMovie(p)
      PROVE  CatalogInv'
  <2> DEFINE m == req[p].movie
             row == rowOf(req[p])
  <2>0. at[p] = "insert" /\ UNCHANGED <<phase, on, req>> /\ m \in Movie /\ m \in Listed
    BY <1>6, <1>t, RequestType DEF CreateMovie, server, Verdict
  <2>1. \/ /\ rows[m] = None /\ row \in Row
           /\ rows' = [rows EXCEPT ![m] = row]
           /\ acks' \in {acks, [acks EXCEPT ![m] = @ + 1]}
           /\ at' = [at EXCEPT ![p] = "201"] \/ at' = [at EXCEPT ![p] = "500"]
        \/ /\ UNCHANGED <<rows, acks>>
           /\ \/ at' = [at EXCEPT ![p] = "409"] /\ rows[m] # None
              \/ at' = [at EXCEPT ![p] = "500"]
    BY <1>6 DEF CreateMovie, Insert, Goto
  <2>2. faults' \in 0..MaxFaults
    <3>1. Calm \/ Disturbed
      BY <1>6 DEF CreateMovie
    <3> QED BY <3>1, <1>t, CatalogAssumption DEF Calm, Disturbed, TypeOK, CatalogAssumption
  <2>3. at' \in [Proc -> {"idle"} \cup Calls \cup Answers] /\ at'[p] \in {"201", "409", "500"}
        /\ \A q \in Proc \ {p} : at'[q] = at[q]
    BY <2>1, <1>t DEF TypeOK, Calls, Answers
  <2>4. rows' \in [Movie -> Row \cup {None}]
    BY <2>1, <1>t DEF TypeOK
  <2>5. acks' \in [Movie -> Nat]
    BY <2>1, <1>t DEF TypeOK
  <2>6. TypeOK'
    BY <2>0, <2>2, <2>3, <2>4, <2>5, <1>t DEF TypeOK, Server!Serving
  <2>7. \A n \in Movie : rows[n] # None => rows'[n] = rows[n]
    BY <2>0, <2>1, <1>t DEF TypeOK
  <2>r. None \notin Row
    BY CatalogAssumption DEF CatalogAssumption
  <2>8. Verdict'
    <3>1. \A n \in Movie : rows'[n] # None => n \in Listed
      BY <2>0, <2>1, <1>t DEF Verdict, TypeOK
    <3>2. at'[p] = "201" => rows'[m] # None
      BY <2>0, <2>1, <2>r, <1>t DEF TypeOK
    <3>3. \A q \in Proc \ {p} : at'[q] = "201" => rows'[req[q].movie] # None
      BY <2>3, <2>7, <1>t, RequestType DEF Verdict
    <3> QED BY <3>1, <3>2, <3>3, <2>0, <2>3, <1>t DEF Verdict
  <2>9. AnswersTrue'
    <3> SUFFICES ASSUME NEW q \in Proc
                 PROVE  /\ at'[q] = "201" => rows'[req'[q].movie] = rowOf(req'[q])
                        /\ at'[q] = "409" => rows'[req'[q].movie] # None
                        /\ at'[q] = "404" => rows'[req'[q].movie] = None
      BY DEF AnswersTrue, rowOf, profileOf
    <3>1. CASE q = p
      <4>1. at'[p] = "201" => rows'[m] = row
        BY <2>0, <2>1, <1>t DEF TypeOK
      <4>2. at'[p] = "409" => rows'[m] # None
        BY <2>0, <2>1, <1>t DEF TypeOK
      <4> QED BY <3>1, <4>1, <4>2, <2>0, <2>3 DEF rowOf, profileOf
    <3>2. CASE q # p /\ at[q] # "idle"
      <4>1. req[q].movie \in Movie /\ at'[q] = at[q] /\ req'[q] = req[q]
        BY <3>2, <2>0, <2>3, <1>t, RequestType
      <4>2. at[q] = "404" => rows'[req[q].movie] = None
        BY <4>1, <2>8, <2>0, <1>t DEF Verdict, TypeOK
      <4>4. at[q] = "201" => rows'[req[q].movie] = rowOf(req[q])
        <5> SUFFICES ASSUME at[q] = "201" PROVE rows'[req[q].movie] = rowOf(req[q])
          OBVIOUS
        <5>1. rows[req[q].movie] = rowOf(req[q])
          BY <1>t DEF AnswersTrue
        <5>2. rowOf(req[q]) # None
          BY <5>1, <1>t DEF Verdict
        <5> QED BY <5>1, <5>2, <4>1, <2>7
      <4>5. at[q] = "409" => rows'[req[q].movie] # None
        BY <4>1, <2>7, <1>t DEF AnswersTrue
      <4> QED BY <4>1, <4>2, <4>4, <4>5 DEF rowOf, profileOf
    <3>3. CASE q # p /\ at[q] = "idle"
      BY <3>3, <2>3
    <3> QED BY <3>1, <3>2, <3>3
  <2> QED BY <2>6, <2>8, <2>9 DEF CatalogInv
<1> QED BY <1>1, <1>2, <1>3, <1>4, <1>5, <1>6 DEF Next, HandlerStep

(* The type invariant of Catalog, and with it the truth of its answers.    *)
THEOREM CatalogInductive == Spec => []CatalogInv
<1>1. Init => CatalogInv
  BY InitCatalog
<1>2. ServerProof!StartupInv' => Server!TypeOK'
  BY DEF ServerProof!StartupInv, Server!TypeOK, ServerProof!TypeOK, Server!Phase,
     ServerProof!Phase
<1>3. CatalogInv /\ [Next]_vars /\ ServerProof!StartupInv' => CatalogInv'
  BY <1>2, NextCatalog
<1> QED BY <1>1, <1>3, ServerInductive, PTL DEF Spec

(* "Duplicates -> 409" (JOURNEY.md:114-117): an answer is true when given, *)
(* for any number of handlers, processes, movies and faults.               *)
THEOREM AnswersAreTrue == Spec => []AnswersTrue
<1>1. CatalogInv => AnswersTrue
  BY DEF CatalogInv
<1> QED BY <1>1, CatalogInductive, PTL

(* Types, also those of the processes.                                     *)
THEOREM CatalogTypes == Spec => []TypeOK
<1>1. CatalogInv => TypeOK
  BY DEF CatalogInv
<1> QED BY <1>1, CatalogInductive, PTL

-----------------------------------------------------------------------------
(* Only the insert touches the table, and only for a movie without a row.  *)
LEMMA StepOfTable ==
  ASSUME TypeOK, [Next]_vars
  PROVE  Table!Next \/ UNCHANGED <<rows, acks>>
<1>1. CASE UNCHANGED vars
  BY <1>1 DEF vars
<1>2. CASE ServerStep
  BY <1>2 DEF ServerStep
<1>3. ASSUME NEW p \in Proc, CreateMovie(p)
      PROVE  Table!Next \/ UNCHANGED <<rows, acks>>
  <2> DEFINE m == req[p].movie
             row == rowOf(req[p])
  <2>1. m \in Movie
    BY <1>3, RequestType DEF CreateMovie
  <2>2. \/ UNCHANGED <<rows, acks>>
        \/ /\ rows[m] = None /\ row \in Row
           /\ rows' = [rows EXCEPT ![m] = row]
           /\ acks' \in {acks, [acks EXCEPT ![m] = @ + 1]}
    BY <1>3 DEF CreateMovie, Insert
  <2>3. CASE rows[m] = None /\ row \in Row
             /\ rows' = [rows EXCEPT ![m] = row]
             /\ acks' \in {acks, [acks EXCEPT ![m] = @ + 1]}
    <3>1. Table!Enter(m, row)
      BY <2>3 DEF Table!Enter
    <3> QED BY <3>1, <2>1, <2>3 DEF Table!Next
  <2> QED BY <2>2, <2>3
<1>4. ASSUME NEW p \in Proc, GetMovieByTMDB(p) \/ GetMovie(p) \/ Reply(p)
      PROVE  UNCHANGED <<rows, acks>>
  BY <1>4 DEF GetMovieByTMDB, GetMovie, Reply
<1>5. ASSUME NEW p \in Proc, NEW i \in Instance, NEW r \in Asked, Add(p, i, r)
      PROVE  UNCHANGED <<rows, acks>>
  BY <1>5 DEF Add
<1> QED BY <1>1, <1>2, <1>3, <1>4, <1>5 DEF Next, HandlerStep

(* The handlers implement MovieTable: one row per movie, entered once and  *)
(* told once (movie.go:50-107).                                            *)
THEOREM ImplementsTable == Spec => KeepsTable
<1>1. Init => Table!Init
  BY DEF Init
<1> QED BY <1>1, StepOfTable, CatalogTypes, PTL DEF Spec, KeepsTable, Table!Spec
=============================================================================
