------------------------------- MODULE Catalog -------------------------------
(***************************************************************************)
(* POST /api/v3/movie (internal/api/v3/movie.go, internal/tmdb): a handler *)
(* looks for the movie in the table, asks TMDb for it, and inserts it, in  *)
(* three separate calls.  Handlers run in the processes of Startup, which  *)
(* cut them off when they exit, and share the table and nothing else.      *)
(***************************************************************************)
EXTENDS Processes

CONSTANTS
  Proc,
  Movie,       \* TMDb ids
  Listed,      \* those that TMDb knows
  Configured,  \* whether there is a TMDb API key
  Root,        \* root folder paths
  Profile,     \* quality profile ids; 0 in a request stands for none
  Asked,       \* the requests that are made
  MaxFaults    \* bound on errors of the database and of TMDb

VARIABLES
  phase, signalled, next, lock, version, dirty, schema, mishaps,
  at,    \* where each handler is: its next call, or the status of its answer
  on,    \* the process it runs in
  req,   \* the request it handles
  rows,  \* the movie table
  acks,  \* history: how many requests for each movie were answered with 201
  faults

Server == INSTANCE Startup

\* Quality profiles are read-only: there is the seeded one.
Seeded == {1}
Row == [root : Root \cup {None}, profile : Seeded]
Request == [movie : Movie, root : Root \cup {None}, profile : Profile]

Table == INSTANCE MovieTable

ASSUME CatalogAssumption ==
  /\ Listed \subseteq Movie
  /\ Configured \in BOOLEAN
  /\ Profile \subseteq Nat
  /\ Asked \subseteq Request
  /\ MaxFaults \in Nat
  /\ None \notin Root \cup Row \cup Request

server == <<phase, signalled, next, lock, version, dirty, schema, mishaps>>
handlers == <<at, on, req>>
vars == <<server, handlers, rows, acks, faults>>

Calls == {"check", "fetch", "insert"}
Answers == {"201", "404", "409", "500", "502", "503"}

TypeOK ==
  /\ Server!TypeOK
  /\ at \in [Proc -> {"idle"} \cup Calls \cup Answers]
  /\ on \in [Proc -> Instance \cup {None}]
  /\ req \in [Proc -> Asked \cup {None}]
  /\ rows \in [Movie -> Row \cup {None}]
  /\ acks \in [Movie -> Nat]
  /\ faults \in 0..MaxFaults
  /\ \A p \in Proc : /\ at[p] # "idle" => on[p] \in Server!Serving
                     /\ at[p] # "idle" <=> req[p] # None

Init ==
  /\ Server!Init
  /\ at = [p \in Proc |-> "idle"]
  /\ on = [p \in Proc |-> None]
  /\ req = [p \in Proc |-> None]
  /\ Table!Init
  /\ faults = 0

-----------------------------------------------------------------------------
Goto(p, place) == at' = [at EXCEPT ![p] = place]
Disturbed == faults < MaxFaults /\ faults' = faults + 1
Calm == UNCHANGED faults
profileOf(r) == IF r.profile = 0 THEN 1 ELSE r.profile
rowOf(r) == [root |-> r.root, profile |-> profileOf(r)]

\* A process takes requests until it is told to stop.  A body without a
\* TMDb id is refused and left out.
Add(p, i, r) ==
  /\ at[p] = "idle"
  /\ phase[i] = "serve"
  /\ Goto(p, "check")
  /\ on' = [on EXCEPT ![p] = i]
  /\ req' = [req EXCEPT ![p] = r]
  /\ UNCHANGED <<server, rows, acks, faults>>

GetMovieByTMDB(p) ==
  /\ at[p] = "check"
  /\ \/ Goto(p, IF rows[req[p].movie] # None THEN "409" ELSE "fetch") /\ Calm
     \/ Goto(p, "500") /\ Disturbed
  /\ UNCHANGED <<server, on, req, rows, acks>>

\* tmdb.GetMovie and tmdbError.
GetMovie(p) ==
  /\ at[p] = "fetch"
  /\ \/ /\ Goto(p, IF ~Configured THEN "503"
                   ELSE IF req[p].movie \in Listed THEN "insert" ELSE "404")
        /\ Calm
     \/ Configured /\ Goto(p, "502") /\ Disturbed
  /\ UNCHANGED <<server, on, req, rows, acks>>

Insert(m, row, told) ==
  /\ rows' = [rows EXCEPT ![m] = row]
  /\ acks' = IF told THEN [acks EXCEPT ![m] = @ + 1] ELSE acks

\* Mutants: an upsert in place of the insert; every error taken for a
\* violation of the unique index.
UpsertMovie(p) ==
  /\ at[p] = "insert"
  /\ LET m == req[p].movie
         row == rowOf(req[p])
     IN  \/ row \in Row /\ Insert(m, row, TRUE) /\ Goto(p, "201") /\ Calm
         \/ row \notin Row /\ UNCHANGED <<rows, acks>> /\ Goto(p, "500") /\ Calm
         \/ row \in Row /\ Insert(m, row, FALSE) /\ Goto(p, "500") /\ Disturbed
         \/ UNCHANGED <<rows, acks>> /\ Goto(p, "500") /\ Disturbed
  /\ UNCHANGED <<server, on, req>>
CreateOrConflict(p) ==
  /\ at[p] = "insert"
  /\ LET m == req[p].movie
         row == rowOf(req[p])
         entered == rows[m] = None /\ row \in Row
     IN  \/ entered /\ Insert(m, row, TRUE) /\ Goto(p, "201") /\ Calm
         \/ ~entered /\ UNCHANGED <<rows, acks>> /\ Goto(p, "409") /\ Calm
         \/ entered /\ Insert(m, row, FALSE) /\ Goto(p, "500") /\ Disturbed
         \/ UNCHANGED <<rows, acks>> /\ Goto(p, "500") /\ Disturbed
  /\ UNCHANGED <<server, on, req>>

\* The unique index on tmdb_id comes before the foreign key of the profile.
\* The insert may be committed and its answer lost.
CreateMovie(p) ==
  /\ at[p] = "insert"
  /\ LET m == req[p].movie
         row == rowOf(req[p])
         entered == rows[m] = None /\ row \in Row
     IN  \/ entered /\ Insert(m, row, TRUE) /\ Goto(p, "201") /\ Calm
         \/ /\ ~entered
            /\ UNCHANGED <<rows, acks>>
            /\ Goto(p, IF rows[m] # None THEN "409" ELSE "500")
            /\ Calm
         \/ entered /\ Insert(m, row, FALSE) /\ Goto(p, "500") /\ Disturbed
         \/ UNCHANGED <<rows, acks>> /\ Goto(p, "500") /\ Disturbed
  /\ UNCHANGED <<server, on, req>>

Reply(p) ==
  /\ at[p] \in Answers
  /\ Goto(p, "idle")
  /\ on' = [on EXCEPT ![p] = None]
  /\ req' = [req EXCEPT ![p] = None]
  /\ UNCHANGED <<server, rows, acks, faults>>

HandlerStep(p) == GetMovieByTMDB(p) \/ GetMovie(p) \/ CreateMovie(p) \/ Reply(p)

\* Mutant: the requests stay behind.
CutOffLate ==
  LET gone(p) == on[p] # None /\ phase'[on[p]] = "down"
  IN  /\ at' = [p \in Proc |-> IF gone(p) THEN "idle" ELSE at[p]]
      /\ on' = [p \in Proc |-> IF gone(p) THEN None ELSE on[p]]
      /\ UNCHANGED req

\* The requests of a process that is no longer there are gone.
CutOff ==
  LET gone(p) == on[p] # None /\ phase'[on[p]] = "down"
  IN  /\ at' = [p \in Proc |-> IF gone(p) THEN "idle" ELSE at[p]]
      /\ on' = [p \in Proc |-> IF gone(p) THEN None ELSE on[p]]
      /\ req' = [p \in Proc |-> IF gone(p) THEN None ELSE req[p]]

ServerStep == Server!Next /\ CutOff /\ UNCHANGED <<rows, acks, faults>>

Next ==
  \/ \E p \in Proc : HandlerStep(p) \/ \E i \in Instance, r \in Asked : Add(p, i, r)
  \/ ServerStep

Spec == Init /\ [][Next]_vars

-----------------------------------------------------------------------------
\* Goroutines run, a stopped process is started again, who waits for the
\* lock gets it (PostgreSQL queues), a client asks again while its movie is
\* not there.  Mishaps and faults owe nothing.
Boot(i) == Server!Progress(i) /\ CutOff /\ UNCHANGED <<rows, acks, faults>>
Retry(m) ==
  /\ rows[m] = None
  /\ \E p \in Proc, i \in Instance, r \in Asked :
       r.movie = m /\ rowOf(r) \in Row /\ Add(p, i, r)
Fairness ==
  /\ \A p \in Proc : WF_vars(HandlerStep(p))
  /\ \A i \in Instance : WF_vars(Boot(i)) /\ SF_vars(Boot(i) /\ Server!Lock(i))
  /\ \A m \in Movie : SF_vars(Retry(m))
LiveSpec == Spec /\ Fairness

(* "Duplicates -> 409" (JOURNEY.md:114-117, movie.go:50-57, 100-107): an   *)
(* answer is true of the table when it is given, although requests for one *)
(* movie pass the check together, answers of the database get lost and     *)
(* processes are replaced: 201 means the row is this request's own, 409    *)
(* that there is a row, 404 that there is none.                            *)
AnswersTrue ==
  \A p \in Proc :
    /\ at[p] = "201" => rows[req[p].movie] = rowOf(req[p])
    /\ at[p] = "409" => rows[req[p].movie] # None
    /\ at[p] = "404" => rows[req[p].movie] = None

(* One row per movie, entered once, told once: the handlers implement      *)
(* MovieTable (movie.go:50-107).                                           *)
KeepsTable == Table!Spec

(* Of the processes: see Startup.                                          *)
NeverOutOfDate == Server!NeverOutOfDate
MigratedOnce == Server!MigratedOnce

(* A client that asks again gets its movie added, unless a process was     *)
(* killed in the middle of a migration and left the schema dirty, which    *)
(* no later start repairs (db.go:50, movie.go:84).                         *)
EventuallyAdded ==
  Configured => \A m \in Listed : <>(rows[m] # None) \/ <>[]dirty
=============================================================================
