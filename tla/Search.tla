-------------------------------- MODULE Search --------------------------------
(***************************************************************************)
(* GET /api/v3/release (internal/api/v3/search.go): one goroutine per      *)
(* indexer of a snapshot of the table, results appended under a mutex, a   *)
(* WaitGroup, a deadline, and a sort.  Searches share nothing but the      *)
(* table, so one at a time is modelled; the table changes meanwhile.       *)
(***************************************************************************)
EXTENDS Quality, Sequences, FiniteSets, Functions

CONSTANTS
  Indexer,
  Offers,    \* the parsed releases of the movie in the feed of each indexer
  None

\* What releaseJSON keeps; item is the release's place in its feed.
Release == [indexer : Indexer, item : Nat, source : Source,
            resolution : Resolution, seeders : Nat]

ASSUME SearchAssumption ==
  /\ IsFiniteSet(Indexer)
  /\ None \notin Indexer
  /\ \A ix \in Indexer :
       /\ Offers[ix] \in Seq(Release)
       /\ \A k \in DOMAIN Offers[ix] :
            Offers[ix][k].indexer = ix /\ Offers[ix][k].item = k

VARIABLES
  table,    \* the indexer table: enable_interactive_search of each row
  at,       \* where the handler is
  todo,     \* listed indexers whose goroutine is not yet started
  asked,    \* history: the indexers listed
  worker,   \* where the goroutine of each indexer is
  local,    \* the releases it found
  base,     \* the value of all it read
  all,      \* the releases collected
  mu,       \* the goroutine holding the mutex
  wg,       \* the WaitGroup counter
  expired   \* the deadline has passed or the client has left

vars == <<table, at, todo, asked, worker, local, base, all, mu, wg, expired>>

Critical == {"read", "write", "unlock"}
Running == {ix \in Indexer : worker[ix] \notin {"none", "done"}}

TypeOK ==
  /\ table \in [Indexer -> {"absent", "on", "off"}]
  /\ at \in {"idle", "spawn", "wait", "sort", "reply"}
  /\ todo \subseteq asked
  /\ asked \subseteq Indexer
  /\ worker \in [Indexer -> {"none", "query", "lock", "finish", "done"} \cup Critical]
  /\ local \in [Indexer -> Seq(Release)]
  /\ base \in [Indexer -> Seq(Release)]
  /\ all \in Seq(Release)
  /\ mu \in Indexer \cup {None}
  /\ wg \in Nat
  /\ expired \in BOOLEAN

Init ==
  /\ table \in [Indexer -> {"absent", "on", "off"}]
  /\ at = "idle"
  /\ todo = {}
  /\ asked = {}
  /\ worker = [ix \in Indexer |-> "none"]
  /\ local = [ix \in Indexer |-> <<>>]
  /\ base = [ix \in Indexer |-> <<>>]
  /\ all = <<>>
  /\ mu = None
  /\ wg = 0
  /\ expired = FALSE

-----------------------------------------------------------------------------
Enabled == {ix \in Indexer : table[ix] = "on"}

\* GetMovie and ListIndexers; a search that fails in one of them is left out.
Request ==
  /\ at = "idle"
  /\ at' = "spawn"
  /\ todo' = Enabled
  /\ asked' = Enabled
  /\ UNCHANGED <<table, worker, local, base, all, mu, wg, expired>>

Goto(ix, step) == worker' = [worker EXCEPT ![ix] = step]

\* Mutant: wg.Add(1) is left to the goroutine, which adds it with its answer.
SpawnUncounted(ix) ==
  /\ at = "spawn"
  /\ ix \in todo
  /\ todo' = todo \ {ix}
  /\ Goto(ix, "query")
  /\ UNCHANGED <<table, at, asked, local, base, all, mu, wg, expired>>

Spawn(ix) ==
  /\ at = "spawn"
  /\ ix \in todo
  /\ todo' = todo \ {ix}
  /\ wg' = wg + 1
  /\ Goto(ix, "query")
  /\ UNCHANGED <<table, at, asked, local, base, all, mu, expired>>

EnterWait ==
  /\ at = "spawn"
  /\ todo = {}
  /\ at' = "wait"
  /\ UNCHANGED <<table, todo, asked, worker, local, base, all, mu, wg, expired>>

\* Mutant: a failed search returns before the deferred wg.Done is set up.
SearchIndexerReturns(ix) ==
  /\ worker[ix] = "query"
  /\ \/ /\ ~expired
        /\ local' = [local EXCEPT ![ix] = Offers[ix]]
        /\ Goto(ix, "lock")
     \/ local' = [local EXCEPT ![ix] = <<>>] /\ Goto(ix, "done")
  /\ UNCHANGED <<table, at, todo, asked, base, all, mu, wg, expired>>

\* searchIndexer: the indexer answers, or the request fails or runs into the
\* client's timeout or the deadline and its error is logged.
SearchIndexer(ix) ==
  /\ worker[ix] = "query"
  /\ \/ ~expired /\ local' = [local EXCEPT ![ix] = Offers[ix]]
     \/ local' = [local EXCEPT ![ix] = <<>>]
  /\ Goto(ix, "lock")
  /\ UNCHANGED <<table, at, todo, asked, base, all, mu, wg, expired>>

\* Mutant: no mutex.
LockNothing(ix) ==
  /\ worker[ix] = "lock"
  /\ Goto(ix, "read")
  /\ UNCHANGED <<table, at, todo, asked, local, base, all, mu, wg, expired>>

Lock(ix) ==
  /\ worker[ix] = "lock"
  /\ mu = None
  /\ mu' = ix
  /\ Goto(ix, "read")
  /\ UNCHANGED <<table, at, todo, asked, local, base, all, wg, expired>>

\* all = append(all, local...) reads the slice and assigns it in two steps.
Read(ix) ==
  /\ worker[ix] = "read"
  /\ base' = [base EXCEPT ![ix] = all]
  /\ Goto(ix, "write")
  /\ UNCHANGED <<table, at, todo, asked, local, all, mu, wg, expired>>

Write(ix) ==
  /\ worker[ix] = "write"
  /\ all' = base[ix] \o local[ix]
  /\ base' = [base EXCEPT ![ix] = <<>>]
  /\ Goto(ix, "unlock")
  /\ UNCHANGED <<table, at, todo, asked, local, mu, wg, expired>>

Unlock(ix) ==
  /\ worker[ix] = "unlock"
  /\ mu' = None
  /\ Goto(ix, "finish")
  /\ UNCHANGED <<table, at, todo, asked, local, base, all, wg, expired>>

\* The deferred wg.Done.
Done(ix) ==
  /\ worker[ix] = "finish"
  /\ wg' = wg - 1
  /\ Goto(ix, "done")
  /\ UNCHANGED <<table, at, todo, asked, local, base, all, mu, expired>>

Wait ==
  /\ at = "wait"
  /\ wg = 0
  /\ at' = "sort"
  /\ UNCHANGED <<table, todo, asked, worker, local, base, all, mu, wg, expired>>

QualityWeight(r) == Weight(r.source, r.resolution)

\* Mutant: seeders decide also between different qualities.
BetterBySeeders(r, s) ==
  QualityWeight(r) > QualityWeight(s) \/ r.seeders > s.seeders

\* The comparison of sort.SliceStable.
Better(r, s) ==
  \/ QualityWeight(r) > QualityWeight(s)
  \/ QualityWeight(r) = QualityWeight(s) /\ r.seeders > s.seeders

\* What sort.SliceStable makes of s.
StablySorted(s) ==
  {[k \in DOMAIN s |-> s[order[k]]] : order \in {f \in Bijection(DOMAIN s, DOMAIN s) :
     \A i, j \in DOMAIN s : i < j =>
       \/ Better(s[f[i]], s[f[j]])
       \/ ~Better(s[f[j]], s[f[i]]) /\ f[i] < f[j]}}

Sort ==
  /\ at = "sort"
  /\ all' \in StablySorted(all)
  /\ at' = "reply"
  /\ UNCHANGED <<table, todo, asked, worker, local, base, mu, wg, expired>>

\* The answer is written; its local variables go.
Reply ==
  /\ at = "reply"
  /\ at' = "idle"
  /\ asked' = {}
  /\ worker' = [ix \in Indexer |-> "none"]
  /\ local' = [ix \in Indexer |-> <<>>]
  /\ all' = <<>>
  /\ expired' = FALSE
  /\ UNCHANGED <<table, todo, base, mu, wg>>

\* 45 s have passed or the client has left.
Expire ==
  /\ at \in {"spawn", "wait"}
  /\ ~expired
  /\ expired' = TRUE
  /\ UNCHANGED <<table, at, todo, asked, worker, local, base, all, mu, wg>>

Flag == {"on", "off", "unset"}
boolOr(given, def) == IF given = "unset" THEN def ELSE given

\* Prowlarr keeps the indexers in step with its own.
CreateIndexer(ix, given) ==
  /\ table[ix] = "absent"
  /\ table' = [table EXCEPT ![ix] = boolOr(given, "on")]
  /\ UNCHANGED <<at, todo, asked, worker, local, base, all, mu, wg, expired>>

UpdateIndexer(ix, given) ==
  /\ table[ix] # "absent"
  /\ table' = [table EXCEPT ![ix] = boolOr(given, "on")]
  /\ UNCHANGED <<at, todo, asked, worker, local, base, all, mu, wg, expired>>

DeleteIndexer(ix) ==
  /\ table[ix] # "absent"
  /\ table' = [table EXCEPT ![ix] = "absent"]
  /\ UNCHANGED <<at, todo, asked, worker, local, base, all, mu, wg, expired>>

ChangeTable(ix) ==
  \/ \E given \in Flag : CreateIndexer(ix, given) \/ UpdateIndexer(ix, given)
  \/ DeleteIndexer(ix)

Worker(ix) ==
  SearchIndexer(ix) \/ Lock(ix) \/ Read(ix) \/ Write(ix) \/ Unlock(ix) \/ Done(ix)
Handler == (\E ix \in Indexer : Spawn(ix)) \/ EnterWait \/ Wait \/ Sort \/ Reply

Next ==
  \/ Request
  \/ Handler
  \/ \E ix \in Indexer : Worker(ix) \/ ChangeTable(ix)
  \/ Expire

Spec == Init /\ [][Next]_vars

\* Goroutines run, and an HTTP request ends at the latest with the timeout of
\* the client (torznab.go:37).
Fairness ==
  /\ WF_vars(Handler)
  /\ \A ix \in Indexer : WF_vars(Worker(ix))
LiveSpec == Spec /\ Fairness

-----------------------------------------------------------------------------
(* The answer holds every release that a goroutine found, once, and none   *)
(* else: no append is lost or doubled, and no goroutine is still collecting*)
(* (search.go:61-73; "fans out concurrent searches across all enabled      *)
(* indexers", JOURNEY.md:190).                                             *)
NothingLost ==
  at \in {"sort", "reply"} =>
    /\ \A ix \in asked : worker[ix] = "done"
    /\ Range(all) = UNION {Range(local[ix]) : ix \in asked}
    /\ IsInjective(all)

(* "ranked best-first" (JOURNEY.md:191): no release of the answer is better*)
(* than an earlier one, and resolution outweighs every source and any      *)
(* number of seeders (search.go:75-81).                                    *)
BestFirst ==
  at = "reply" =>
    \A i, j \in DOMAIN all : i < j =>
      /\ ~Better(all[j], all[i])
      /\ resolutionRank(all[i].resolution) >= resolutionRank(all[j].resolution)

(* Every search is answered, whatever the indexers do (search.go:48-82).   *)
EventuallyAnswered == at = "spawn" ~> at = "reply"

-----------------------------------------------------------------------------
(* Inductive strengthening: what the WaitGroup counts, whom the mutex lets *)
(* in, who was started, and what has been gathered.                        *)
Collected == {ix \in Indexer : worker[ix] \in {"unlock", "finish", "done"}}

Counted == wg = Cardinality(Running)
Exclusive == \A ix \in Indexer : mu = ix <=> worker[ix] \in Critical
Started ==
  /\ \A ix \in Indexer : worker[ix] = "none" <=> ix \notin asked \ todo
  /\ at # "spawn" => todo = {}
  /\ at = "idle" => asked = {}
  /\ at \in {"sort", "reply"} => Running = {}
Gathered ==
  /\ \A ix \in Indexer : local[ix] \in {<<>>, Offers[ix]}
  /\ \A ix \in Indexer : worker[ix] = "write" => base[ix] = all
  /\ Range(all) = UNION {Range(local[ix]) : ix \in Collected}
  /\ IsInjective(all)

SearchInv == TypeOK /\ Counted /\ Exclusive /\ Started /\ Gathered
=============================================================================
