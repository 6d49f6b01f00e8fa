------------------------------- MODULE Startup -------------------------------
(***************************************************************************)
(* The life of a server process (cmd/axis-movies/main.go, internal/db):    *)
(* migrate, connect, serve, drain, exit.  Several processes, old and new   *)
(* releases of the program, share one database, as in a rolling upgrade.   *)
(* golang-migrate is external: Up takes an advisory lock, reads the version*)
(* once, and runs each pending migration between "version v, dirty" and    *)
(* "version v, clean"; a dirty version, or one the release has no          *)
(* migration for, is an error.                                             *)
(***************************************************************************)
EXTENDS Processes, Sequences

VARIABLES
  phase,      \* where the main goroutine of each process is
  signalled,  \* processes that got SIGTERM
  next,       \* the migration each process will run next
  lock,       \* holder of the advisory lock
  version,    \* schema_migrations: the version ...
  dirty,      \* ... and its dirty flag
  schema,     \* the migrations committed, in the order of their commits
  mishaps

vars == <<phase, signalled, next, lock, version, dirty, schema, mishaps>>

Phase == {"down", "lock", "plan", "mark", "apply", "clear", "connect", "serve", "drain"}
Migrating == {"plan", "mark", "apply", "clear"}

TypeOK ==
  /\ phase \in [Instance -> Phase]
  /\ signalled \subseteq Instance
  /\ next \in [Instance -> 1..(Latest + 1)]
  /\ lock \in Instance \cup {None}
  /\ version \in 0..Latest
  /\ dirty \in BOOLEAN
  /\ schema \in Seq(1..Latest)
  /\ mishaps \in 0..MaxMishaps

UpTo(n) == [v \in 1..n |-> v]

\* A new database, or one that an earlier release has migrated.
Init ==
  /\ phase = [i \in Instance |-> "down"]
  /\ signalled = {}
  /\ next = [i \in Instance |-> 1]
  /\ lock = None
  /\ version \in 0..Latest
  /\ dirty = FALSE
  /\ schema = UpTo(version)
  /\ mishaps = 0

-----------------------------------------------------------------------------
Goto(i, place) == phase' = [phase EXCEPT ![i] = place]
Mishap == mishaps < MaxMishaps /\ mishaps' = mishaps + 1
table == <<version, dirty, schema>>

\* run returns, or the process is killed: its connections and lock are gone.
Exit(i) ==
  /\ Goto(i, "down")
  /\ signalled' = signalled \ {i}
  /\ lock' = IF lock = i THEN None ELSE lock

Start(i) ==
  /\ phase[i] = "down"
  /\ Goto(i, "lock")
  /\ UNCHANGED <<signalled, next, lock, table, mishaps>>

\* Mutant: migrations run without the lock.
LockIgnored(i) ==
  /\ phase[i] = "lock"
  /\ Goto(i, "plan")
  /\ UNCHANGED <<signalled, next, lock, table, mishaps>>

Lock(i) ==
  /\ phase[i] = "lock"
  /\ lock = None
  /\ lock' = i
  /\ Goto(i, "plan")
  /\ UNCHANGED <<signalled, next, table, mishaps>>

\* After the last migration the lock is released.
Proceed(i, n) ==
  /\ next' = [next EXCEPT ![i] = n]
  /\ IF n <= Release[i] THEN Goto(i, "mark") /\ UNCHANGED lock
     ELSE Goto(i, "connect") /\ lock' = IF lock = i THEN None ELSE lock

\* Mutant: a dirty version is taken for a clean one.
PlanDirty(i) ==
  /\ phase[i] = "plan"
  /\ \/ version <= Release[i] /\ Proceed(i, version + 1) /\ UNCHANGED signalled
     \/ version > Release[i] /\ Exit(i) /\ UNCHANGED next
  /\ UNCHANGED <<table, mishaps>>

\* Mutant: having nothing to migrate is an error.
PlanNoChange(i) ==
  /\ phase[i] = "plan"
  /\ \/ /\ ~dirty /\ version < Release[i]
        /\ Proceed(i, version + 1)
        /\ UNCHANGED signalled
     \/ (dirty \/ version >= Release[i]) /\ Exit(i) /\ UNCHANGED next
  /\ UNCHANGED <<table, mishaps>>

\* The version is read once, and decides what remains to be run.
Plan(i) ==
  /\ phase[i] = "plan"
  /\ \/ /\ ~dirty /\ version <= Release[i]
        /\ Proceed(i, version + 1)
        /\ UNCHANGED signalled
     \/ (dirty \/ version > Release[i]) /\ Exit(i) /\ UNCHANGED next
  /\ UNCHANGED <<table, mishaps>>

SetDirty(i) ==
  /\ phase[i] = "mark"
  /\ version' = next[i]
  /\ dirty' = TRUE
  /\ Goto(i, "apply")
  /\ UNCHANGED <<signalled, next, lock, schema, mishaps>>

\* The statements of one file are one implicit transaction.
Apply(i) ==
  /\ phase[i] = "apply"
  /\ schema' = Append(schema, next[i])
  /\ Goto(i, "clear")
  /\ UNCHANGED <<signalled, next, lock, version, dirty, mishaps>>

ClearDirty(i) ==
  /\ phase[i] = "clear"
  /\ version' = next[i]
  /\ dirty' = FALSE
  /\ Proceed(i, next[i] + 1)
  /\ UNCHANGED <<signalled, schema, mishaps>>

\* Connect heeds the signal context; Migrate does not.
Connect(i) ==
  /\ phase[i] = "connect"
  /\ IF i \in signalled THEN Exit(i)
     ELSE Goto(i, "serve") /\ UNCHANGED <<signalled, lock>>
  /\ UNCHANGED <<next, table, mishaps>>

SigTerm(i) ==
  /\ phase[i] # "down"
  /\ i \notin signalled
  /\ Mishap
  /\ signalled' = signalled \cup {i}
  /\ UNCHANGED <<phase, next, lock, table>>

Shutdown(i) ==
  /\ phase[i] = "serve"
  /\ i \in signalled
  /\ Goto(i, "drain")
  /\ UNCHANGED <<signalled, next, lock, table, mishaps>>

\* Every request is answered, or 15 s have passed.
Drained(i) ==
  /\ phase[i] = "drain"
  /\ Exit(i)
  /\ UNCHANGED <<next, table, mishaps>>

\* An error ends run: the database is not reached, the lock is not had in
\* time, a statement fails, the address is taken; or the process is killed.
Fail(i) ==
  /\ phase[i] # "down"
  /\ Mishap
  /\ Exit(i)
  /\ UNCHANGED <<next, table>>

Progress(i) ==
  \/ Start(i) \/ Lock(i) \/ Plan(i) \/ SetDirty(i)
  \/ Apply(i) \/ ClearDirty(i) \/ Connect(i) \/ Shutdown(i) \/ Drained(i)

Next == \E i \in Instance : Progress(i) \/ SigTerm(i) \/ Fail(i)

Spec == Init /\ [][Next]_vars

-----------------------------------------------------------------------------
Serving == {i \in Instance : phase[i] \in {"serve", "drain"}}

(* "Run schema migrations before opening the application pool so the       *)
(* service never serves against an out-of-date schema" (main.go:44-45):    *)
(* all migrations of a serving release are committed, whatever crashed or  *)
(* was upgraded before.                                                    *)
NeverOutOfDate == \A i \in Serving : Release[i] <= Len(schema)

(* Migrations are committed in order and each once, also when processes    *)
(* start together or one is killed between a migration and the record of   *)
(* it (db.go:50).                                                          *)
MigratedOnce == schema = UpTo(Len(schema))

(* The lock is held exactly while migrations are planned and run; the      *)
(* recorded version tells the schema, except that a dirty one may tell of  *)
(* a migration that is not committed.                                      *)
LockSound ==
  /\ \A i \in Instance : phase[i] \in Migrating <=> lock = i
  /\ MigratedOnce
  /\ ~dirty => Len(schema) = version
  /\ dirty => version >= 1 /\ Len(schema) \in {version - 1, version}
  /\ \A i \in Instance :
       /\ phase[i] = "mark" => ~dirty /\ next[i] = version + 1
       /\ phase[i] = "apply" => dirty /\ next[i] = version /\ Len(schema) = version - 1
       /\ phase[i] = "clear" => dirty /\ next[i] = version /\ Len(schema) = version
       /\ phase[i] \in {"mark", "apply", "clear"} => next[i] <= Release[i]
       /\ phase[i] = "connect" => Release[i] <= Len(schema)

StartupInv == TypeOK /\ LockSound /\ NeverOutOfDate
=============================================================================
