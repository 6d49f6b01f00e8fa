------------------------------ MODULE Processes ------------------------------
(***************************************************************************)
(* The server processes that share a database: several copies and releases *)
(* of the program, each with the migrations embedded in it (db.go:20-22).  *)
(***************************************************************************)
EXTENDS Integers

CONSTANTS
  Instance,
  Release,      \* Release[i]: the number of migrations embedded in process i
  Latest,       \* the greatest of them
  None,
  MaxMishaps    \* bound on signals, crashes, failed statements and other errors

ASSUME ProcessesAssumption ==
  /\ Latest \in Nat \ {0}
  /\ Release \in [Instance -> 1..Latest]
  /\ None \notin Instance
  /\ MaxMishaps \in Nat
=============================================================================
