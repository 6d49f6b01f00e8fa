-------------------------- MODULE ImporterHistory --------------------------
(***************************************************************************)
(* Importer with a history variable, and the proof obligation it is for:   *)
(* the system calls of Import implement AtomicImport.                      *)
(***************************************************************************)
EXTENDS Importer

CONSTANT Torn  \* stands for a library file that two copies have written

ASSUME TornAssumption == Torn \notin Download \cup {None}

VARIABLE met   \* history: calls that ran beside another one to their destination

InitH == Init /\ met = {}

Meet ==
  met' = {p \in Proc :
            /\ Active(p)'
            /\ p \in met \/ \E q \in Proc \ {p} : Active(q)' /\ dst'[q] = dst'[p]}

NextH == Next /\ Meet

SpecH == InitH /\ [][NextH]_<<vars, met>>

-----------------------------------------------------------------------------
\* The abstract state: calls without their place in Import, and what is seen
\* under the names of the library.
call == [p \in Proc |-> [src    |-> src[p],
                         dst    |-> dst[p],
                         result |-> IF Active(p) THEN "running" ELSE pc[p]]]
held == [d \in Dest |->
  IF dir[d] = None THEN None
  ELSE IF dir[d] \in suspect THEN Torn
  ELSE CHOOSE s \in Download : data[dir[d]] = Whole(s)]

Atomic == INSTANCE AtomicImport

(* "Import places src at dest" (importer.go:100) in one step for whoever    *)
(* looks at the library, although it is up to eight system calls that       *)
(* interleave with those of other handlers, fail, or stop in a crash: a     *)
(* failed call has placed nothing, and a call that no other one to its      *)
(* destination met has placed its source whole.                             *)
KeepsAtomicImport == Atomic!Spec

-----------------------------------------------------------------------------
(* Inductive strengthening: calls of one destination know of each other,    *)
(* and only they write to a partial file that is suspect.                   *)
MetInv ==
  /\ met \subseteq {p \in Proc : Active(p)}
  /\ \A p, q \in Proc : p # q /\ Active(p) /\ Active(q) /\ dst[p] = dst[q] => p \in met
  /\ \A p \in Proc :
       /\ Writing(p) /\ src[p] \in Download
       /\ partial[dst[p]] # None /\ partial[dst[p]] \in suspect
       => p \in met
=============================================================================
