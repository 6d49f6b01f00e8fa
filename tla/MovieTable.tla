------------------------------ MODULE MovieTable ------------------------------
(***************************************************************************)
(* What adding a movie promises: a movie enters the table once, is never   *)
(* changed by another request to add it, and at most one request, the one  *)
(* that entered it, is told 201.                                           *)
(***************************************************************************)
EXTENDS Naturals

CONSTANTS Movie, Row, None

VARIABLES
  rows,  \* the row of each movie, None while it has none
  acks   \* history: how many requests were told 201

Init ==
  /\ rows = [m \in Movie |-> None]
  /\ acks = [m \in Movie |-> 0]

Enter(m, row) ==
  /\ rows[m] = None
  /\ rows' = [rows EXCEPT ![m] = row]
  /\ acks' \in {acks, [acks EXCEPT ![m] = @ + 1]}

Next == \E m \in Movie, row \in Row : Enter(m, row)

Spec == Init /\ [][Next]_<<rows, acks>>
=============================================================================
