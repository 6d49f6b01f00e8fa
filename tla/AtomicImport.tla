---------------------------- MODULE AtomicImport ----------------------------
(***************************************************************************)
(* What a caller of importer.Import may count on, without the system calls *)
(* it is made of: a call may take away what its destination held, and then *)
(* either places its source there in one step, and succeeds, or fails and  *)
(* places nothing.  Only a call that ran at the same time as another one   *)
(* to its destination may place a torn file.                               *)
(***************************************************************************)
CONSTANTS Proc, Download, Dest, Torn, None

VARIABLES
  call,  \* the request each handler makes of Import, and its result
  met,   \* running calls that ran beside another one to their destination
  held   \* what each library path holds: a download, Torn, or None

Idle == [src |-> None, dst |-> None, result |-> "idle"]
Running == {p \in Proc : call[p].result = "running"}

Begin(p, s, d) ==
  /\ call[p].result = "idle"
  /\ call' = [call EXCEPT ![p] = [src |-> s, dst |-> d, result |-> "running"]]
  /\ UNCHANGED held

Take(p) ==
  /\ p \in Running
  /\ held[call[p].dst] # None
  /\ held' = [held EXCEPT ![call[p].dst] = None]
  /\ UNCHANGED call

\* A library file that is imported again may be any download, or torn.
Outcome(p) ==
  IF call[p].src \in Download
  THEN {call[p].src} \cup {t \in {Torn} : p \in met}
  ELSE Download \cup {Torn}

Place(p) ==
  /\ p \in Running
  /\ \E c \in Outcome(p) : held' = [held EXCEPT ![call[p].dst] = c]
  /\ call' = [call EXCEPT ![p].result = "ok"]

GiveUp(p) ==
  /\ p \in Running
  /\ call' = [call EXCEPT ![p].result = "failed"]
  /\ UNCHANGED held

Return(p) ==
  /\ call[p].result \in {"ok", "failed"}
  /\ call' = [call EXCEPT ![p] = Idle]
  /\ UNCHANGED held

Crash ==
  /\ call' = [p \in Proc |-> Idle]
  /\ UNCHANGED held

Meet ==
  met' = {p \in Running' :
            p \in met \/ \E q \in Running' \ {p} : call'[q].dst = call'[p].dst}

Init ==
  /\ call = [p \in Proc |-> Idle]
  /\ met = {}
  /\ held = [d \in Dest |-> None]

Next ==
  /\ \/ \E p \in Proc : \/ \E s \in Download \cup Dest, d \in Dest : Begin(p, s, d)
                        \/ Take(p) \/ Place(p) \/ GiveUp(p) \/ Return(p)
     \/ Crash
  /\ Meet

Spec == Init /\ [][Next]_<<call, met, held>>
=============================================================================
