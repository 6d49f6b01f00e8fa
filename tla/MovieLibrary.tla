---------------------------- MODULE MovieLibrary ----------------------------
(***************************************************************************)
(* What the import pipeline promises about the database, whatever handlers *)
(* run at once and wherever they stop: a movie is shown as available only  *)
(* when a file is recorded for it, a recorded file is replaced and never   *)
(* forgotten, and the history tells of imports of available movies only.   *)
(***************************************************************************)
CONSTANTS Movie, Source, File, None

VARIABLES
  file,       \* the movie_file row of each movie, None without one
  available,  \* movies with has_file set
  log         \* downloadFolderImported rows of the history

Record(m, f) ==
  /\ file' = [file EXCEPT ![m] = f]
  /\ UNCHANGED <<available, log>>

MakeAvailable(m) ==
  /\ file[m] # None
  /\ available' = available \cup {m}
  /\ UNCHANGED <<file, log>>

Report(m, s, f) ==
  /\ m \in available
  /\ log' = log \cup {[movie |-> m, from |-> s, to |-> f]}
  /\ UNCHANGED <<file, available>>

Init ==
  /\ file = [m \in Movie |-> None]
  /\ available = {}
  /\ log = {}

Next ==
  \E m \in Movie, f \in File :
    \/ Record(m, f)
    \/ MakeAvailable(m)
    \/ \E s \in Source : Report(m, s, f)

Spec == Init /\ [][Next]_<<file, available, log>>
=============================================================================
