----------------------------- MODULE MCImporter -----------------------------
(***************************************************************************)
(* Importer on small disks: the library is on the filesystem of the        *)
(* download near (hard link), the downloads far and far2 on another.       *)
(***************************************************************************)
EXTENDS ImporterHistory, TLC
CONSTANTS near, far, far2

MCDevice == [x \in Path |-> IF x \in {far, far2} THEN "seedbox" ELSE "library"]

\* Handlers are alike.
Alike == Permutations(Proc)
=============================================================================
