------------------------------ MODULE MCCatalog ------------------------------
(* Catalog during an upgrade: one process of the old release and one of    *)
(* the new.  Two requests for a movie differ in the root folder, one has an*)
(* unknown quality profile, one an id that TMDb does not know.             *)
EXTENDS Catalog

CONSTANTS old, new, known, unknown, r1

MCRelease == [i \in Instance |-> IF i = old THEN 1 ELSE 2]

Ask(m, root, profile) == [movie |-> m, root |-> root, profile |-> profile]
MCAsked == {Ask(known, r1, 0), Ask(known, None, 1), Ask(known, r1, 9), Ask(unknown, r1, 0)}
=============================================================================
