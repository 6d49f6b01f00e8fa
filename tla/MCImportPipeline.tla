-------------------------- MODULE MCImportPipeline --------------------------
(***************************************************************************)
(* ImportPipeline on one or two movies.  Root folder 1 is on the           *)
(* filesystem of the download near, root folder 2 on that of far and far2; *)
(* near and far have one quality, so they compete for one file name.       *)
(***************************************************************************)
EXTENDS ImportPipeline, TLC

CONSTANTS near, far, far2, pinned, loose

Quality(s) == IF s = far2 THEN "sd" ELSE "hd"
MCDest == [root : Root, folder : Movie, label : {Quality(s) : s \in Download}]
MCLabelOf == [x \in Download \cup MCDest |-> IF x \in Download THEN Quality(x) ELSE x.label]
MCDevice == [x \in Download \cup MCDest |->
  IF x \in {far, far2} THEN 2 ELSE IF x = near THEN 1 ELSE x.root]
MCFolderOf == [m \in Movie |-> m]
MCPinnedRoot == [m \in Movie |-> IF m = pinned THEN 1 ELSE None]

\* Requests name one download, or a directory with all of them ...
OneOrAll == {{s} : s \in Download} \cup {Download}
\* ... or the movie's folder in the library.
LibraryToo == OneOrAll \cup {{d \in MCDest : d.folder = m} : m \in Movie}

\* Handlers are alike.
Alike == Permutations(Proc)
=============================================================================
