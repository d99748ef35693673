--------------------------- MODULE ArtifactDirectory ---------------------------
(***************************************************************************)
(* The protocol that the content stores of datasets/, training/,           *)
(* evaluation/ and experiment/ share.  A directory maps the entries it has *)
(* to their content.  A store makes its subdirectories, installs a marker, *)
(* then each file in sorted order, verifies what it wrote and removes the  *)
(* marker; it refuses a directory that is not empty and never cleans up.   *)
(***************************************************************************)
EXTENDS Naturals, Sequences, FiniteSets

Marker == ".INCOMPLETE"
Manifest == "manifest.json"
Subdirectory == {}               \* content of an entry that is a directory

NoDirectory == << >>
Entries(d) == DOMAIN d
Vacant(d) == Entries(d) = {}

Put(d, name, content) ==
  [n \in Entries(d) \cup {name} |-> IF n = name THEN content ELSE d[n]]
Drop(d, name) == [n \in Entries(d) \ {name} |-> d[n]]

(***************************************************************************)
(* A layout lists the subdirectories and the files in the order in which   *)
(* they are written; an artifact gives each file its content, and its      *)
(* manifest binds that of every other file.                                *)
(***************************************************************************)
WriteOrder(layout) == layout.subdirs \o <<Marker>> \o layout.files
Files(layout) == { layout.files[k] : k \in DOMAIN layout.files }
Subdirs(layout) == { layout.subdirs[k] : k \in DOMAIN layout.subdirs }

Install(d, name, artifact) ==
  Put(d, name, IF name \in DOMAIN artifact THEN artifact[name] ELSE Subdirectory)

\* Mutant: the names are compared with the layout, and no content with its hash.
FilesVerifyNames(d, layout) == Entries(d) \ (Subdirs(layout) \cup {Marker}) = Files(layout)

\* What every verify function asks of the files, the marker left aside.
FilesVerify(d, layout) ==
  /\ Manifest \in Entries(d)
  /\ Entries(d) \ (Subdirs(layout) \cup {Marker}) = Files(layout)
  /\ \A n \in Files(layout) \ {Manifest} : d[n] = d[Manifest].files[n]

Unmarked(d) == Marker \notin Entries(d)

================================================================================
