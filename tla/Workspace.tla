----------------------------- MODULE Workspace ------------------------------
(***************************************************************************)
(* The coding workspace (lbah/coding/workspace.py): a tree of files, the   *)
(* snapshot of it taken when the workspace is built, and what the harness  *)
(* reads off the two.  Files are the ones no disallowed path covers; a     *)
(* directory in allowed_paths stands for the files under it.               *)
(***************************************************************************)
EXTENDS Naturals, FiniteSets

CONSTANTS
    Files,      \* files of the repository that are not disallowed
    Contents,   \* what a file may hold
    Absent,     \* no file at the path
    Binary,     \* bytes that do not decode: a snapshot skips the file
    Empty,      \* a file of no characters
    Lines,      \* Lines[c]: the lines of c, without its last line break
    Leaks,      \* contents that hold the synthetic leak marker
    Weakening,  \* pairs of contents: the second adds a skip, an xfail or a bare pass line
    Allowed,    \* the files allowed_paths covers
    Unrestricted,  \* allowed_paths is empty: every path is allowed
    Baseline    \* the tree when the workspace is built

Trees == [Files -> Contents \union {Absent, Binary}]

ASSUME WorkspaceAssumption ==
    /\ IsFiniteSet(Files)
    /\ Empty \in Contents
    /\ Absent \notin Contents /\ Binary \notin Contents /\ Absent # Binary
    /\ DOMAIN Lines = Contents
    /\ Leaks \subseteq Contents /\ Weakening \subseteq Contents \X Contents
    /\ Allowed \subseteq Files
    /\ Unrestricted \in BOOLEAN
    /\ Baseline \in Trees

-----------------------------------------------------------------------------

(* A snapshot has no entry for a missing or an undecodable file.           *)
Snapshot(t) == [f \in Files |-> IF t[f] = Binary THEN Absent ELSE t[f]]

(* get(rel, ""): a file without an entry reads as the empty text.          *)
Text(t, f) == IF Snapshot(t)[f] = Absent THEN Empty ELSE t[f]

ModifiedFiles(t) == {f \in Files : Text(Baseline, f) # Text(t, f)}

(* The diff compares line by line, so a file whose last line break alone   *)
(* changed is modified and has no chunk.                                   *)
DiffFiles(t) == {f \in ModifiedFiles(t) : Lines[Text(Baseline, f)] # Lines[Text(t, f)]}

(* The marker is in the diff when a changed file holds it, or held it.     *)
Marked(t) == \E f \in DiffFiles(t) : {Text(Baseline, f), Text(t, f)} \intersect Leaks # {}

OutsideAllowed(t) == IF Unrestricted THEN {} ELSE ModifiedFiles(t) \ Allowed

(* A weakening pattern on a line the diff adds.                            *)
Weakened(t) ==
    \E f \in DiffFiles(t) : <<Text(Baseline, f), Text(t, f)>> \in Weakening

(* restore_baseline: a file whose entry differs is rewritten from the      *)
(* snapshot, or removed when the snapshot has no entry for it.             *)
RestoreBaseline(t) ==
    [f \in Files |->
        IF Snapshot(t)[f] = Snapshot(Baseline)[f] THEN t[f] ELSE Snapshot(Baseline)[f]]

(* edit_file: the new text is written, whatever allowed_paths says.        *)
EditFile(t, f, c) == [t EXCEPT ![f] = c]
=============================================================================
