--------------------------- MODULE DrawingStorage ---------------------------
(***************************************************************************)
(* Where boards are kept: the instance workspace of one owner (boards and  *)
(* their versions, one transaction each) and one file of a GitHub          *)
(* repository, behind the same port.  A save presents the sha it was       *)
(* opened with: "rev-<n>" of the board at the path, or the blob's hash,    *)
(* which is a function of its content.                                     *)
(***************************************************************************)
EXTENDS Naturals, FiniteSets

CONSTANTS
  Boards,        \* board ids, each used once (random UUIDs)
  Titles,        \* board titles, each with a slug of its own
  Contents,      \* board contents
  MaxRevision,   \* bound: the highest revision of a board
  MaxVersions,   \* SKETCHBLOCK_WORKSPACE_MAX_VERSIONS
  Somebody       \* whoever writes a drawing outside a session

ASSUME StorageAssumption ==
  IsFiniteSet(Boards) /\ MaxRevision \in Nat \ {0} /\ MaxVersions \in Nat \ {0}

VARIABLES
  boards,     \* app_workspace_boards, by id; "by" is history: who wrote it last
  versions,   \* app_workspace_board_versions, by board and revision
  file,       \* the file on GitHub: its content and, as history, its writer
  spent       \* ids that have been given to a board

storageVars == <<boards, versions, file, spent>>

Paths     == Titles \X (0 .. Cardinality(Boards))
\* Of a GitHub repository one file is modelled, under one path.
PathsOf(kind) == IF kind = "github" THEN {CHOOSE path \in Paths : path[2] = 0} ELSE Paths
Revisions == 1 .. MaxRevision

StorageTypes ==
  /\ spent \subseteq Boards /\ DOMAIN boards \subseteq spent
  /\ DOMAIN versions = DOMAIN boards
  /\ \A b \in DOMAIN boards :
       /\ boards[b].path \in Paths /\ boards[b].revision \in Revisions
       /\ boards[b].content \in Contents
       /\ DOMAIN versions[b] \subseteq Revisions
       /\ \A n \in DOMAIN versions[b] : versions[b][n] \in Contents
  /\ file.content \in Contents

StorageInit ==
  /\ boards = <<>> /\ versions = <<>> /\ spent = {}
  /\ file \in [content : Contents, by : {Somebody}]

-----------------------------------------------------------------------------

\* The first free path of a title, not counting the paths of the boards in except.
FreePath(title, except) ==
  LET taken == {boards[b].path : b \in DOMAIN boards \ except}
      free  == {n \in 0 .. Cardinality(Boards) : <<title, n>> \notin taken}
  IN  <<title, CHOOSE n \in free : \A m \in free : n <= m>>

\* Mutant: the oldest version that is still kept goes as well.
PrunedTooFar(kept, revision) ==
  [n \in {m \in DOMAIN kept : m > revision - MaxVersions + 1} |-> kept[n]]

\* versions of a board with one more, less those that are no longer kept.
Pruned(kept, revision) == [n \in {m \in DOMAIN kept : m > revision - MaxVersions} |-> kept[n]]

WithVersion(b, revision, content) ==
  [n \in DOMAIN versions[b] \cup {revision} |-> IF n = revision THEN content ELSE versions[b][n]]

\* A board's next revision, written by a save or a restore.
Revise(b, content, who) ==
  LET next == boards[b].revision + 1
  IN  /\ next \in Revisions
      /\ boards' = [boards EXCEPT ![b].revision = next, ![b].content = content, ![b].by = who]
      /\ versions' = [versions EXCEPT ![b] = Pruned(WithVersion(b, next, content), next)]

CreateBoard(b, title, content) ==
  /\ b \notin spent /\ spent' = spent \cup {b}
  /\ boards' = [x \in DOMAIN boards \cup {b} |-> IF x # b THEN boards[x] ELSE
       [path |-> FreePath(title, {}), revision |-> 1, content |-> content, by |-> Somebody]]
  /\ versions' = [x \in DOMAIN versions \cup {b} |->
       IF x # b THEN versions[x] ELSE [n \in {1} |-> content]]
  /\ UNCHANGED file

\* Mutant: a restore goes back to the old revision instead of adding one.
RestoreInPlace(b, revision) ==
  /\ b \in DOMAIN boards /\ revision \in DOMAIN versions[b]
  /\ boards' = [boards EXCEPT ![b].revision = revision, ![b].content = versions[b][revision]]
  /\ UNCHANGED <<versions, file, spent>>

RestoreVersion(b, revision) ==
  /\ b \in DOMAIN boards /\ revision \in DOMAIN versions[b]
  /\ Revise(b, versions[b][revision], Somebody)
  /\ UNCHANGED <<file, spent>>

RenameTo(b, title) ==
  boards' = [boards EXCEPT ![b].path = FreePath(title, {b})]

\* Mutant: the versions stay.
DropBoardOnly(b) ==
  /\ boards' = [x \in DOMAIN boards \ {b} |-> boards[x]]
  /\ UNCHANGED versions

DropBoard(b) ==
  /\ boards'   = [x \in DOMAIN boards \ {b} |-> boards[x]]
  /\ versions' = [x \in DOMAIN versions \ {b} |-> versions[x]]

-----------------------------------------------------------------------------
(* The port: open and save, of the storage kind of a repository.           *)

BoardsAt(path) == {b \in DOMAIN boards : boards[b].path = path}
BoardAt(path) == CHOOSE b \in BoardsAt(path) : TRUE

Exists(kind, path) == kind = "github" \/ BoardsAt(path) # {}

\* What is stored: the row of the board at the path, or the file.
Stored(kind, path) == IF kind = "github" THEN file ELSE boards[BoardAt(path)]

Sha(kind, path) ==
  IF kind = "github" THEN file.content ELSE boards[BoardAt(path)].revision

\* The sha a write of this content results in.
ShaAfter(kind, path, content) == IF kind = "github" THEN content ELSE Sha(kind, path) + 1

\* Mutant: the revision is not compared.
AcceptsAny(kind, path, sha) == Exists(kind, path)

Accepts(kind, path, sha) == Exists(kind, path) /\ Sha(kind, path) = sha

Write(kind, path, content, who) ==
  IF kind = "github"
    THEN file' = [content |-> content, by |-> who] /\ UNCHANGED <<boards, versions>>
    ELSE Revise(BoardAt(path), content, who) /\ UNCHANGED file

\* The editor's own save, outside a session.
SaveDrawing(kind, path, content) ==
  /\ Exists(kind, path) /\ Write(kind, path, content, Somebody)
  /\ UNCHANGED spent

-----------------------------------------------------------------------------
(* Properties.                                                             *)

\* No two boards of an owner share a path, and the versions of a board are its
\* latest MaxVersions revisions, without a gap, the newest being the board's content
\* (pruneVersions of every write, the suffix of a title that is taken).
VersionsComplete ==
  /\ \A b \in DOMAIN boards :
       /\ DOMAIN versions[b] =
            {n \in Revisions : n <= boards[b].revision /\ n + MaxVersions > boards[b].revision}
       /\ versions[b][boards[b].revision] = boards[b].content
       /\ BoardsAt(boards[b].path) = {b}

\* "History is never rewritten": revisions only grow, and a version that is kept
\* keeps its content, whatever saves, restores, renames and deletions do.
HistoryIntact ==
  [][\A b \in DOMAIN boards \cap DOMAIN boards' :
       /\ boards'[b].revision >= boards[b].revision
       /\ (boards'[b].content # boards[b].content => boards'[b].revision > boards[b].revision)
       /\ \A n \in DOMAIN versions[b] \cap DOMAIN versions'[b] : versions'[b][n] = versions[b][n]
    ]_storageVars
=============================================================================
