------------------------- MODULE DrawingSavesProofs -------------------------
(***************************************************************************)
(* What saves, restores, renames and deletions do to drawings, for any     *)
(* number of boards, sessions and requests: paths stay apart and versions  *)
(* without a gap, history is not rewritten, a session's save replaces what *)
(* the session had seen, and it is in no conflict with its own save.  And  *)
(* the board editor: it overwrites only what its canvas was drawn from,    *)
(* and what it has not saved it shows as unsaved.  With the types of the   *)
(* life cycle, which need the drawings' invariant, and of the editor.      *)
(***************************************************************************)
EXTENDS SessionLifecycleProofs, BoardEditor, FiniteSetTheorems

-----------------------------------------------------------------------------
(* A title has a free path.                                                *)

LEMMA LeastNatural ==
  ASSUME NEW S \in SUBSET Nat, S # {}
  PROVE  \E n \in S : \A m \in S : n <= m
<1>1. \A x, y \in Nat : y < x => <<y, x>> \in OpToRel(<, Nat)
  BY DEF OpToRel
<1>2. PICK R : IsWellFoundedOn(R, Nat) /\ \A x, y \in Nat : y < x => <<y, x>> \in R
  BY <1>1, NatLessThanWellFounded, Zenon
<1>3. PICK x \in S : \A y \in S : ~ (<<y, x>> \in R)
  BY <1>2, WFMin
<1>4. \A y \in S : ~(y < x)
  BY <1>2, <1>3, Zenon
<1>5. \A y \in S : x <= y
  BY <1>4
<1> QED BY <1>5

\* There are more numbers to try than boards.
LEMMA SomePathIsFree ==
  ASSUME DOMAIN boards \subseteq Boards, NEW title, NEW except
  PROVE  \E n \in 0 .. Cardinality(Boards) :
           <<title, n>> \notin {boards[b].path : b \in DOMAIN boards \ except}
<1> DEFINE N     == Cardinality(Boards)
           taken == {boards[b].path : b \in DOMAIN boards \ except}
<1>1. IsFiniteSet(Boards) /\ N \in Nat
  BY StorageAssumption, FS_CardinalityType
<1>2. IsFiniteSet(0 .. N) /\ Cardinality(0 .. N) = N + 1
  BY <1>1, FS_Interval
<1> SUFFICES ASSUME \A n \in 0 .. N : <<title, n>> \in taken
             PROVE  FALSE
  OBVIOUS
<1>3. \A n \in 0 .. N : \E b \in Boards : boards[b].path = <<title, n>>
  OBVIOUS
<1> DEFINE f == [n \in 0 .. N |-> CHOOSE b \in Boards : boards[b].path = <<title, n>>]
<1>4. \A n \in 0 .. N : f[n] \in Boards /\ boards[f[n]].path = <<title, n>>
  BY <1>3
<1>5. f \in [0 .. N -> Boards]
  BY <1>4
<1>6. N < Cardinality(0 .. N)
  BY <1>1, <1>2
<1> HIDE DEF f, N
<1>7. PICK x, y \in 0 .. N : x # y /\ f[x] = f[y]
  BY <1>1, <1>2, <1>5, <1>6, FS_PigeonHole DEF N
<1> QED BY <1>4, <1>7

LEMMA PathIsFree ==
  ASSUME DOMAIN boards \subseteq Boards, NEW title, NEW except, NEW b \in DOMAIN boards \ except
  PROVE  boards[b].path # FreePath(title, except)
<1> DEFINE taken == {boards[x].path : x \in DOMAIN boards \ except}
           free  == {n \in 0 .. Cardinality(Boards) : <<title, n>> \notin taken}
           least == CHOOSE n \in free : \A m \in free : n <= m
<1>1. FreePath(title, except) = <<title, least>>
  BY DEF FreePath
<1>2. free # {}
  BY SomePathIsFree
<1>3. Cardinality(Boards) \in Nat
  BY StorageAssumption, FS_CardinalityType
<1>4. free \in SUBSET Nat
  BY <1>3
<1> HIDE DEF free
<1>5. least \in free
  BY <1>2, <1>4, LeastNatural
<1>6. <<title, least>> \notin taken
  BY <1>5 DEF free
<1> HIDE DEF least
<1>7. boards[b].path \in taken
  OBVIOUS
<1> QED BY <1>1, <1>6, <1>7

-----------------------------------------------------------------------------
(* The storage.                                                            *)

IsBoard(board) ==
  board = [path |-> board.path, revision |-> board.revision, content |-> board.content, by |-> board.by]
Kept(revision) == {n \in Revisions : n <= revision /\ n + MaxVersions > revision}

StorageInv ==
  /\ DOMAIN boards \subseteq spent /\ spent \subseteq Boards /\ DOMAIN versions = DOMAIN boards
  /\ \A b \in DOMAIN boards :
       /\ IsBoard(boards[b]) /\ boards[b].revision \in Revisions
       /\ DOMAIN versions[b] = Kept(boards[b].revision)
       /\ versions[b][boards[b].revision] = boards[b].content
       /\ \A c \in DOMAIN boards : boards[b].path = boards[c].path => b = c

\* What a step may do to a board and to the ids.
HistoryKept ==
  /\ spent \subseteq spent' /\ \A b \in spent : b \in DOMAIN boards' => b \in DOMAIN boards
  /\ \A b \in DOMAIN boards \cap DOMAIN boards' :
       /\ boards'[b].revision >= boards[b].revision
       /\ boards'[b].content # boards[b].content => boards'[b].revision > boards[b].revision
       /\ \A n \in DOMAIN versions[b] \cap DOMAIN versions'[b] : versions'[b][n] = versions[b][n]

\* A board as a write leaves it.
Written(b, content, who) ==
  [path |-> boards[b].path, revision |-> boards[b].revision + 1, content |-> content, by |-> who]

LEMMA ReviseWrites ==
  ASSUME StorageInv, NEW b \in DOMAIN boards, NEW content, NEW who, Revise(b, content, who)
  PROVE  boards' = [boards EXCEPT ![b] = Written(b, content, who)] /\ boards[b].revision + 1 \in Revisions
<1> DEFINE board == [boards[b] EXCEPT !.revision = boards[b].revision + 1, !.content = content, !.by = who]
<1>1. boards' = [boards EXCEPT ![b] = board] /\ boards[b].revision + 1 \in Revisions
  BY DEF Revise
<1>2. boards[b] = [path |-> boards[b].path, revision |-> boards[b].revision,
                   content |-> boards[b].content, by |-> boards[b].by]
  BY DEF StorageInv, IsBoard
<1>3. board = [boards[b] EXCEPT !.revision = boards[b].revision + 1, !.content = content, !.by = who]
  OBVIOUS
<1> HIDE DEF board
<1>4. board = Written(b, content, who)
  BY <1>2, <1>3 DEF Written
<1> QED BY <1>1, <1>4

\* The versions that a write keeps, and what they hold.
LEMMA ReviseVersions ==
  ASSUME StorageInv, NEW b \in DOMAIN boards, NEW content, NEW who, Revise(b, content, who)
  PROVE  LET next == boards[b].revision + 1
         IN  /\ DOMAIN versions' = DOMAIN versions
             /\ \A c \in DOMAIN versions \ {b} : versions'[c] = versions[c]
             /\ DOMAIN versions'[b] = Kept(next) /\ versions'[b][next] = content
             /\ \A n \in DOMAIN versions[b] \cap Kept(next) : versions'[b][n] = versions[b][n]
<1> DEFINE revision == boards[b].revision
           next     == revision + 1
           with     == WithVersion(b, next, content)
<1>1. MaxRevision \in Nat /\ MaxVersions \in Nat \ {0} /\ revision \in 1 .. MaxRevision /\ next \in 1 .. MaxRevision
  BY StorageAssumption DEF StorageInv, Revise, Revisions
<1>2. DOMAIN versions[b] = Kept(revision) /\ b \in DOMAIN versions
  BY DEF StorageInv
<1>3. versions' = [versions EXCEPT ![b] = Pruned(with, next)]
  BY DEF Revise
<1>4. /\ DOMAIN with = Kept(revision) \cup {next} /\ with[next] = content
      /\ \A n \in Kept(revision) : n # next => with[n] = versions[b][n]
  BY <1>2 DEF WithVersion
<1>5. \A n \in Kept(revision) : n # next
  BY <1>1 DEF Kept, Revisions
<1> HIDE DEF with
<1>6. \A n \in Revisions : n \in Kept(next) <=> n \in DOMAIN with /\ n > next - MaxVersions
  <2>1. \A n \in Revisions : n \in Kept(next) <=> n <= revision + 1 /\ n + MaxVersions > revision + 1
    BY DEF Kept
  <2>2. \A n \in Revisions : n \in DOMAIN with <=> n = revision + 1 \/ (n <= revision /\ n + MaxVersions > revision)
    BY <1>4 DEF Kept
  <2>3. ASSUME NEW n \in Revisions
        PROVE  (n <= revision + 1 /\ n + MaxVersions > revision + 1)
                 <=> (n = revision + 1 \/ (n <= revision /\ n + MaxVersions > revision)) /\ n > (revision + 1) - MaxVersions
    <3> HIDE DEF revision
    <3> QED BY <1>1 DEF Revisions
  <2> QED BY <2>1, <2>2, <2>3
<1>7. DOMAIN with \subseteq Revisions
  BY <1>1, <1>4 DEF Kept, Revisions
<1>8. {m \in DOMAIN with : m > next - MaxVersions} = Kept(next)
  BY <1>6, <1>7 DEF Kept
<1>9. DOMAIN Pruned(with, next) = Kept(next) /\ \A n \in Kept(next) : Pruned(with, next)[n] = with[n]
  BY <1>8 DEF Pruned
<1>10. next \in Kept(next)
  BY <1>1 DEF Kept, Revisions
<1> HIDE DEF next, revision
<1>11. versions'[b] = Pruned(with, next)
  BY <1>2, <1>3
<1>12. /\ DOMAIN versions' = DOMAIN versions /\ \A c \in DOMAIN versions \ {b} : versions'[c] = versions[c]
       /\ DOMAIN versions'[b] = Kept(next) /\ versions'[b][next] = content
  BY <1>3, <1>4, <1>9, <1>10, <1>11
<1>13. \A n \in DOMAIN versions[b] \cap Kept(next) : versions'[b][n] = versions[b][n]
  BY <1>2, <1>4, <1>5, <1>9, <1>11
<1> QED BY <1>12, <1>13 DEF next, revision

LEMMA WrittenFields ==
  ASSUME NEW b, NEW content, NEW who
  PROVE  LET board == Written(b, content, who)
         IN  /\ IsBoard(board) /\ board.path = boards[b].path /\ board.revision = boards[b].revision + 1
             /\ board.content = content /\ board.by = who
  BY DEF Written, IsBoard

LEMMA ReviseStorage ==
  ASSUME StorageInv, NEW b \in DOMAIN boards, NEW content, NEW who, Revise(b, content, who), UNCHANGED spent
  PROVE  StorageInv' /\ HistoryKept
<1> DEFINE board == Written(b, content, who)
           next  == boards[b].revision + 1
<1>1. boards' = [boards EXCEPT ![b] = board] /\ next \in Revisions
  BY ReviseWrites
<1>2. /\ IsBoard(board) /\ board.path = boards[b].path /\ board.revision = next /\ board.content = content
  BY WrittenFields
<1>3. /\ DOMAIN versions' = DOMAIN versions
      /\ \A c \in DOMAIN versions \ {b} : versions'[c] = versions[c]
      /\ DOMAIN versions'[b] = Kept(next) /\ versions'[b][next] = content
      /\ \A n \in DOMAIN versions[b] \cap Kept(next) : versions'[b][n] = versions[b][n]
  BY ReviseVersions
<1> HIDE DEF board
<1>4. DOMAIN boards' = DOMAIN boards /\ boards'[b] = board /\ \A c \in DOMAIN boards \ {b} : boards'[c] = boards[c]
  BY <1>1
<1>5. \A c \in DOMAIN boards : boards'[c].path = boards[c].path
  BY <1>2, <1>4
<1>6. ASSUME NEW c \in DOMAIN boards
      PROVE  /\ IsBoard(boards'[c]) /\ boards'[c].revision \in Revisions
             /\ DOMAIN versions'[c] = Kept(boards'[c].revision)
             /\ versions'[c][boards'[c].revision] = boards'[c].content
  BY <1>1, <1>2, <1>3, <1>4 DEF StorageInv
<1>7. \A c \in DOMAIN boards : \A d \in DOMAIN boards : boards'[c].path = boards'[d].path => c = d
  BY <1>5 DEF StorageInv
<1>8. StorageInv'
  <2>1. DOMAIN versions' = DOMAIN boards' /\ DOMAIN boards' \subseteq spent' /\ spent' \subseteq Boards
    BY <1>3, <1>4 DEF StorageInv
  <2>2. \A c \in DOMAIN boards' : c \in DOMAIN boards
    BY <1>4
  <2> QED BY <1>6, <1>7, <2>1, <2>2 DEF StorageInv, Kept, Revisions, IsBoard
<1>9. next > boards[b].revision
  <2>1. boards[b].revision \in Nat
    BY StorageAssumption DEF StorageInv, Revisions
  <2> QED BY <2>1
<1>10. HistoryKept
  <2>1. ASSUME NEW c \in DOMAIN boards
        PROVE  /\ boards'[c].revision >= boards[c].revision
               /\ boards'[c].content # boards[c].content => boards'[c].revision > boards[c].revision
               /\ \A n \in DOMAIN versions[c] \cap DOMAIN versions'[c] : versions'[c][n] = versions[c][n]
    <3>1. boards[c].revision \in Nat
      BY StorageAssumption DEF StorageInv, Revisions
    <3>2. CASE c = b
      BY <1>2, <1>3, <1>4, <1>9, <3>1, <3>2
    <3>3. CASE c # b
      BY <1>3, <1>4, <3>1, <3>3 DEF StorageInv
    <3> QED BY <3>2, <3>3
  <2> QED BY <1>4, <2>1 DEF HistoryKept
<1> QED BY <1>8, <1>10

LEMMA CreateStorage ==
  ASSUME StorageInv, NEW b \in Boards, NEW title, NEW content, CreateBoard(b, title, content)
  PROVE  StorageInv' /\ HistoryKept
<1> DEFINE board == [path |-> FreePath(title, {}), revision |-> 1, content |-> content, by |-> Somebody]
<1>1. b \notin spent /\ b \notin DOMAIN boards /\ DOMAIN versions = DOMAIN boards /\ spent' = spent \cup {b}
  BY DEF CreateBoard, StorageInv
<1>2. /\ DOMAIN boards' = DOMAIN boards \cup {b} /\ boards'[b] = board
      /\ \A c \in DOMAIN boards : boards'[c] = boards[c]
  BY <1>1 DEF CreateBoard
<1>3. /\ DOMAIN versions' = DOMAIN versions \cup {b} /\ versions'[b] = [n \in {1} |-> content]
      /\ \A c \in DOMAIN versions : versions'[c] = versions[c]
  BY <1>1 DEF CreateBoard
<1>4. \A c \in DOMAIN boards : boards[c].path # board.path
  BY PathIsFree DEF StorageInv
<1>5. IsBoard(board) /\ board.revision = 1 /\ board.content = content /\ 1 \in Revisions /\ Kept(1) = {1}
  <2>1. MaxRevision \in Nat \ {0} /\ MaxVersions \in Nat \ {0}
    BY StorageAssumption
  <2>2. 1 \in Revisions /\ Kept(1) = {1}
    BY <2>1 DEF Kept, Revisions
  <2> QED BY <2>2 DEF IsBoard
<1> HIDE DEF board
<1>6. ASSUME NEW c \in DOMAIN boards'
      PROVE  /\ IsBoard(boards'[c]) /\ boards'[c].revision \in Revisions
             /\ DOMAIN versions'[c] = Kept(boards'[c].revision)
             /\ versions'[c][boards'[c].revision] = boards'[c].content
  <2>1. CASE c = b
    BY <1>2, <1>3, <1>5, <2>1
  <2>2. CASE c # b
    <3>1. c \in DOMAIN boards /\ c \in DOMAIN versions
      BY <1>1, <1>2, <2>2
    <3> QED BY <1>2, <1>3, <3>1 DEF StorageInv
  <2> QED BY <2>1, <2>2
<1>7. \A c, d \in DOMAIN boards' : boards'[c].path = boards'[d].path => c = d
  BY <1>2, <1>4 DEF StorageInv
<1>8. StorageInv'
  <2>1. DOMAIN versions' = DOMAIN boards' /\ DOMAIN boards' \subseteq spent' /\ spent' \subseteq Boards
    BY <1>1, <1>2, <1>3 DEF StorageInv
  <2> QED BY <1>6, <1>7, <2>1 DEF StorageInv, Kept, Revisions, IsBoard
<1>9. HistoryKept
  <2>1. ASSUME NEW c \in DOMAIN boards
        PROVE  boards'[c] = boards[c] /\ versions'[c] = versions[c] /\ boards[c].revision \in Nat
    BY <1>1, <1>2, <1>3, StorageAssumption DEF StorageInv, Revisions
  <2>2. \A c \in spent : c \in DOMAIN boards' => c \in DOMAIN boards
    BY <1>1, <1>2
  <2> QED BY <1>1, <2>1, <2>2 DEF HistoryKept
<1> QED BY <1>8, <1>9

LEMMA RenameStorage ==
  ASSUME StorageInv, NEW b \in DOMAIN boards, NEW title, RenameTo(b, title), UNCHANGED <<versions, spent>>
  PROVE  StorageInv' /\ HistoryKept
<1> DEFINE path  == FreePath(title, {b})
           board == [boards[b] EXCEPT !.path = path]
<1>1. DOMAIN boards' = DOMAIN boards /\ boards'[b] = board /\ \A c \in DOMAIN boards \ {b} : boards'[c] = boards[c]
  BY DEF RenameTo
<1>2. \A c \in DOMAIN boards \ {b} : boards[c].path # path
  BY PathIsFree DEF StorageInv
<1>3. boards[b] = [path |-> boards[b].path, revision |-> boards[b].revision,
                   content |-> boards[b].content, by |-> boards[b].by]
  BY DEF StorageInv, IsBoard
<1>4. board = [boards[b] EXCEPT !.path = path]
  OBVIOUS
<1> HIDE DEF board, path
<1>5. board = [path |-> path, revision |-> boards[b].revision, content |-> boards[b].content, by |-> boards[b].by]
  BY <1>3, <1>4
<1>6. IsBoard(board) /\ board.path = path /\ board.revision = boards[b].revision /\ board.content = boards[b].content
  BY <1>5 DEF IsBoard
<1>7. ASSUME NEW c \in DOMAIN boards
      PROVE  /\ IsBoard(boards'[c]) /\ boards'[c].revision = boards[c].revision
             /\ boards'[c].content = boards[c].content
  BY <1>1, <1>6 DEF StorageInv
<1>8. \A c, d \in DOMAIN boards : boards'[c].path = boards'[d].path => c = d
  BY <1>1, <1>2, <1>6 DEF StorageInv
<1>9. StorageInv'
  <2>1. ASSUME NEW c \in DOMAIN boards
        PROVE  /\ boards'[c].revision \in Revisions /\ DOMAIN versions'[c] = Kept(boards'[c].revision)
               /\ versions'[c][boards'[c].revision] = boards'[c].content
    BY <1>7 DEF StorageInv
  <2> QED BY <1>1, <1>7, <1>8, <2>1 DEF StorageInv, Kept, Revisions, IsBoard
<1>10. HistoryKept
  <2>1. \A c \in DOMAIN boards : boards[c].revision \in Nat
    BY StorageAssumption DEF StorageInv, Revisions
  <2> QED BY <1>1, <1>7, <2>1 DEF HistoryKept
<1> QED BY <1>9, <1>10

LEMMA DropStorage ==
  ASSUME StorageInv, NEW b, DropBoard(b), UNCHANGED spent
  PROVE  StorageInv' /\ HistoryKept
<1>1. /\ DOMAIN boards' = DOMAIN boards \ {b} /\ \A c \in DOMAIN boards' : boards'[c] = boards[c]
      /\ DOMAIN versions' = DOMAIN boards \ {b} /\ \A c \in DOMAIN boards' : versions'[c] = versions[c]
  BY DEF DropBoard, StorageInv
<1>2. StorageInv'
  BY <1>1 DEF StorageInv, Kept, Revisions, IsBoard
<1>3. \A c \in DOMAIN boards : boards[c].revision \in Nat
  BY StorageAssumption DEF StorageInv, Revisions
<1> QED BY <1>1, <1>2, <1>3 DEF HistoryKept

LEMMA SameStorage ==
  ASSUME StorageInv, UNCHANGED <<boards, versions, spent>>
  PROVE  StorageInv' /\ HistoryKept
<1>1. \A c \in DOMAIN boards : boards[c].revision \in Nat
  BY StorageAssumption DEF StorageInv, Revisions
<1>2. StorageInv'
  BY DEF StorageInv, Kept, Revisions, IsBoard
<1> QED BY <1>1, <1>2 DEF HistoryKept

\* The board at a path that exists.
LEMMA BoardThere ==
  ASSUME NEW kind, NEW path, Exists(kind, path), kind # "github"
  PROVE  BoardAt(path) \in DOMAIN boards /\ boards[BoardAt(path)].path = path
<1>1. BoardsAt(path) # {}
  BY DEF Exists
<1>2. BoardAt(path) \in BoardsAt(path)
  BY <1>1 DEF BoardAt
<1> QED BY <1>2 DEF BoardsAt

LEMMA WriteStorage ==
  ASSUME StorageInv, NEW kind, NEW path, NEW content, NEW who, Exists(kind, path),
         Write(kind, path, content, who), UNCHANGED spent
  PROVE  StorageInv' /\ HistoryKept
<1>1. CASE kind = "github"
  BY <1>1, SameStorage DEF Write
<1>2. CASE kind # "github"
  BY <1>2, BoardThere, ReviseStorage DEF Write
<1> QED BY <1>1, <1>2

-----------------------------------------------------------------------------
(* Which steps of the sessions' life touch the storage.                    *)

LEMMA StorageSteps ==
  ASSUME [LifecycleNext]_lifecycleVars
  PROVE  \/ UNCHANGED storageVars
         \/ \E r \in WebRequests : SaveCommit(r) \/ DeleteBoardDrop(r) \/ \E title \in Titles : RenameWrite(r, title)
         \/ ChangeDrawing
<1>1. ASSUME NEW r \in WebRequests, CreateStep(r)
      PROVE  UNCHANGED storageVars
  BY <1>1 DEF CreateStep, CreateOpen, CreateUpload, CreateInsert, CreateRegister, CreateUndo, CreateInvites
<1>2. ASSUME NEW r \in WebRequests, SaveStep(r)
      PROVE  UNCHANGED storageVars \/ SaveCommit(r)
  BY <1>2 DEF SaveStep, SaveRead, SaveSnapshot, SaveOpen, SaveStatus, SaveBase, SaveRow
<1>3. ASSUME NEW r \in WebRequests, StatusStep(r)
      PROVE  UNCHANGED storageVars
  BY <1>3 DEF StatusStep, StatusRead, StatusCollab, StatusRow, StatusPurge, StatusRevoke
<1>4. ASSUME NEW r \in WebRequests, StateStep(r)
      PROVE  UNCHANGED storageVars
  BY <1>4 DEF StateStep, ListRead, DeleteRow, EnsureRead, WriteRead, ListInvites, DeleteClose,
              EnsureRegister, WriteUpsert
<1>5. ASSUME NEW r \in WebRequests, PurgeStep(r)
      PROVE  UNCHANGED storageVars
  BY <1>5 DEF PurgeStep, PurgeList, PurgeRows, PurgeCollab
<1>6. ASSUME NEW r \in WebRequests, BoardStep(r)
      PROVE  UNCHANGED storageVars \/ DeleteBoardDrop(r) \/ \E title \in Titles : RenameWrite(r, title)
  BY <1>6 DEF BoardStep, RenameRead, DeleteBoardRead, DeleteBoardClose, DeleteBoardRow
<1>7. ASSUME NEW r \in WebRequests, Abort(r)
      PROVE  UNCHANGED storageVars
  BY <1>7 DEF Abort
<1>8. ASSUME NEW s \in Sessions, Expire(s) \/ Elapse(s) \/ \E c \in Contents : Edit(s, c)
      PROVE  UNCHANGED storageVars
  BY <1>8 DEF Expire, Elapse, Edit
<1>9. CASE UNCHANGED lifecycleVars
  BY <1>9 DEF lifecycleVars
<1>10. ASSUME NEW r \in WebRequests, CollabStep(r)
       PROVE  UNCHANGED storageVars
  BY <1>10 DEF CollabStep, MoveEnds
<1> QED BY <1>1, <1>2, <1>3, <1>4, <1>5, <1>6, <1>7, <1>8, <1>9, <1>10 DEF LifecycleNext

LEMMA StorageNext ==
  ASSUME StorageInv, [LifecycleNext]_lifecycleVars
  PROVE  StorageInv' /\ HistoryKept
<1>1. CASE UNCHANGED storageVars
  BY <1>1, SameStorage DEF storageVars
<1>2. ASSUME NEW r \in WebRequests, SaveCommit(r)
      PROVE  StorageInv' /\ HistoryKept
  <2>1. CASE Accepts(request[r].kind, request[r].path, request[r].sha)
    BY <1>2, <2>1, WriteStorage DEF SaveCommit, Accepts
  <2>2. CASE ~Accepts(request[r].kind, request[r].path, request[r].sha)
    BY <1>2, <2>2, SameStorage DEF SaveCommit
  <2> QED BY <2>1, <2>2
<1>3. ASSUME NEW r \in WebRequests, DeleteBoardDrop(r)
      PROVE  StorageInv' /\ HistoryKept
  BY <1>3, DropStorage DEF DeleteBoardDrop
<1>4. ASSUME NEW r \in WebRequests, NEW title \in Titles, RenameWrite(r, title)
      PROVE  StorageInv' /\ HistoryKept
  BY <1>4, RenameStorage, SameStorage DEF RenameWrite
<1>5. CASE ChangeDrawing
  <2>1. ASSUME NEW b \in Boards, NEW t \in Titles, NEW c \in Contents, CreateBoard(b, t, c)
        PROVE  StorageInv' /\ HistoryKept
    BY <2>1, CreateStorage
  <2>2. ASSUME NEW b \in Boards, NEW n \in Revisions, RestoreVersion(b, n)
        PROVE  StorageInv' /\ HistoryKept
    BY <2>2, ReviseStorage DEF RestoreVersion
  <2>3. ASSUME NEW k, NEW p, NEW c, SaveDrawing(k, p, c)
        PROVE  StorageInv' /\ HistoryKept
    BY <2>3, WriteStorage DEF SaveDrawing
  <2> QED BY <1>5, <2>1, <2>2, <2>3 DEF ChangeDrawing
<1> QED BY <1>1, <1>2, <1>3, <1>4, <1>5, StorageSteps

LEMMA StorageHolds == LifecycleSpec => []StorageInv
<1>1. LifecycleInit => StorageInv
  BY DEF LifecycleInit, StorageInit, StorageInv
<1>2. StorageInv /\ [LifecycleNext]_lifecycleVars => StorageInv'
  BY StorageNext
<1> QED BY <1>1, <1>2, PTL DEF LifecycleSpec

\* No two boards of an owner share a path, and the versions of a board are its latest
\* MaxVersions revisions, without a gap, the newest being the board's content: every
\* write prunes what it may, and the suffix of a taken title is a free one.
THEOREM VersionsAreComplete == LifecycleSpec => []VersionsComplete
<1>1. StorageInv => VersionsComplete
  <2> SUFFICES ASSUME StorageInv, NEW b \in DOMAIN boards
               PROVE  /\ DOMAIN versions[b] =
                           {n \in Revisions : n <= boards[b].revision /\ n + MaxVersions > boards[b].revision}
                      /\ versions[b][boards[b].revision] = boards[b].content
                      /\ BoardsAt(boards[b].path) = {b}
    BY DEF VersionsComplete
  <2>1. BoardsAt(boards[b].path) = {b}
    BY DEF StorageInv, BoardsAt
  <2> QED BY <2>1 DEF StorageInv, Kept
<1> QED BY <1>1, StorageHolds, PTL

\* History is never rewritten: revisions only grow, a changed content is a new
\* revision, and a version that is kept keeps its content.
THEOREM HistoryStaysIntact == LifecycleSpec => HistoryIntact
<1>1. StorageInv /\ [LifecycleNext]_lifecycleVars =>
        [\A b \in DOMAIN boards \cap DOMAIN boards' :
           /\ boards'[b].revision >= boards[b].revision
           /\ (boards'[b].content # boards[b].content => boards'[b].revision > boards[b].revision)
           /\ \A n \in DOMAIN versions[b] \cap DOMAIN versions'[b] : versions'[b][n] = versions[b][n]
          ]_storageVars
  BY StorageNext DEF HistoryKept
<1> QED BY <1>1, StorageHolds, PTL DEF LifecycleSpec, HistoryIntact

-----------------------------------------------------------------------------
(* What a session and a request have seen of a drawing.                    *)

\* sha and content go together: the blob of that content, or a revision of the
\* board which that holds this content unless it has moved on.
KnowsIn(bs, sp, kind, sha, which, content) ==
  IF kind = "github"
    THEN sha = content
    ELSE \E b \in sp :
           /\ which = <<b>>
           /\ b \in DOMAIN bs =>
                /\ sha \in Nat /\ sha <= bs[b].revision
                /\ sha = bs[b].revision => content = bs[b].content

SawIn(bs, sp, q) ==
  /\ q.op = "create" /\ q.at = "insert" /\ q.kind # "adhoc" => KnowsIn(bs, sp, q.kind, q.sha, q.saw, q.content)
  /\ q.op = "save" => q.kind # "adhoc"
  /\ q.op = "save" /\ q.at = "snapshot" => q.sha = NoSha \/ KnowsIn(bs, sp, q.kind, q.sha, q.saw[1], q.saw[2])
  /\ q.op = "save" /\ q.at \in {"commit", "status", "base"} => KnowsIn(bs, sp, q.kind, q.sha, q.saw[1], q.saw[2])

SawInv ==
  /\ \A s \in DOMAIN rows :
       rows[s].kind # "adhoc" =>
         \/ rows[s].base = NoSha
         \/ KnowsIn(boards, spent, rows[s].kind, rows[s].base, rows[s].saw[1], rows[s].saw[2])
  /\ \A r \in WebRequests :
       /\ SawIn(boards, spent, request[r])
       /\ request[r].op = "save" => \A s \in request[r].s \cap DOMAIN rows : rows[s].kind = request[r].kind

\* If the drawing is as s wrote it last, sha is that of its write.
MatchesIn(bs, f, s, kind, sha, which) ==
  IF kind = "github"
    THEN f.by = s => sha = f.content
    ELSE \A b \in DOMAIN bs : which = <<b>> /\ bs[b].by = s => sha = bs[b].revision

OwnInv ==
  /\ \A s \in DOMAIN rows \ torn :
       rows[s].kind # "adhoc" =>
         \/ \E r \in WebRequests : Tears(r) /\ s \in request[r].s
         \/ MatchesIn(boards, file, s, rows[s].kind, rows[s].base, rows[s].saw[1])
  /\ \A r \in WebRequests : Tears(r) =>
       \A s \in request[r].s \ torn :
         /\ MatchesIn(boards, file, s, request[r].kind, request[r].sha, request[r].saw[1])
         /\ \A x \in WebRequests : Tears(x) /\ s \in request[x].s => x = r
  /\ \A b \in DOMAIN boards : boards[b].by \in born \cup {Somebody}
  /\ file.by \in born \cup {Somebody}

DInv == LInv /\ StorageInv /\ SawInv /\ OwnInv

-----------------------------------------------------------------------------
(* What a step may do to what sessions and requests have seen.             *)

TearsWith(q) == q.op = "save" /\ q.at \in {"status", "base"}

\* A row that is in step with its session's last write.
OwnRow(s) ==
  rows[s].kind # "adhoc" => MatchesIn(boards, file, s, rows[s].kind, rows[s].base, rows[s].saw[1])

\* A row keeps what it knew, or takes what its session has written, or is new.
RowSeen(s) ==
  \/ /\ s \in DOMAIN rows /\ rows'[s].kind = rows[s].kind
     /\ rows'[s].base = rows[s].base /\ rows'[s].saw = rows[s].saw
  \/ /\ s \notin born \/ (s \in DOMAIN rows /\ rows'[s].kind = rows[s].kind)
     /\ rows'[s].kind # "adhoc" =>
          \/ rows'[s].base = NoSha
          \/ KnowsIn(boards', spent', rows'[s].kind, rows'[s].base, rows'[s].saw[1], rows'[s].saw[2])
     /\ s \in torn' \/ OwnRow(s)'
RowsSeen == \A s \in DOMAIN rows' : RowSeen(s)

\* A save that has written and is the only one of its session that has.
WroteIt(r, q, s) ==
  /\ TearsWith(q) /\ s \in q.s
  /\ MatchesIn(boards', file', s, q.kind, q.sha, q.saw[1])
  /\ \A x \in WebRequests \ {r} : TearsWith(request'[x]) => s \notin request'[x].s

\* A request that moves knows what it has seen, and does not drop the record of a write.
RequestSeen(r, q) ==
  /\ SawIn(boards', spent', q)
  /\ q.op = "save" => \A s \in q.s \cap DOMAIN rows' : rows'[s].kind = q.kind
  /\ \/ ~TearsWith(q) /\ (Tears(r) => \A s \in request[r].s \cap DOMAIN rows' : s \in torn' \/ OwnRow(s)')
     \/ /\ Tears(r) /\ TearsWith(q) /\ q.s = request[r].s
        /\ q.kind = request[r].kind /\ q.sha = request[r].sha /\ q.saw = request[r].saw
     \/ TearsWith(q) /\ ~Tears(r) /\ \A s \in q.s : s \in torn' \/ WroteIt(r, q, s)
RequestsSeen == \A r \in WebRequests : request'[r] = request[r] \/ RequestSeen(r, request'[r])

\* Nobody else writes in the name of a session.
NoWriteOf(s) ==
  /\ \A b \in DOMAIN boards' : boards'[b].by = s =>
       b \in DOMAIN boards /\ boards[b].by = s /\ boards'[b].revision = boards[b].revision
  /\ file'.by = s => file' = file
WritesSeen ==
  /\ torn \subseteq torn' /\ born \subseteq born'
  /\ \A s \in Sessions :
       NoWriteOf(s) \/ s \in torn' \/ \E r \in WebRequests : WroteIt(r, request'[r], s)
  /\ \A b \in DOMAIN boards' : boards'[b].by \in born' \cup {Somebody}
  /\ file'.by \in born' \cup {Somebody}

LEMMA KnowsStays ==
  ASSUME StorageInv, StorageInv', HistoryKept, NEW kind, NEW sha, NEW which, NEW content,
         KnowsIn(boards, spent, kind, sha, which, content)
  PROVE  KnowsIn(boards', spent', kind, sha, which, content)
<1>1. CASE kind = "github"
  BY <1>1 DEF KnowsIn
<1>2. CASE kind # "github"
  <2>1. PICK b \in spent :
          /\ which = <<b>>
          /\ b \in DOMAIN boards =>
               /\ sha \in Nat /\ sha <= boards[b].revision
               /\ sha = boards[b].revision => content = boards[b].content
    BY <1>2 DEF KnowsIn
  <2>2. ASSUME b \in DOMAIN boards'
        PROVE  /\ sha \in Nat /\ sha <= boards'[b].revision
               /\ sha = boards'[b].revision => content = boards'[b].content
    <3>1. /\ b \in DOMAIN boards /\ boards'[b].revision >= boards[b].revision
          /\ boards'[b].content # boards[b].content => boards'[b].revision > boards[b].revision
      BY <2>2 DEF HistoryKept
    <3>2. boards[b].revision \in Nat /\ boards'[b].revision \in Nat
      BY <2>2, <3>1, StorageAssumption DEF StorageInv, Revisions
    <3> QED BY <2>1, <3>1, <3>2
  <2>3. b \in spent'
    BY DEF HistoryKept
  <2> QED BY <1>2, <2>1, <2>2, <2>3 DEF KnowsIn
<1> QED BY <1>1, <1>2

LEMMA SawStays ==
  ASSUME StorageInv, StorageInv', HistoryKept, NEW q, SawIn(boards, spent, q)
  PROVE  SawIn(boards', spent', q)
  BY KnowsStays DEF SawIn

LEMMA MatchesStays ==
  ASSUME NEW s, NoWriteOf(s), NEW kind, NEW sha, NEW which, MatchesIn(boards, file, s, kind, sha, which)
  PROVE  MatchesIn(boards', file', s, kind, sha, which)
  BY DEF MatchesIn, NoWriteOf

LEMMA SeenSaw ==
  ASSUME DInv, StorageInv', HistoryKept, RowsSeen, RequestsSeen
  PROVE  SawInv'
<1>1. ASSUME NEW s \in DOMAIN rows', rows'[s].kind # "adhoc"
      PROVE  \/ rows'[s].base = NoSha
             \/ KnowsIn(boards', spent', rows'[s].kind, rows'[s].base, rows'[s].saw[1], rows'[s].saw[2])
  <2>1. CASE /\ s \in DOMAIN rows /\ rows'[s].kind = rows[s].kind
             /\ rows'[s].base = rows[s].base /\ rows'[s].saw = rows[s].saw
    <3>1. \/ rows[s].base = NoSha
          \/ KnowsIn(boards, spent, rows[s].kind, rows[s].base, rows[s].saw[1], rows[s].saw[2])
      BY <1>1, <2>1 DEF DInv, SawInv
    <3> QED BY <2>1, <3>1, KnowsStays DEF DInv
  <2> QED BY <1>1, <2>1 DEF RowsSeen, RowSeen
<1>2. ASSUME NEW r \in WebRequests
      PROVE  /\ SawIn(boards', spent', request'[r])
             /\ request'[r].op = "save" => \A s \in request'[r].s \cap DOMAIN rows' : rows'[s].kind = request'[r].kind
  <2>1. CASE request'[r] = request[r]
    <3>1. SawIn(boards, spent, request[r])
      BY DEF DInv, SawInv
    <3>2. request[r].op = "save" => \A s \in request[r].s \cap DOMAIN rows : rows[s].kind = request[r].kind
      BY DEF DInv, SawInv
    <3>3. \A s \in request[r].s \cap DOMAIN rows' : s \in DOMAIN rows /\ rows'[s].kind = rows[s].kind
      BY DEF RowsSeen, RowSeen, DInv, LInv, Shapes
    <3> QED BY <2>1, <3>1, <3>2, <3>3, SawStays DEF DInv
  <2>2. CASE RequestSeen(r, request'[r])
    BY <2>2 DEF RequestSeen
  <2> QED BY <2>1, <2>2 DEF RequestsSeen
<1> QED BY <1>1, <1>2 DEF SawInv

\* A session has one save that has written, and its row is in step unless it has.
LEMMA SeenOwn ==
  ASSUME DInv, LInv', RowsSeen, RequestsSeen, WritesSeen
  PROVE  OwnInv'
<1>1. ASSUME NEW r \in WebRequests, Tears(r), NEW s \in request[r].s, s \notin torn'
      PROVE  /\ MatchesIn(boards, file, s, request[r].kind, request[r].sha, request[r].saw[1])
             /\ \A x \in WebRequests : Tears(x) /\ s \in request[x].s => x = r
  <2>1. s \in request[r].s \ torn
    BY <1>1 DEF WritesSeen
  <2> QED BY <1>1, <2>1 DEF DInv, OwnInv
<1>2. ASSUME NEW x \in WebRequests, TearsWith(request'[x]), NEW s \in request'[x].s, s \notin torn'
      PROVE  \/ /\ Tears(x) /\ request'[x].s = request[x].s /\ request'[x].kind = request[x].kind
                /\ request'[x].sha = request[x].sha /\ request'[x].saw = request[x].saw
             \/ WroteIt(x, request'[x], s)
  <2>1. request'[x] = request[x] \/ RequestSeen(x, request'[x])
    BY DEF RequestsSeen
  <2> QED BY <1>2, <2>1 DEF RequestSeen, Tears, TearsWith
<1>3. ASSUME NEW r \in WebRequests, TearsWith(request'[r]), NEW s \in request'[r].s, s \notin torn'
      PROVE  /\ MatchesIn(boards', file', s, request'[r].kind, request'[r].sha, request'[r].saw[1])
             /\ \A x \in WebRequests : TearsWith(request'[x]) /\ s \in request'[x].s => x = r
  <2>1. CASE WroteIt(r, request'[r], s)
    BY <1>3, <2>1 DEF WroteIt
  <2>2. CASE ~WroteIt(r, request'[r], s)
    <3>1. /\ Tears(r) /\ request'[r].s = request[r].s /\ request'[r].kind = request[r].kind
          /\ request'[r].sha = request[r].sha /\ request'[r].saw = request[r].saw
      BY <1>2, <1>3, <2>2
    <3>2. \A x \in WebRequests \ {r} : ~WroteIt(x, request'[x], s)
      BY <1>3 DEF WroteIt
    <3>3. s \in Sessions
      BY <1>3, <3>1 DEF DInv, LInv, Shapes
    <3>4. NoWriteOf(s)
      BY <1>3, <2>2, <3>2, <3>3 DEF WritesSeen
    <3>5. /\ MatchesIn(boards, file, s, request[r].kind, request[r].sha, request[r].saw[1])
          /\ \A x \in WebRequests : Tears(x) /\ s \in request[x].s => x = r
      BY <1>1, <1>3, <3>1
    <3>6. MatchesIn(boards', file', s, request'[r].kind, request'[r].sha, request'[r].saw[1])
      BY <3>1, <3>4, <3>5, MatchesStays
    <3>7. ASSUME NEW x \in WebRequests, TearsWith(request'[x]), s \in request'[x].s, x # r
          PROVE  FALSE
      BY <1>2, <1>3, <3>2, <3>5, <3>7
    <3> QED BY <3>6, <3>7
  <2> QED BY <2>1, <2>2
<1>4. ASSUME NEW s \in DOMAIN rows' \ torn', rows'[s].kind # "adhoc",
             \A r \in WebRequests : TearsWith(request'[r]) => s \notin request'[r].s
      PROVE  MatchesIn(boards', file', s, rows'[s].kind, rows'[s].base, rows'[s].saw[1])
  <2>1. CASE OwnRow(s)'
    BY <1>4, <2>1 DEF OwnRow
  <2>2. CASE ~OwnRow(s)'
    <3>1. /\ s \in DOMAIN rows /\ rows'[s].kind = rows[s].kind
          /\ rows'[s].base = rows[s].base /\ rows'[s].saw = rows[s].saw
      BY <1>4, <2>2 DEF RowsSeen, RowSeen
    <3>2. ASSUME NEW r \in WebRequests, Tears(r), s \in request[r].s
          PROVE  FALSE
      <4>1. request'[r] = request[r] \/ RequestSeen(r, request'[r])
        BY DEF RequestsSeen
      <4> QED BY <1>4, <2>2, <3>2, <4>1 DEF RequestSeen, Tears, TearsWith
    <3>3. s \in DOMAIN rows \ torn
      BY <1>4, <3>1 DEF WritesSeen
    <3>4. MatchesIn(boards, file, s, rows[s].kind, rows[s].base, rows[s].saw[1])
      BY <1>4, <3>1, <3>2, <3>3 DEF DInv, OwnInv
    <3>5. NoWriteOf(s)
      <4>1. s \in Sessions
        BY <3>1 DEF DInv, LInv, Shapes
      <4> QED BY <1>4, <4>1 DEF WritesSeen, WroteIt
    <3> QED BY <3>1, <3>4, <3>5, MatchesStays
  <2> QED BY <2>1, <2>2
<1> QED BY <1>3, <1>4 DEF OwnInv, WritesSeen, Tears, TearsWith

LEMMA SeenStep ==
  ASSUME DInv, LInv', StorageInv', HistoryKept, RowsSeen, RequestsSeen, WritesSeen
  PROVE  DInv'
  BY SeenSaw, SeenOwn DEF DInv

-----------------------------------------------------------------------------
(* Steps that learn nothing of a drawing.                                  *)

\* The invariant before a step, and what is known of the state after it.
Before == DInv /\ LInv' /\ StorageInv' /\ HistoryKept

\* A step that leaves the drawings alone.
LEMMA StorageSame ==
  ASSUME DInv, UNCHANGED storageVars, torn \subseteq torn', born \subseteq born'
  PROVE  WritesSeen
<1>1. /\ \A b \in DOMAIN boards : boards[b].by \in born \cup {Somebody}
      /\ file.by \in born \cup {Somebody}
  BY DEF DInv, OwnInv
<1> QED BY <1>1 DEF WritesSeen, NoWriteOf, storageVars

\* So does one in which somebody writes who is no session.
LEMMA StorageOfOthers ==
  ASSUME DInv, torn \subseteq torn', born \subseteq born',
         \A b \in DOMAIN boards' :
           \/ boards'[b].by = Somebody
           \/ b \in DOMAIN boards /\ boards'[b].by = boards[b].by /\ boards'[b].revision = boards[b].revision,
         file' = file \/ file'.by = Somebody
  PROVE  WritesSeen
<1>1. /\ \A b \in DOMAIN boards : boards[b].by \in born \cup {Somebody}
      /\ file.by \in born \cup {Somebody}
  BY DEF DInv, OwnInv
<1>2. ASSUME NEW s \in Sessions
      PROVE  NoWriteOf(s)
  BY <1>2, LifecycleAssumption DEF NoWriteOf
<1> QED BY <1>1, <1>2 DEF WritesSeen

\* A request that has seen no drawing.
Unseeing(q) == q.op \notin {"create", "save"} \/ (q.op = "create" /\ (q.at # "insert" \/ q.kind = "adhoc"))

LEMMA UnseeingSees ==
  ASSUME NEW r, NEW q, Unseeing(q), ~Tears(r) \/ request[r].s \subseteq torn'
  PROVE  RequestSeen(r, q)
  BY DEF RequestSeen, SawIn, Unseeing, TearsWith

LEMMA OneSees ==
  ASSUME DInv, NEW r \in WebRequests, NEW q, RequestSeen(r, q), request' = [request EXCEPT ![r] = q]
  PROVE  RequestsSeen
<1>1. DOMAIN request = WebRequests
  BY DEF DInv, LInv, Shapes
<1>2. request'[r] = q /\ \A x \in WebRequests \ {r} : request'[x] = request[x]
  BY <1>1
<1> QED BY <1>2 DEF RequestsSeen

\* Rows of which a step may drop some.
LEMMA RowsOnlyGo ==
  ASSUME \A s \in DOMAIN rows' : s \in DOMAIN rows /\ rows'[s] = rows[s]
  PROVE  RowsSeen
  BY DEF RowsSeen, RowSeen

\* A request ends.
LEMMA ReturnSees ==
  ASSUME Before, NEW r \in WebRequests, Return(r), ~Tears(r) \/ request[r].s \subseteq torn',
         RowsSeen, WritesSeen
  PROVE  DInv'
<1>1. Unseeing(IdleRequest)
  BY DEF Unseeing, IdleRequest
<1>2. RequestSeen(r, IdleRequest)
  BY <1>1, UnseeingSees
<1> QED BY <1>2, OneSees, SeenStep DEF Before, Return

\* A request of another kind than a save goes on.
LEMMA ContinueSees ==
  ASSUME Before, NEW r \in WebRequests, NEW at, Continue(r, at), request[r].op # "save",
         request[r].op = "create" => at # "insert", RowsSeen, WritesSeen
  PROVE  DInv'
<1>1. PICK q : request' = [request EXCEPT ![r] = q] /\ q.at = at /\ q.op = request[r].op
  BY ContinuesTo DEF Before, DInv
<1>2. Unseeing(q) /\ ~Tears(r)
  BY <1>1 DEF Unseeing, Tears
<1> QED BY <1>1, <1>2, UnseeingSees, OneSees, SeenStep DEF Before

\* A request begins that does not look at a drawing.
LEMMA BeginSees ==
  ASSUME Before, NEW r \in WebRequests, NEW q, Begin(r, q), Unseeing(q), RowsSeen, WritesSeen
  PROVE  DInv'
<1>1. request[r] = IdleRequest /\ request' = [request EXCEPT ![r] = q]
  BY DEF Begin, Free
<1>2. ~Tears(r)
  BY <1>1 DEF Tears, IdleRequest
<1> QED BY <1>1, <1>2, UnseeingSees, OneSees, SeenStep DEF Before

\* A step of no request.
LEMMA NobodySees ==
  ASSUME Before, UNCHANGED request, RowsSeen, WritesSeen
  PROVE  DInv'
  BY SeenStep DEF Before, RequestsSeen

\* A row keeps its drawing when a statement changes something else of it.
LEMMA OneRowQuiet ==
  ASSUME Before, NEW s, s \in DOMAIN rows, NEW row, rows' = [rows EXCEPT ![s] = row],
         row.kind = rows[s].kind, row.base = rows[s].base, row.saw = rows[s].saw
  PROVE  RowsSeen
  BY DEF RowsSeen, RowSeen

LEMMA StatusQuiet ==
  ASSUME Before, NEW s, NEW status, SetStatus(s, status)
  PROVE  RowsSeen
<1>1. CASE s \notin DOMAIN rows
  BY <1>1, RowsOnlyGo DEF SetStatus
<1>2. CASE s \in DOMAIN rows
  <2> DEFINE row == [rows[s] EXCEPT !.status = status]
  <2>1. rows' = [rows EXCEPT ![s] = row]
    BY <1>2 DEF SetStatus
  <2>2. rows[s] = [kind |-> rows[s].kind, path |-> rows[s].path, status |-> rows[s].status,
                   base |-> rows[s].base, expiry |-> rows[s].expiry, purge |-> rows[s].purge, saw |-> rows[s].saw]
    BY <1>2, RowFields DEF Before, DInv
  <2>3. row = [rows[s] EXCEPT !.status = status]
    OBVIOUS
  <2> HIDE DEF row
  <2>4. row.kind = rows[s].kind /\ row.base = rows[s].base /\ row.saw = rows[s].saw
    BY <2>2, <2>3
  <2> QED BY <1>2, <2>1, <2>4, OneRowQuiet
<1> QED BY <1>1, <1>2

LEMMA SeeCreates ==
  ASSUME Before, NEW r \in WebRequests, CreateRegister(r) \/ CreateUndo(r) \/ CreateInvites(r)
  PROVE  DInv'
<1>1. RowsSeen
  BY RowsOnlyGo DEF CreateRegister, CreateUndo, CreateInvites, DeleteRows
<1>2. WritesSeen
  BY StorageSame DEF Before, CreateRegister, CreateUndo, CreateInvites
<1>3. request[r].op = "create" /\ ~Tears(r)
  BY DEF CreateRegister, CreateUndo, CreateInvites, Stands, Tears
<1>4. Return(r) \/ Continue(r, "invites") \/ Continue(r, "undo")
  BY DEF CreateRegister, CreateUndo, CreateInvites
<1> QED BY <1>1, <1>2, <1>3, <1>4, ReturnSees, ContinueSees

LEMMA SeeUpload ==
  ASSUME Before, NEW r \in WebRequests, NEW content, CreateUpload(r, content)
  PROVE  DInv'
<1> DEFINE q == [IdleRequest EXCEPT !.op = "create", !.at = "insert", !.content = content]
<1>1. Begin(r, q) /\ UNCHANGED <<rows, born, torn, storageVars>>
  BY DEF CreateUpload
<1>2. q = [IdleRequest EXCEPT !.op = "create", !.at = "insert", !.content = content]
  OBVIOUS
<1> HIDE DEF q
<1>3. q = New("create", "insert", {}, "adhoc", <<>>, NoSha, content, <<>>, "active")
  BY <1>2 DEF New, IdleRequest
<1>4. Unseeing(q)
  BY <1>3, NewRequest DEF Unseeing
<1>5. RowsSeen /\ WritesSeen
  BY <1>1, RowsOnlyGo, StorageSame DEF Before
<1> QED BY <1>1, <1>4, <1>5, BeginSees

\* A request on a row, of which only the operation matters.
LEMMA OnOp ==
  ASSUME NEW op, NEW at, NEW s, NEW status, NEW content
  PROVE  /\ On(op, at, s).op = op
         /\ [On(op, at, s) EXCEPT !.status = status].op = op
         /\ [On(op, at, s) EXCEPT !.content = content].op = op
<1> DEFINE q == On(op, at, s)
<1>1. q = [IdleRequest EXCEPT !.op = op, !.at = at, !.s = {s}, !.kind = rows[s].kind, !.path = rows[s].path]
  BY DEF On
<1> HIDE DEF q
<1>2. q = New(op, at, {s}, rows[s].kind, rows[s].path, NoSha, NoDoc, <<>>, "active")
  BY <1>1 DEF New, IdleRequest
<1>3. q.op = op /\ [q EXCEPT !.status = status].op = op /\ [q EXCEPT !.content = content].op = op
  BY <1>2 DEF New
<1> QED BY <1>3 DEF q

LEMMA SeeStatus ==
  ASSUME Before, NEW r \in WebRequests, StatusStep(r)
  PROVE  DInv'
<1>1. WritesSeen
  BY StorageSame DEF Before, StatusStep, StatusRead, StatusCollab, StatusRow, StatusPurge, StatusRevoke
<1>2. ASSUME NEW s \in Sessions, NEW status \in Statuses, StatusRead(r, s, status)
      PROVE  DInv'
  <2>1. Begin(r, [On("status", "collab", s) EXCEPT !.status = status]) /\ UNCHANGED rows
    BY <1>2 DEF StatusRead
  <2>2. Unseeing([On("status", "collab", s) EXCEPT !.status = status])
    BY OnOp DEF Unseeing
  <2> QED BY <1>1, <2>1, <2>2, RowsOnlyGo, BeginSees
<1>3. ASSUME StatusCollab(r) \/ StatusRow(r) \/ StatusPurge(r) \/ StatusRevoke(r)
      PROVE  DInv'
  <2>1. request[r].op = "status" /\ ~Tears(r)
    BY <1>3 DEF StatusCollab, StatusRow, StatusPurge, StatusRevoke, Stands, Tears
  <2>2. Return(r) \/ \E at : Continue(r, at)
    BY <1>3 DEF StatusCollab, StatusRow, StatusPurge, StatusRevoke
  <2>3. CASE StatusPurge(r) /\ Of(r) \in DOMAIN rows
    <3> DEFINE s == Of(r)
               row == [rows[s] EXCEPT !.purge = "set"]
    <3>1. rows' = [rows EXCEPT ![s] = row]
      BY <2>3 DEF StatusPurge
    <3>2. rows[s] = [kind |-> rows[s].kind, path |-> rows[s].path, status |-> rows[s].status,
                     base |-> rows[s].base, expiry |-> rows[s].expiry, purge |-> rows[s].purge, saw |-> rows[s].saw]
      BY <2>3, RowFields DEF Before, DInv
    <3>3. row = [rows[s] EXCEPT !.purge = "set"]
      OBVIOUS
    <3> HIDE DEF s, row
    <3>4. row.kind = rows[s].kind /\ row.base = rows[s].base /\ row.saw = rows[s].saw
      BY <3>2, <3>3
    <3>5. RowsSeen
      BY <2>3, <3>1, <3>4, OneRowQuiet DEF s
    <3> QED BY <1>1, <2>1, <2>2, <3>5, ReturnSees, ContinueSees
  <2>4. CASE ~(StatusPurge(r) /\ Of(r) \in DOMAIN rows)
    <3>1. RowsSeen
      BY <1>3, <2>4, RowsOnlyGo, StatusQuiet DEF StatusCollab, StatusRow, StatusPurge, StatusRevoke
    <3> QED BY <1>1, <2>1, <2>2, <3>1, ReturnSees, ContinueSees
  <2> QED BY <2>3, <2>4
<1> QED BY <1>2, <1>3 DEF StatusStep

LEMMA SeeState ==
  ASSUME Before, NEW r \in WebRequests, StateStep(r)
  PROVE  DInv'
<1>1. WritesSeen
  BY StorageSame DEF Before, StateStep, ListRead, DeleteRow, EnsureRead, WriteRead, ListInvites,
                     DeleteClose, EnsureRegister, WriteUpsert
<1>2. RowsSeen
  BY RowsOnlyGo DEF StateStep, ListRead, DeleteRow, EnsureRead, WriteRead, ListInvites,
                    DeleteClose, EnsureRegister, WriteUpsert, DeleteRows
<1>3. ASSUME NEW s \in Sessions, ListRead(r, s) \/ DeleteRow(r, s)
      PROVE  DInv'
  <2>1. Begin(r, On("list", "invites", s)) \/ Begin(r, On("delete", "close", s))
    BY <1>3 DEF ListRead, DeleteRow
  <2>2. Unseeing(On("list", "invites", s)) /\ Unseeing(On("delete", "close", s))
    BY OnOp DEF Unseeing
  <2> QED BY <1>1, <1>2, <2>1, <2>2, BeginSees
<1>4. ASSUME NEW s \in Sessions, EnsureRead(r, s)
      PROVE  DInv'
  <2> DEFINE content == Stored(rows[s].kind, rows[s].path).content
  <2>1. Begin(r, [On("ensure", "register", s) EXCEPT !.content = content])
    BY <1>4 DEF EnsureRead
  <2>2. Unseeing([On("ensure", "register", s) EXCEPT !.content = content])
    BY OnOp DEF Unseeing
  <2> QED BY <1>1, <1>2, <2>1, <2>2, BeginSees
<1>5. ASSUME NEW s \in Sessions, NEW content \in Contents, WriteRead(r, s, content)
      PROVE  DInv'
  <2>1. Begin(r, [On("write", "upsert", s) EXCEPT !.content = content])
    BY <1>5 DEF WriteRead
  <2>2. Unseeing([On("write", "upsert", s) EXCEPT !.content = content])
    BY OnOp DEF Unseeing
  <2> QED BY <1>1, <1>2, <2>1, <2>2, BeginSees
<1>6. ASSUME ListInvites(r) \/ DeleteClose(r) \/ EnsureRegister(r) \/ WriteUpsert(r)
      PROVE  DInv'
  <2>1. Return(r) /\ ~Tears(r)
    BY <1>6 DEF ListInvites, DeleteClose, EnsureRegister, WriteUpsert, Stands, Tears
  <2> QED BY <1>1, <1>2, <2>1, ReturnSees
<1> QED BY <1>3, <1>4, <1>5, <1>6 DEF StateStep

LEMMA SeePurge ==
  ASSUME Before, NEW r \in WebRequests, PurgeStep(r)
  PROVE  DInv'
<1>1. WritesSeen
  BY StorageSame DEF Before, PurgeStep, PurgeList, PurgeRows, PurgeCollab
<1>2. ASSUME PurgeList(r)
      PROVE  DInv'
  <2> DEFINE due == {s \in DOMAIN rows : rows[s].purge = "due"}
             Marked(s) == rows[s].purge = "unset" /\ rows[s].expiry = "past"
             q == [IdleRequest EXCEPT !.op = "purge", !.at = "collab", !.s = due]
  <2>1. rows' = [s \in DOMAIN rows |-> IF Marked(s) THEN [rows[s] EXCEPT !.purge = "set"] ELSE rows[s]]
    BY <1>2 DEF PurgeList
  <2>2. ASSUME NEW s \in DOMAIN rows
        PROVE  rows'[s].kind = rows[s].kind /\ rows'[s].base = rows[s].base /\ rows'[s].saw = rows[s].saw
    <3>1. rows'[s] = [rows[s] EXCEPT !.purge = "set"] \/ rows'[s] = rows[s]
      BY <2>1
    <3>2. rows[s] = [kind |-> rows[s].kind, path |-> rows[s].path, status |-> rows[s].status,
                     base |-> rows[s].base, expiry |-> rows[s].expiry, purge |-> rows[s].purge, saw |-> rows[s].saw]
      BY RowFields DEF Before, DInv
    <3> QED BY <3>1, <3>2
  <2>3. DOMAIN rows' = DOMAIN rows
    BY <2>1
  <2>4. RowsSeen
    BY <2>2, <2>3 DEF RowsSeen, RowSeen
  <2>5. UNCHANGED request \/ Begin(r, q)
    BY <1>2 DEF PurgeList
  <2>6. q = [IdleRequest EXCEPT !.op = "purge", !.at = "collab", !.s = due]
    OBVIOUS
  <2> HIDE DEF q, due
  <2>7. q = New("purge", "collab", due, "adhoc", <<>>, NoSha, NoDoc, <<>>, "active")
    BY <2>6 DEF New, IdleRequest
  <2>8. Unseeing(q)
    BY <2>7, NewRequest DEF Unseeing
  <2> QED BY <1>1, <2>4, <2>5, <2>8, NobodySees, BeginSees
<1>3. ASSUME PurgeRows(r)
      PROVE  DInv'
  <2>1. Return(r) /\ ~Tears(r)
    BY <1>3 DEF PurgeRows, Stands, Tears
  <2>2. RowsSeen
    BY <1>3, RowsOnlyGo DEF PurgeRows, DeleteRows
  <2> QED BY <1>1, <2>1, <2>2, ReturnSees
<1>4. ASSUME NEW s \in Sessions, PurgeCollab(r, s)
      PROVE  DInv'
  <2>1. request[r].op = "purge" /\ ~Tears(r) /\ UNCHANGED rows
    BY <1>4 DEF PurgeCollab, Stands, Tears
  <2>2. /\ DOMAIN request = WebRequests
        /\ request[r] = [op |-> request[r].op, at |-> request[r].at, s |-> request[r].s, kind |-> request[r].kind,
                         path |-> request[r].path, sha |-> request[r].sha, content |-> request[r].content,
                         saw |-> request[r].saw, status |-> request[r].status, done |-> request[r].done]
    BY RequestFields DEF Before, DInv
  <2>3. request'[r].op = request[r].op /\ \A x \in WebRequests \ {r} : request'[x] = request[x]
    BY <1>4, <2>2 DEF PurgeCollab
  <2>4. Unseeing(request'[r])
    BY <2>1, <2>3 DEF Unseeing
  <2>5. RequestsSeen
    BY <2>1, <2>3, <2>4, UnseeingSees DEF RequestsSeen
  <2> QED BY <1>1, <2>1, <2>5, RowsOnlyGo, SeenStep DEF Before
<1> QED BY <1>2, <1>3, <1>4 DEF PurgeStep

LEMMA SeeAbort ==
  ASSUME Before, NEW r \in WebRequests, Abort(r)
  PROVE  DInv'
<1>1. Return(r) /\ UNCHANGED rows /\ (~Tears(r) \/ request[r].s \subseteq torn')
  BY DEF Abort
<1>2. WritesSeen
  BY StorageSame DEF Before, Abort
<1> QED BY <1>1, <1>2, RowsOnlyGo, ReturnSees

\* The collab server's answer takes a request to its next await, or ends it.
LEMMA SeeCollab ==
  ASSUME Before, NEW r \in WebRequests, CollabStep(r)
  PROVE  DInv'
<1>1. PICK s \in Sessions, status \in Statuses : MoveEnds(r, s, status)
  BY DEF CollabStep
<1>2. RowsSeen /\ WritesSeen
  BY <1>1, RowsOnlyGo, StorageSame DEF Before, MoveEnds
<1>3. CASE Awaits(r, s, status) /\ (Return(r) \/ Continue(r, "row"))
  <2>1. request[r].op = "status" /\ ~Tears(r)
    BY <1>3 DEF Awaits, Stands, Tears
  <2> QED BY <1>2, <1>3, <2>1, ReturnSees, ContinueSees
<1>4. CASE UNCHANGED request
  BY <1>2, <1>4, NobodySees
<1> QED BY <1>1, <1>3, <1>4 DEF MoveEnds, Return, Continue

LEMMA SeeTime ==
  ASSUME Before, NEW s \in Sessions, Expire(s) \/ Elapse(s) \/ \E c \in Contents : Edit(s, c)
  PROVE  DInv'
<1>1. WritesSeen /\ UNCHANGED request
  BY StorageSame DEF Before, Expire, Elapse, Edit, webVars
<1>2. CASE Expire(s) \/ Elapse(s)
  <2> DEFINE early == [rows[s] EXCEPT !.expiry = "past"]
             late  == [rows[s] EXCEPT !.purge = "due"]
  <2>1. s \in DOMAIN rows /\ (rows' = [rows EXCEPT ![s] = early] \/ rows' = [rows EXCEPT ![s] = late])
    BY <1>2 DEF Expire, Elapse
  <2>2. rows[s] = [kind |-> rows[s].kind, path |-> rows[s].path, status |-> rows[s].status,
                   base |-> rows[s].base, expiry |-> rows[s].expiry, purge |-> rows[s].purge, saw |-> rows[s].saw]
    BY <2>1, RowFields DEF Before, DInv
  <2>3. early = [rows[s] EXCEPT !.expiry = "past"] /\ late = [rows[s] EXCEPT !.purge = "due"]
    OBVIOUS
  <2> HIDE DEF early, late
  <2>4. /\ early.kind = rows[s].kind /\ early.base = rows[s].base /\ early.saw = rows[s].saw
        /\ late.kind = rows[s].kind /\ late.base = rows[s].base /\ late.saw = rows[s].saw
    BY <2>2, <2>3
  <2>5. RowsSeen
    BY <2>1, <2>4, OneRowQuiet
  <2> QED BY <1>1, <2>5, NobodySees
<1>3. CASE \E c \in Contents : Edit(s, c)
  BY <1>1, <1>3, RowsOnlyGo, NobodySees DEF Edit, webVars
<1> QED BY <1>2, <1>3

-----------------------------------------------------------------------------
(* Boards, and what is written outside a session.                          *)

\* What a write of somebody who is no session does to the drawings.
ByOthers ==
  /\ \A b \in DOMAIN boards' :
       \/ boards'[b].by = Somebody
       \/ b \in DOMAIN boards /\ boards'[b].by = boards[b].by /\ boards'[b].revision = boards[b].revision
  /\ file' = file \/ file'.by = Somebody

LEMMA ReviseByOthers ==
  ASSUME StorageInv, NEW b \in DOMAIN boards, NEW content, Revise(b, content, Somebody), UNCHANGED file
  PROVE  ByOthers
<1>1. boards' = [boards EXCEPT ![b] = Written(b, content, Somebody)]
  BY ReviseWrites
<1>2. Written(b, content, Somebody).by = Somebody
  BY DEF Written
<1> HIDE DEF Written
<1> QED BY <1>1, <1>2 DEF ByOthers

LEMMA RenameByOthers ==
  ASSUME StorageInv, NEW b \in DOMAIN boards, NEW title, RenameTo(b, title), UNCHANGED file
  PROVE  ByOthers
<1> DEFINE board == [boards[b] EXCEPT !.path = FreePath(title, {b})]
<1>1. boards' = [boards EXCEPT ![b] = board]
  BY DEF RenameTo
<1>2. boards[b] = [path |-> boards[b].path, revision |-> boards[b].revision,
                   content |-> boards[b].content, by |-> boards[b].by]
  BY DEF StorageInv, IsBoard
<1>3. board = [boards[b] EXCEPT !.path = FreePath(title, {b})]
  OBVIOUS
<1> HIDE DEF board
<1>4. board.by = boards[b].by /\ board.revision = boards[b].revision
  BY <1>2, <1>3
<1> QED BY <1>1, <1>4 DEF ByOthers

LEMMA OthersWrite ==
  ASSUME DInv, torn \subseteq torn', born \subseteq born', ByOthers
  PROVE  WritesSeen
  BY StorageOfOthers DEF ByOthers

LEMMA SeeBoard ==
  ASSUME Before, NEW r \in WebRequests, BoardStep(r)
  PROVE  DInv'
<1>1. ASSUME NEW b \in Boards, RenameRead(r, b) \/ DeleteBoardRead(r, b)
      PROVE  DInv'
  <2> DEFINE q1 == [IdleRequest EXCEPT !.op = "rename", !.at = "rename", !.saw = <<b>>]
             q2 == [IdleRequest EXCEPT !.op = "deleteBoard", !.at = "sessions", !.s = SessionsAt(b), !.saw = <<b>>]
  <2>1. Begin(r, q1) \/ Begin(r, q2)
    BY <1>1 DEF RenameRead, DeleteBoardRead
  <2>2. /\ q1 = [IdleRequest EXCEPT !.op = "rename", !.at = "rename", !.saw = <<b>>]
        /\ q2 = [IdleRequest EXCEPT !.op = "deleteBoard", !.at = "sessions", !.s = SessionsAt(b), !.saw = <<b>>]
    OBVIOUS
  <2> HIDE DEF q1, q2
  <2>3. /\ q1 = New("rename", "rename", {}, "adhoc", <<>>, NoSha, NoDoc, <<b>>, "active")
        /\ q2 = New("deleteBoard", "sessions", SessionsAt(b), "adhoc", <<>>, NoSha, NoDoc, <<b>>, "active")
    BY <2>2 DEF New, IdleRequest
  <2>4. Unseeing(q1) /\ Unseeing(q2)
    BY <2>3, NewRequest DEF Unseeing
  <2>5. RowsSeen /\ WritesSeen
    BY <1>1, RowsOnlyGo, StorageSame DEF Before, RenameRead, DeleteBoardRead
  <2> QED BY <2>1, <2>4, <2>5, BeginSees
<1>2. ASSUME NEW t \in Titles, RenameWrite(r, t)
      PROVE  DInv'
  <2>1. Return(r) /\ ~Tears(r) /\ RowsSeen
    BY <1>2, RowsOnlyGo DEF RenameWrite, Stands, Tears
  <2>2. CASE request[r].saw[1] \in DOMAIN boards
    <3>1. ByOthers
      BY <1>2, <2>2, RenameByOthers DEF RenameWrite, Before, DInv
    <3>2. WritesSeen
      BY <1>2, <3>1, OthersWrite DEF RenameWrite, Before
    <3> QED BY <2>1, <3>2, ReturnSees
  <2>3. CASE request[r].saw[1] \notin DOMAIN boards
    <3>1. WritesSeen
      BY <1>2, <2>3, StorageSame DEF RenameWrite, Before, storageVars
    <3> QED BY <2>1, <3>1, ReturnSees
  <2> QED BY <2>2, <2>3
<1>3. ASSUME DeleteBoardDrop(r)
      PROVE  DInv'
  <2>1. Return(r) /\ ~Tears(r) /\ RowsSeen
    BY <1>3, RowsOnlyGo DEF DeleteBoardDrop, Stands, Tears
  <2>2. ByOthers
    BY <1>3 DEF DeleteBoardDrop, DropBoard, ByOthers
  <2>3. WritesSeen
    BY <1>3, <2>2, OthersWrite DEF DeleteBoardDrop, Before
  <2> QED BY <2>1, <2>3, ReturnSees
<1>4. ASSUME DeleteBoardRow(r) \/ \E s \in Sessions : DeleteBoardClose(r, s)
      PROVE  DInv'
  <2>1. request[r].op = "deleteBoard" /\ ~Tears(r)
    BY <1>4 DEF DeleteBoardRow, DeleteBoardClose, Stands, Tears
  <2>2. /\ DOMAIN request = WebRequests
        /\ request[r] = [op |-> request[r].op, at |-> request[r].at, s |-> request[r].s, kind |-> request[r].kind,
                         path |-> request[r].path, sha |-> request[r].sha, content |-> request[r].content,
                         saw |-> request[r].saw, status |-> request[r].status, done |-> request[r].done]
    BY RequestFields DEF Before, DInv
  <2>3. request'[r].op = request[r].op /\ \A x \in WebRequests \ {r} : request'[x] = request[x]
    <3>1. CASE DeleteBoardRow(r)
      BY <2>2, <3>1 DEF DeleteBoardRow
    <3>2. ASSUME NEW s \in Sessions, DeleteBoardClose(r, s)
          PROVE  request'[r].op = request[r].op /\ \A x \in WebRequests \ {r} : request'[x] = request[x]
      BY <2>2, <3>2 DEF DeleteBoardClose
    <3> QED BY <1>4, <3>1, <3>2
  <2>4. Unseeing(request'[r])
    BY <2>1, <2>3 DEF Unseeing
  <2>5. RequestsSeen
    BY <2>1, <2>3, <2>4, UnseeingSees DEF RequestsSeen
  <2>6. RowsSeen /\ WritesSeen
    BY <1>4, RowsOnlyGo, StorageSame DEF Before, DeleteBoardRow, DeleteBoardClose, DeleteRows
  <2> QED BY <2>5, <2>6, SeenStep DEF Before
<1> QED BY <1>1, <1>2, <1>3, <1>4 DEF BoardStep

LEMMA SeeChange ==
  ASSUME Before, ChangeDrawing
  PROVE  DInv'
<1>1. ASSUME NEW b \in Boards, NEW t \in Titles, NEW c \in Contents, CreateBoard(b, t, c)
      PROVE  ByOthers
  BY <1>1 DEF CreateBoard, ByOthers
<1>2. ASSUME NEW b \in Boards, NEW n \in Revisions, RestoreVersion(b, n)
      PROVE  ByOthers
  BY <1>2, ReviseByOthers DEF RestoreVersion, Before, DInv
<1>3. ASSUME NEW k, NEW p, NEW c, SaveDrawing(k, p, c)
      PROVE  ByOthers
  <2>1. CASE k = "github"
    <3>1. file' = [content |-> c, by |-> Somebody] /\ UNCHANGED boards
      BY <1>3, <2>1 DEF SaveDrawing, Write
    <3> QED BY <3>1 DEF ByOthers
  <2>2. CASE k # "github"
    BY <1>3, <2>2, BoardThere, ReviseByOthers DEF SaveDrawing, Write, Before, DInv
  <2> QED BY <2>1, <2>2
<1>4. ByOthers
  BY <1>1, <1>2, <1>3 DEF ChangeDrawing
<1>5. RowsSeen /\ UNCHANGED request /\ torn' = torn /\ born' = born
  BY RowsOnlyGo DEF ChangeDrawing, webVars
<1> QED BY <1>4, <1>5, OthersWrite, NobodySees DEF Before

-----------------------------------------------------------------------------
(* What is opened, and a save's way from the row to the row.               *)

LEMMA KnowsNow ==
  ASSUME StorageInv, NEW kind, NEW path, Exists(kind, path)
  PROVE  KnowsIn(boards, spent, kind, Sha(kind, path), BoardOf(kind, path), Stored(kind, path).content)
<1>1. CASE kind = "github"
  BY <1>1 DEF KnowsIn, Sha, Stored
<1>2. CASE kind # "github"
  <2>1. BoardAt(path) \in DOMAIN boards
    BY <1>2, BoardThere
  <2>2. BoardAt(path) \in spent /\ boards[BoardAt(path)].revision \in Nat
    BY <2>1, StorageAssumption DEF StorageInv, Revisions
  <2> QED BY <1>2, <2>1, <2>2 DEF KnowsIn, Sha, Stored, BoardOf
<1> QED BY <1>1, <1>2

LEMMA SeeOpen ==
  ASSUME Before, NEW r \in WebRequests, NEW kind, NEW path, CreateOpen(r, kind, path)
  PROVE  DInv'
<1> DEFINE q == [IdleRequest EXCEPT !.op = "create", !.at = "insert", !.kind = kind,
       !.path = path, !.sha = Sha(kind, path), !.content = Stored(kind, path).content,
       !.saw = BoardOf(kind, path)]
<1>1. request' = [request EXCEPT ![r] = q] /\ request[r] = IdleRequest
  BY DEF CreateOpen, Begin, Free
<1>2. q = [IdleRequest EXCEPT !.op = "create", !.at = "insert", !.kind = kind,
           !.path = path, !.sha = Sha(kind, path), !.content = Stored(kind, path).content,
           !.saw = BoardOf(kind, path)]
  OBVIOUS
<1> HIDE DEF q
<1>3. q = New("create", "insert", {}, kind, path, Sha(kind, path), Stored(kind, path).content,
             BoardOf(kind, path), "active")
  BY <1>2 DEF New, IdleRequest
<1>4. KnowsIn(boards, spent, kind, Sha(kind, path), BoardOf(kind, path), Stored(kind, path).content)
  BY KnowsNow DEF CreateOpen, Before, DInv
<1>5. boards' = boards /\ spent' = spent
  BY DEF CreateOpen, storageVars
<1>6. /\ q.op = "create" /\ q.kind = kind /\ q.sha = Sha(kind, path) /\ q.saw = BoardOf(kind, path)
      /\ q.content = Stored(kind, path).content
  BY <1>3 DEF New
<1>7. ~Tears(r)
  BY <1>1 DEF Tears, IdleRequest
<1>8. RequestSeen(r, q)
  BY <1>4, <1>5, <1>6, <1>7 DEF RequestSeen, SawIn, TearsWith
<1>9. RowsSeen /\ WritesSeen
  BY RowsOnlyGo, StorageSame DEF Before, CreateOpen
<1> QED BY <1>1, <1>8, <1>9, OneSees, SeenStep DEF Before

\* A session that is new has written nothing yet.
LEMMA NothingWritten ==
  ASSUME DInv, NEW s \in Sessions, s \notin born, NEW kind, NEW sha, NEW which
  PROVE  MatchesIn(boards, file, s, kind, sha, which)
<1>1. s \notin born \cup {Somebody}
  BY LifecycleAssumption
<1>2. (\A b \in DOMAIN boards : boards[b].by \in born \cup {Somebody}) /\ file.by \in born \cup {Somebody}
  BY DEF DInv, OwnInv
<1> QED BY <1>1, <1>2 DEF MatchesIn

LEMMA SeeInsert ==
  ASSUME Before, NEW r \in WebRequests, NEW s \in Sessions, CreateInsert(r, s)
  PROVE  DInv'
<1>1. /\ request[r].op = "create" /\ request[r].at = "insert" /\ s \notin born
      /\ born' = born \cup {s} /\ torn' = torn /\ UNCHANGED storageVars
  BY DEF CreateInsert, Stands
<1>2. PICK base \in {request[r].sha, NoSha} :
        InsertRow(s, [kind |-> request[r].kind, path |-> request[r].path, status |-> "active", base |-> base,
                      expiry |-> IF request[r].kind = "adhoc" THEN "ahead" ELSE "none",
                      purge |-> "unset", saw |-> <<request[r].saw, request[r].content>>])
  BY DEF CreateInsert
<1> DEFINE row == [kind |-> request[r].kind, path |-> request[r].path, status |-> "active", base |-> base,
                   expiry |-> IF request[r].kind = "adhoc" THEN "ahead" ELSE "none",
                   purge |-> "unset", saw |-> <<request[r].saw, request[r].content>>]
<1>3. /\ row.kind = request[r].kind /\ row.base = base
      /\ row.saw[1] = request[r].saw /\ row.saw[2] = request[r].content
  OBVIOUS
<1>4. InsertRow(s, row)
  BY <1>2
<1> HIDE DEF row
<1>5. DOMAIN rows' = DOMAIN rows \cup {s} /\ rows'[s] = row /\ \A x \in DOMAIN rows' \ {s} : rows'[x] = rows[x]
  BY <1>4 DEF InsertRow
<1>6. SawIn(boards, spent, request[r])
  BY DEF Before, DInv, SawInv
<1>7. row.kind # "adhoc" =>
        row.base = NoSha \/ KnowsIn(boards, spent, row.kind, row.base, row.saw[1], row.saw[2])
  BY <1>1, <1>2, <1>3, <1>6 DEF SawIn
<1>8. MatchesIn(boards, file, s, row.kind, row.base, row.saw[1])
  BY <1>1, NothingWritten DEF Before
<1>9. boards' = boards /\ file' = file /\ spent' = spent
  BY <1>1 DEF storageVars
<1>10. OwnRow(s)'
  BY <1>5, <1>8, <1>9 DEF OwnRow
<1>11. RowsSeen
  BY <1>1, <1>5, <1>7, <1>9, <1>10 DEF RowsSeen, RowSeen
<1>12. WritesSeen
  BY <1>1, StorageSame DEF Before
<1> DEFINE q == [request[r] EXCEPT !.at = "register", !.s = {s}]
<1>13. request' = [request EXCEPT ![r] = q]
  BY RequestFields DEF CreateInsert, Before, DInv
<1>14. request[r] = [op |-> request[r].op, at |-> request[r].at, s |-> request[r].s, kind |-> request[r].kind,
                     path |-> request[r].path, sha |-> request[r].sha, content |-> request[r].content,
                     saw |-> request[r].saw, status |-> request[r].status, done |-> request[r].done]
  BY RequestFields DEF Before, DInv
<1>15. q = [request[r] EXCEPT !.at = "register", !.s = {s}]
  OBVIOUS
<1> HIDE DEF q
<1>16. q.op = "create" /\ q.at = "register"
  BY <1>1, <1>14, <1>15
<1>17. RequestSeen(r, q)
  BY <1>1, <1>16, UnseeingSees DEF Unseeing, Tears
<1> QED BY <1>11, <1>12, <1>13, <1>17, OneSees, SeenStep DEF Before

LEMMA SeeRead ==
  ASSUME Before, NEW r \in WebRequests, NEW s \in Sessions, SaveRead(r, s)
  PROVE  DInv'
<1> DEFINE q == [On("save", "snapshot", s) EXCEPT !.sha = rows[s].base, !.saw = rows[s].saw]
<1>1. s \in DOMAIN rows /\ rows[s].kind # "adhoc" /\ UNCHANGED <<rows, storageVars>>
  BY DEF SaveRead
<1>2. request' = [request EXCEPT ![r] = q] /\ request[r] = IdleRequest
  BY DEF SaveRead, Begin, Free
<1>3. q = [On("save", "snapshot", s) EXCEPT !.sha = rows[s].base, !.saw = rows[s].saw]
  OBVIOUS
<1> HIDE DEF q
<1>4. q = New("save", "snapshot", {s}, rows[s].kind, rows[s].path, rows[s].base, NoDoc, rows[s].saw, "active")
  BY <1>3 DEF New, IdleRequest, On
<1>5. /\ q.op = "save" /\ q.at = "snapshot" /\ q.s = {s} /\ q.kind = rows[s].kind
      /\ q.sha = rows[s].base /\ q.saw = rows[s].saw
  BY <1>4 DEF New
<1>6. rows[s].base = NoSha \/ KnowsIn(boards, spent, rows[s].kind, rows[s].base, rows[s].saw[1], rows[s].saw[2])
  BY <1>1 DEF Before, DInv, SawInv
<1>7. boards' = boards /\ spent' = spent
  BY <1>1 DEF storageVars
<1>8. ~Tears(r)
  BY <1>2 DEF Tears, IdleRequest
<1>9. SawIn(boards', spent', q)
  BY <1>1, <1>5, <1>6, <1>7 DEF SawIn
<1>10. RequestSeen(r, q)
  BY <1>1, <1>5, <1>8, <1>9 DEF RequestSeen, TearsWith
<1>11. RowsSeen /\ WritesSeen
  BY RowsOnlyGo, StorageSame DEF Before, SaveRead
<1> QED BY <1>2, <1>10, <1>11, OneSees, SeenStep DEF Before

\* The request of a save, before and after an await at which its session keeps its row.
LEMMA SaveKinds ==
  ASSUME Before, NEW r \in WebRequests, request[r].op = "save"
  PROVE  /\ request[r].kind # "adhoc"
         /\ \A s \in request[r].s \cap DOMAIN rows : rows[s].kind = request[r].kind
  BY DEF Before, DInv, SawInv, SawIn

LEMMA SeeSnapshot ==
  ASSUME Before, NEW r \in WebRequests, SaveSnapshot(r)
  PROVE  DInv'
<1> DEFINE at == IF request[r].sha = NoSha THEN "open" ELSE "commit"
           q == [request[r] EXCEPT !.at = at, !.content = doc[Of(r)]]
<1>1. request[r].op = "save" /\ request[r].at = "snapshot" /\ ~Tears(r) /\ UNCHANGED <<rows, storageVars>>
  BY DEF SaveSnapshot, Stands, Tears
<1>2. RowsSeen /\ WritesSeen
  BY RowsOnlyGo, StorageSame DEF Before, SaveSnapshot
<1>3. CASE Return(r)
  BY <1>1, <1>2, <1>3, ReturnSees
<1>4. CASE ~Return(r)
  <2>1. request' = [request EXCEPT ![r] = q]
    BY <1>4, RequestFields DEF SaveSnapshot, Before, DInv
  <2>2. request[r] = [op |-> request[r].op, at |-> request[r].at, s |-> request[r].s, kind |-> request[r].kind,
                      path |-> request[r].path, sha |-> request[r].sha, content |-> request[r].content,
                      saw |-> request[r].saw, status |-> request[r].status, done |-> request[r].done]
    BY RequestFields DEF Before, DInv
  <2>3. q = [request[r] EXCEPT !.at = at, !.content = doc[Of(r)]]
    OBVIOUS
  <2>4. at = "open" \/ (at = "commit" /\ request[r].sha # NoSha)
    OBVIOUS
  <2> HIDE DEF q, at
  <2>5. /\ q.op = "save" /\ q.at = at /\ q.s = request[r].s /\ q.kind = request[r].kind
        /\ q.sha = request[r].sha /\ q.saw = request[r].saw
    BY <1>1, <2>2, <2>3
  <2>6. SawIn(boards, spent, request[r])
    BY DEF Before, DInv, SawInv
  <2>7. boards' = boards /\ spent' = spent
    BY <1>1 DEF storageVars
  <2>8. SawIn(boards', spent', q)
    BY <1>1, <2>4, <2>5, <2>6, <2>7 DEF SawIn
  <2>9. RequestSeen(r, q)
    BY <1>1, <2>4, <2>5, <2>8, SaveKinds DEF RequestSeen, TearsWith
  <2> QED BY <1>2, <2>1, <2>9, OneSees, SeenStep DEF Before
<1> QED BY <1>3, <1>4

LEMMA SeeSaveOpen ==
  ASSUME Before, NEW r \in WebRequests, SaveOpen(r)
  PROVE  DInv'
<1> DEFINE kind == request[r].kind
           path == request[r].path
           q == [request[r] EXCEPT !.at = "commit", !.sha = Sha(kind, path),
                   !.saw = <<BoardOf(kind, path), Stored(kind, path).content>>]
<1>1. request[r].op = "save" /\ ~Tears(r) /\ UNCHANGED <<rows, storageVars>>
  BY DEF SaveOpen, Stands, Tears
<1>2. RowsSeen /\ WritesSeen
  BY RowsOnlyGo, StorageSame DEF Before, SaveOpen
<1>3. CASE Return(r)
  BY <1>1, <1>2, <1>3, ReturnSees
<1>4. CASE ~Return(r)
  <2>1. request' = [request EXCEPT ![r] = q] /\ Exists(kind, path)
    BY <1>4, RequestFields DEF SaveOpen, Before, DInv
  <2>2. request[r] = [op |-> request[r].op, at |-> request[r].at, s |-> request[r].s, kind |-> request[r].kind,
                      path |-> request[r].path, sha |-> request[r].sha, content |-> request[r].content,
                      saw |-> request[r].saw, status |-> request[r].status, done |-> request[r].done]
    BY RequestFields DEF Before, DInv
  <2>3. q = [request[r] EXCEPT !.at = "commit", !.sha = Sha(kind, path),
               !.saw = <<BoardOf(kind, path), Stored(kind, path).content>>]
    OBVIOUS
  <2> HIDE DEF q
  <2>5. /\ q.op = "save" /\ q.at = "commit" /\ q.s = request[r].s /\ q.kind = kind
        /\ q.sha = Sha(kind, path) /\ q.saw = <<BoardOf(kind, path), Stored(kind, path).content>>
    BY <1>1, <2>2, <2>3
  <2>6. q.saw[1] = BoardOf(kind, path) /\ q.saw[2] = Stored(kind, path).content
    BY <2>5
  <2>7. KnowsIn(boards, spent, kind, Sha(kind, path), BoardOf(kind, path), Stored(kind, path).content)
    BY <2>1, KnowsNow DEF Before, DInv
  <2>8. boards' = boards /\ spent' = spent
    BY <1>1 DEF storageVars
  <2>9. SawIn(boards', spent', q)
    BY <1>1, <2>5, <2>6, <2>7, <2>8, SaveKinds DEF SawIn
  <2>10. RequestSeen(r, q)
    BY <1>1, <2>5, <2>9, SaveKinds DEF RequestSeen, TearsWith
  <2> QED BY <1>2, <2>1, <2>10, OneSees, SeenStep DEF Before
<1> QED BY <1>3, <1>4

\* What a write in the name of session s leaves behind.
LEMMA WriteResult ==
  ASSUME Before, NEW s \in Sessions, s \in born', NEW kind, NEW path, NEW content, Exists(kind, path),
         Write(kind, path, content, s), UNCHANGED spent, born \subseteq born'
  PROVE  /\ \A x \in Sessions \ {s} : NoWriteOf(x)
         /\ \A b \in DOMAIN boards' : boards'[b].by \in born' \cup {Somebody}
         /\ file'.by \in born' \cup {Somebody}
         /\ MatchesIn(boards', file', s, kind, ShaAfter(kind, path, content), BoardOf(kind, path))
         /\ KnowsIn(boards', spent', kind, ShaAfter(kind, path, content), BoardOf(kind, path), content)
<1>1. (\A b \in DOMAIN boards : boards[b].by \in born \cup {Somebody}) /\ file.by \in born \cup {Somebody}
  BY DEF Before, DInv, OwnInv
<1>2. CASE kind = "github"
  <2>1. file' = [content |-> content, by |-> s] /\ boards' = boards
    BY <1>2 DEF Write
  <2>2. file'.content = content /\ file'.by = s
    BY <2>1
  <2>3. ShaAfter(kind, path, content) = content
    BY <1>2 DEF ShaAfter
  <2>4. \A x \in Sessions \ {s} : NoWriteOf(x)
    BY <2>1, <2>2 DEF NoWriteOf
  <2> QED BY <1>1, <1>2, <2>1, <2>2, <2>3, <2>4 DEF MatchesIn, KnowsIn
<1>3. CASE kind # "github"
  <2> DEFINE b == BoardAt(path)
             board == Written(b, content, s)
  <2>1. b \in DOMAIN boards /\ StorageInv
    BY <1>3, BoardThere DEF Before, DInv
  <2>2. boards' = [boards EXCEPT ![b] = board] /\ boards[b].revision + 1 \in Revisions /\ file' = file
    BY <1>3, <2>1, ReviseWrites DEF Write
  <2>3. board.by = s /\ board.revision = boards[b].revision + 1 /\ board.content = content
    BY DEF Written
  <2>4. b \in spent' /\ boards[b].revision \in Nat
    BY <2>1, StorageAssumption DEF StorageInv, Revisions
  <2>5. ShaAfter(kind, path, content) = boards[b].revision + 1 /\ BoardOf(kind, path) = <<b>>
    BY <1>3 DEF ShaAfter, Sha, BoardOf
  <2> HIDE DEF b, board
  <2>6. DOMAIN boards' = DOMAIN boards /\ boards'[b] = board /\ \A c \in DOMAIN boards \ {b} : boards'[c] = boards[c]
    BY <2>1, <2>2
  <2>7. \A x \in Sessions \ {s} : NoWriteOf(x)
    BY <2>2, <2>3, <2>6 DEF NoWriteOf
  <2>8. (\A c \in DOMAIN boards' : boards'[c].by \in born' \cup {Somebody}) /\ file'.by \in born' \cup {Somebody}
    BY <1>1, <2>2, <2>3, <2>6
  <2>9. MatchesIn(boards', file', s, kind, boards[b].revision + 1, <<b>>)
    BY <1>3, <2>3, <2>6 DEF MatchesIn
  <2>10. KnowsIn(boards', spent', kind, boards[b].revision + 1, <<b>>, content)
    <3>1. /\ boards[b].revision + 1 \in Nat /\ boards[b].revision + 1 <= boards'[b].revision
          /\ content = boards'[b].content
      BY <2>3, <2>4, <2>6
    <3> QED BY <1>3, <2>4, <3>1 DEF KnowsIn
  <2> QED BY <2>5, <2>7, <2>8, <2>9, <2>10
<1> QED BY <1>2, <1>3

LEMMA SeeCommit ==
  ASSUME Before, NEW r \in WebRequests, SaveCommit(r)
  PROVE  DInv'
<1> DEFINE kind == request[r].kind
           path == request[r].path
           content == request[r].content
           s == Of(r)
           q == [request[r] EXCEPT !.at = "status", !.sha = ShaAfter(kind, path, content),
                                   !.saw = <<BoardOf(kind, path), content>>]
<1>1. /\ request[r].op = "save" /\ request[r].at = "commit" /\ ~Tears(r)
      /\ UNCHANGED <<rows, spent>> /\ born' = born /\ torn \subseteq torn'
  BY DEF SaveCommit, Stands, Tears
<1>2. RowsSeen
  BY <1>1, RowsOnlyGo
<1>3. s \in Sessions /\ request[r].s = {s} /\ s \in born'
  BY <1>1, RequestFields DEF Before, DInv, AboutOne
<1>4. CASE ~Accepts(kind, path, request[r].sha)
  <2>1. Return(r) /\ UNCHANGED storageVars
    BY <1>4 DEF SaveCommit, storageVars
  <2> QED BY <1>1, <1>2, <2>1, StorageSame, ReturnSees DEF Before
<1>5. CASE Accepts(kind, path, request[r].sha)
  <2>1. Exists(kind, path) /\ Write(kind, path, content, s)
    BY <1>5 DEF SaveCommit, Accepts
  <2>2. /\ \A x \in Sessions \ {s} : NoWriteOf(x)
        /\ \A b \in DOMAIN boards' : boards'[b].by \in born' \cup {Somebody}
        /\ file'.by \in born' \cup {Somebody}
        /\ MatchesIn(boards', file', s, kind, ShaAfter(kind, path, content), BoardOf(kind, path))
        /\ KnowsIn(boards', spent', kind, ShaAfter(kind, path, content), BoardOf(kind, path), content)
    BY <1>1, <1>3, <2>1, WriteResult
  <2>3. CASE Return(r) /\ torn' = torn \cup request[r].s
    <3>1. s \in torn'
      BY <1>3, <2>3
    <3>2. WritesSeen
      BY <1>1, <2>2, <3>1 DEF WritesSeen
    <3> QED BY <1>1, <1>2, <2>3, <3>2, ReturnSees
  <2>4. CASE ~(Return(r) /\ torn' = torn \cup request[r].s)
    <3>1. /\ request' = [request EXCEPT ![r] = q]
          /\ torn' = IF \E other \in WebRequests : Tears(other) /\ request[r].s = request[other].s
                       THEN torn \cup request[r].s ELSE torn
      BY <1>5, <2>4, RequestFields DEF SaveCommit, Before, DInv
    <3>2. request[r] = [op |-> request[r].op, at |-> request[r].at, s |-> request[r].s, kind |-> request[r].kind,
                        path |-> request[r].path, sha |-> request[r].sha, content |-> request[r].content,
                        saw |-> request[r].saw, status |-> request[r].status, done |-> request[r].done]
      BY RequestFields DEF Before, DInv
    <3>3. q = [request[r] EXCEPT !.at = "status", !.sha = ShaAfter(kind, path, content),
                                 !.saw = <<BoardOf(kind, path), content>>]
      OBVIOUS
    <3>a. DOMAIN request = WebRequests
      BY RequestFields DEF Before, DInv
    <3> HIDE DEF q
    <3>4. /\ q.op = "save" /\ q.at = "status" /\ q.s = request[r].s /\ q.kind = kind
          /\ q.sha = ShaAfter(kind, path, content) /\ q.saw = <<BoardOf(kind, path), content>>
      BY <1>1, <3>2, <3>3
    <3>5. q.saw[1] = BoardOf(kind, path) /\ q.saw[2] = content /\ TearsWith(q)
      BY <3>4 DEF TearsWith
    <3>6. request'[r] = q /\ \A x \in WebRequests \ {r} : request'[x] = request[x]
      BY <3>1, <3>a
    <3>7. ASSUME s \notin torn', NEW x \in WebRequests \ {r}, TearsWith(request'[x]), s \in request'[x].s
          PROVE  FALSE
      <4>1. request'[x] = request[x] /\ Tears(x) /\ AboutOne(request[x])
        BY <3>6, <3>7 DEF TearsWith, Tears, AboutOne
      <4>2. request[x].s = {s}
        BY <3>7, <4>1, RequestFields DEF Before, DInv
      <4>3. torn' = torn \cup request[r].s
        BY <1>3, <3>1, <4>1, <4>2
      <4> QED BY <1>3, <3>7, <4>3
    <3>8. s \in torn' \/ WroteIt(r, q, s)
      BY <1>3, <2>2, <3>4, <3>5, <3>7 DEF WroteIt
    <3>9. SawIn(boards', spent', q)
      BY <1>1, <2>2, <3>4, <3>5, SaveKinds DEF SawIn
    <3>10. RequestSeen(r, q)
      BY <1>1, <1>3, <3>4, <3>5, <3>8, <3>9, SaveKinds DEF RequestSeen
    <3>11. WritesSeen
      BY <1>1, <2>2, <3>6, <3>8 DEF WritesSeen
    <3> QED BY <1>2, <3>1, <3>10, <3>11, OneSees, SeenStep DEF Before
  <2> QED BY <2>3, <2>4
<1> QED BY <1>4, <1>5

LEMMA SeeSaveStatus ==
  ASSUME Before, NEW r \in WebRequests, SaveStatus(r)
  PROVE  DInv'
<1> DEFINE q == [request[r] EXCEPT !.at = "base"]
<1>1. request[r].op = "save" /\ request[r].at = "status" /\ Tears(r) /\ UNCHANGED <<rows, storageVars>>
  BY DEF SaveStatus, Stands, Tears
<1>2. RowsSeen /\ WritesSeen
  BY RowsOnlyGo, StorageSame DEF Before, SaveStatus
<1>3. request' = [request EXCEPT ![r] = q]
  BY RequestFields DEF SaveStatus, Continue, Before, DInv
<1>4. request[r] = [op |-> request[r].op, at |-> request[r].at, s |-> request[r].s, kind |-> request[r].kind,
                    path |-> request[r].path, sha |-> request[r].sha, content |-> request[r].content,
                    saw |-> request[r].saw, status |-> request[r].status, done |-> request[r].done]
  BY RequestFields DEF Before, DInv
<1>5. q = [request[r] EXCEPT !.at = "base"]
  OBVIOUS
<1> HIDE DEF q
<1>6. /\ q.op = "save" /\ q.at = "base" /\ q.s = request[r].s /\ q.kind = request[r].kind
      /\ q.sha = request[r].sha /\ q.saw = request[r].saw
  BY <1>1, <1>4, <1>5
<1>7. SawIn(boards, spent, request[r])
  BY DEF Before, DInv, SawInv
<1>8. boards' = boards /\ spent' = spent
  BY <1>1 DEF storageVars
<1>9. SawIn(boards', spent', q)
  BY <1>1, <1>6, <1>7, <1>8 DEF SawIn
<1>10. RequestSeen(r, q)
  BY <1>1, <1>6, <1>9, SaveKinds DEF RequestSeen, TearsWith
<1> QED BY <1>2, <1>3, <1>10, OneSees, SeenStep DEF Before

\* The row takes what the save has written, so the record of it is no longer needed.
LEMMA SeeBase ==
  ASSUME Before, NEW r \in WebRequests, SaveBase(r)
  PROVE  DInv'
<1>1. request[r].op = "save" /\ request[r].at = "base" /\ Tears(r) /\ UNCHANGED storageVars /\ torn' = torn
  BY DEF SaveBase, Stands, Tears
<1>2. WritesSeen
  BY StorageSame DEF Before, SaveBase
<1>3. PICK s \in Sessions : s = Of(r) /\ request[r].s = {s}
  BY <1>1, RequestFields DEF Before, DInv, AboutOne
<1> DEFINE row == [rows[s] EXCEPT !.base = request[r].sha, !.saw = request[r].saw]
           q == [request[r] EXCEPT !.at = "row"]
<1>a. boards' = boards /\ spent' = spent /\ file' = file
  BY <1>1 DEF storageVars
<1>4. CASE s \notin DOMAIN rows
  <2>1. Return(r) /\ UNCHANGED rows
    BY <1>3, <1>4 DEF SaveBase
  <2>2. RequestSeen(r, IdleRequest)
    <3>1. IdleRequest.op = "none"
      BY DEF IdleRequest
    <3> QED BY <1>3, <1>4, <2>1, <3>1 DEF RequestSeen, SawIn, TearsWith
  <2> QED BY <1>2, <2>1, <2>2, RowsOnlyGo, OneSees, SeenStep DEF Before, Return
<1>5. CASE s \in DOMAIN rows
  <2>1. rows' = [rows EXCEPT ![s] = row] /\ request' = [request EXCEPT ![r] = q]
    BY <1>3, <1>5, RequestFields DEF SaveBase, Continue, Before, DInv
  <2>2. rows[s] = [kind |-> rows[s].kind, path |-> rows[s].path, status |-> rows[s].status,
                   base |-> rows[s].base, expiry |-> rows[s].expiry, purge |-> rows[s].purge, saw |-> rows[s].saw]
    BY <1>5, RowFields DEF Before, DInv
  <2>3. request[r] = [op |-> request[r].op, at |-> request[r].at, s |-> request[r].s, kind |-> request[r].kind,
                      path |-> request[r].path, sha |-> request[r].sha, content |-> request[r].content,
                      saw |-> request[r].saw, status |-> request[r].status, done |-> request[r].done]
    BY RequestFields DEF Before, DInv
  <2>4. /\ row = [rows[s] EXCEPT !.base = request[r].sha, !.saw = request[r].saw]
        /\ q = [request[r] EXCEPT !.at = "row"]
    OBVIOUS
  <2> HIDE DEF row, q
  <2>5. row.kind = rows[s].kind /\ row.base = request[r].sha /\ row.saw = request[r].saw
    BY <2>2, <2>4
  <2>6. q.op = "save" /\ q.at = "row" /\ q.s = request[r].s /\ q.kind = request[r].kind
    BY <1>1, <2>3, <2>4
  <2>7. DOMAIN rows' = DOMAIN rows /\ rows'[s] = row /\ \A x \in DOMAIN rows \ {s} : rows'[x] = rows[x]
    BY <1>5, <2>1
  <2>8. rows[s].kind = request[r].kind /\ rows[s].kind # "adhoc"
    BY <1>1, <1>3, <1>5, SaveKinds
  <2>9. KnowsIn(boards, spent, request[r].kind, request[r].sha, request[r].saw[1], request[r].saw[2])
    BY <1>1 DEF Before, DInv, SawInv, SawIn
  <2>10. s \notin torn => MatchesIn(boards, file, s, request[r].kind, request[r].sha, request[r].saw[1])
    BY <1>1, <1>3 DEF Before, DInv, OwnInv
  <2>11. s \notin torn => OwnRow(s)'
    BY <1>a, <2>5, <2>7, <2>8, <2>10 DEF OwnRow
  <2>12. \A x \in request[r].s \cap DOMAIN rows' : x \in torn' \/ OwnRow(x)'
    BY <1>1, <1>3, <2>11
  <2>13. SawIn(boards', spent', q)
    BY <2>6, <2>8 DEF SawIn
  <2>14. \A x \in q.s \cap DOMAIN rows' : rows'[x].kind = q.kind
    BY <1>3, <2>5, <2>6, <2>7, <2>8
  <2>15. RequestSeen(r, q)
    BY <2>6, <2>12, <2>13, <2>14 DEF RequestSeen, TearsWith
  <2>16. s \in torn' \/ OwnRow(s)'
    BY <1>1, <2>11
  <2>17. RowSeen(s)
    BY <1>5, <1>a, <2>5, <2>7, <2>8, <2>9, <2>16 DEF RowSeen
  <2>18. RowsSeen
    BY <2>7, <2>17 DEF RowsSeen, RowSeen
  <2> QED BY <1>2, <2>1, <2>15, <2>18, OneSees, SeenStep DEF Before
<1> QED BY <1>4, <1>5

LEMMA SeeSaveRow ==
  ASSUME Before, NEW r \in WebRequests, SaveRow(r)
  PROVE  DInv'
<1>1. Return(r) /\ ~Tears(r)
  BY DEF SaveRow, Stands, Tears
<1>2. WritesSeen
  BY StorageSame DEF Before, SaveRow
<1>3. RowsSeen
  BY StatusQuiet DEF SaveRow
<1> QED BY <1>1, <1>2, <1>3, ReturnSees

-----------------------------------------------------------------------------
(* The invariant, and what it says of the saves of sessions.               *)

LEMMA DInvInit == LifecycleInit => DInv
<1> SUFFICES ASSUME LifecycleInit
             PROVE  DInv
  OBVIOUS
<1>1. LInv
  BY LInvInit
<1>2. StorageInv
  BY DEF LifecycleInit, StorageInit, StorageInv
<1>3. rows = <<>> /\ DOMAIN rows = {} /\ request = [r \in WebRequests |-> IdleRequest] /\ IdleRequest.op = "none"
  BY DEF LifecycleInit, IdleRequest
<1>4. SawInv
  BY <1>3 DEF SawInv, SawIn
<1>5. DOMAIN boards = {} /\ file.by = Somebody
  BY DEF LifecycleInit, StorageInit
<1>6. OwnInv
  BY <1>3, <1>5 DEF OwnInv, Tears
<1> QED BY <1>1, <1>2, <1>4, <1>6 DEF DInv

LEMMA DInvNext ==
  ASSUME DInv, [LifecycleNext]_lifecycleVars
  PROVE  DInv'
<1>1. Before
  BY LInvNext, StorageNext DEF Before, DInv
<1>2. ASSUME NEW r \in WebRequests, CreateStep(r)
      PROVE  DInv'
  BY <1>1, <1>2, SeeOpen, SeeUpload, SeeInsert, SeeCreates DEF CreateStep
<1>3. ASSUME NEW r \in WebRequests, SaveStep(r)
      PROVE  DInv'
  BY <1>1, <1>3, SeeRead, SeeSnapshot, SeeSaveOpen, SeeCommit, SeeSaveStatus, SeeBase, SeeSaveRow DEF SaveStep
<1>4. ASSUME NEW r \in WebRequests, StatusStep(r) \/ StateStep(r) \/ PurgeStep(r) \/ BoardStep(r)
             \/ CollabStep(r) \/ Abort(r)
      PROVE  DInv'
  BY <1>1, <1>4, SeeStatus, SeeState, SeePurge, SeeBoard, SeeCollab, SeeAbort
<1>5. ASSUME NEW s \in Sessions, Expire(s) \/ Elapse(s) \/ \E c \in Contents : Edit(s, c)
      PROVE  DInv'
  BY <1>1, <1>5, SeeTime
<1>6. CASE UNCHANGED lifecycleVars
  <2>1. UNCHANGED request /\ UNCHANGED rows /\ UNCHANGED storageVars /\ torn' = torn /\ born' = born
    BY <1>6 DEF lifecycleVars, webVars
  <2> QED BY <1>1, <2>1, RowsOnlyGo, StorageSame, NobodySees DEF Before
<1> QED BY <1>1, <1>2, <1>3, <1>4, <1>5, <1>6, SeeChange DEF LifecycleNext

LEMMA SavesHold == LifecycleSpec => []DInv
<1>1. LifecycleInit => DInv
  BY DInvInit
<1>2. DInv /\ [LifecycleNext]_lifecycleVars => DInv'
  BY DInvNext
<1> QED BY <1>1, <1>2, PTL DEF LifecycleSpec

\* A save that the storage accepts replaces what its session has opened or saved
\* itself: whoever else wrote in between has moved the sha on (the revision of the
\* board, or the blob of the file), and the request is answered with a conflict.
THEOREM SavesReplaceWhatTheySaw == LifecycleSpec => SaveReplacesWhatItSaw
<1>1. ASSUME DInv, [LifecycleNext]_lifecycleVars, NEW r \in WebRequests,
             Stands(r, "save", "commit"), <<boards, file>>' # <<boards, file>>, request'[r] # request[r],
             request[r].saw[1] = BoardOf(request[r].kind, request[r].path)
      PROVE  Stored(request[r].kind, request[r].path).content = request[r].saw[2]
  <2> DEFINE kind == request[r].kind
             path == request[r].path
  <2>1. SaveCommit(r)
    <3>1. ASSUME NEW x \in WebRequests, Return(x) \/ SaveCommit(x)
          PROVE  x = r
      <4>1. DOMAIN request = WebRequests
        BY <1>1, RequestFields DEF DInv
      <4> QED BY <1>1, <3>1, <4>1 DEF Return, SaveCommit
    <3>2. ~ChangeDrawing
      BY <1>1 DEF ChangeDrawing, webVars
    <3>3. \A x \in WebRequests : DeleteBoardDrop(x) => Return(x) /\ ~Stands(x, "save", "commit")
      BY DEF DeleteBoardDrop, Stands
    <3>4. \A x \in WebRequests, t \in Titles : RenameWrite(x, t) => Return(x) /\ ~Stands(x, "save", "commit")
      BY DEF RenameWrite, Stands
    <3>5. ~UNCHANGED storageVars
      BY <1>1 DEF storageVars
    <3> QED BY <1>1, <3>1, <3>2, <3>3, <3>4, <3>5, StorageSteps
  <2>2. Exists(kind, path) /\ Sha(kind, path) = request[r].sha
    BY <1>1, <2>1 DEF SaveCommit, Accepts
  <2>3. KnowsIn(boards, spent, kind, request[r].sha, request[r].saw[1], request[r].saw[2])
    BY <1>1 DEF DInv, SawInv, SawIn, Stands
  <2>4. CASE kind = "github"
    BY <2>2, <2>3, <2>4 DEF KnowsIn, Sha, Stored
  <2>5. CASE kind # "github"
    <3>1. BoardAt(path) \in DOMAIN boards
      BY <2>2, <2>5, BoardThere
    <3>2. request[r].saw[1] = <<BoardAt(path)>>
      BY <1>1, <2>5 DEF BoardOf
    <3> QED BY <2>2, <2>3, <2>5, <3>1, <3>2 DEF KnowsIn, Sha, Stored
  <2> QED BY <2>4, <2>5
<1>2. DInv /\ [LifecycleNext]_lifecycleVars =>
        [\A r \in WebRequests :
           LET q == request[r]
           IN  Stands(r, "save", "commit") /\ <<boards, file>>' # <<boards, file>>
                 /\ request'[r] # q
                 /\ q.saw[1] = BoardOf(q.kind, q.path)
               => Stored(q.kind, q.path).content = q.saw[2]]_lifecycleVars
  BY <1>1
<1> QED BY <1>2, SavesHold, PTL DEF LifecycleSpec, SaveReplacesWhatItSaw

\* A session is not in conflict with its own save: its row holds the sha of what it
\* wrote last, unless the save is still recording it, was cut short before it had, or
\* was crossed by another save of the session.
THEOREM OwnSavesAreNoConflict == LifecycleSpec => []OwnSaveIsNoConflict
<1>1. ASSUME DInv, NEW s \in DOMAIN rows \ torn, rows[s].kind # "adhoc",
             Exists(rows[s].kind, rows[s].path), Stored(rows[s].kind, rows[s].path).by = s,
             rows[s].saw[1] = BoardOf(rows[s].kind, rows[s].path),
             \A r \in WebRequests : ~(Tears(r) /\ s \in request[r].s)
      PROVE  rows[s].base = Sha(rows[s].kind, rows[s].path)
  <2> DEFINE kind == rows[s].kind
             path == rows[s].path
  <2>1. MatchesIn(boards, file, s, kind, rows[s].base, rows[s].saw[1])
    BY <1>1 DEF DInv, OwnInv
  <2>2. CASE kind = "github"
    BY <1>1, <2>1, <2>2 DEF MatchesIn, Stored, Sha
  <2>3. CASE kind # "github"
    <3>1. BoardAt(path) \in DOMAIN boards
      BY <1>1, <2>3, BoardThere
    <3>2. rows[s].saw[1] = <<BoardAt(path)>>
      BY <1>1, <2>3 DEF BoardOf
    <3> QED BY <1>1, <2>1, <2>3, <3>1, <3>2 DEF MatchesIn, Stored, Sha
  <2> QED BY <2>2, <2>3
<1>2. DInv => OwnSaveIsNoConflict
  BY <1>1 DEF OwnSaveIsNoConflict
<1> QED BY <1>2, SavesHold, PTL

-----------------------------------------------------------------------------
(* Types: what is stored, and what rows, requests and collab sessions hold. *)

BoardFits(board) == board.path \in Paths /\ board.content \in Contents
StorageFits ==
  /\ \A b \in DOMAIN boards : BoardFits(boards[b])
  /\ \A b \in DOMAIN versions : \A n \in DOMAIN versions[b] : versions[b][n] \in Contents
  /\ file.content \in Contents

RowFits(row) ==
  /\ row.kind \in Kinds /\ row.status \in Statuses
  /\ row.expiry \in {"none", "ahead", "past"} /\ row.purge \in {"unset", "set", "due"}
RowsFit == \A s \in DOMAIN rows : RowFits(rows[s])
DocsFit == doc \in [Sessions -> Contents \cup {NoDoc}]
HistoryFits == invited \subseteq DOMAIN rows /\ torn \cup reopened \cup unclosed \subseteq born

\* A request that is to write a content has one.
Carries(q) == q.op \in {"create", "ensure", "write"} \/ (q.op = "save" /\ q.at \in {"open", "commit"})
RequestFits(q) == q.kind \in Kinds /\ (Carries(q) => q.content \in Contents)
RequestsFit == \A r \in WebRequests : RequestFits(request[r])

LEMMA FreePathIsPath ==
  ASSUME DOMAIN boards \subseteq Boards, NEW title \in Titles, NEW except
  PROVE  FreePath(title, except) \in Paths
<1> DEFINE taken == {boards[x].path : x \in DOMAIN boards \ except}
           free  == {n \in 0 .. Cardinality(Boards) : <<title, n>> \notin taken}
           least == CHOOSE n \in free : \A m \in free : n <= m
<1>1. FreePath(title, except) = <<title, least>>
  BY DEF FreePath
<1>2. free # {}
  BY SomePathIsFree
<1>3. Cardinality(Boards) \in Nat
  BY StorageAssumption, FS_CardinalityType
<1>4. free \in SUBSET Nat /\ free \subseteq 0 .. Cardinality(Boards)
  BY <1>3
<1> HIDE DEF free
<1>5. least \in free
  BY <1>2, <1>4, LeastNatural
<1> HIDE DEF least
<1> QED BY <1>1, <1>4, <1>5 DEF Paths

\* A write puts a content where there was one, and keeps versions or adds the new one.
LEMMA ReviseFits ==
  ASSUME StorageInv, StorageFits, NEW b \in DOMAIN boards, NEW content \in Contents, NEW who,
         Revise(b, content, who), UNCHANGED file
  PROVE  StorageFits'
<1>1. boards' = [boards EXCEPT ![b] = Written(b, content, who)] /\ boards[b].revision + 1 \in Revisions
  BY ReviseWrites
<1>2. BoardFits(Written(b, content, who))
  BY WrittenFields DEF StorageFits, BoardFits
<1>3. \A c \in DOMAIN boards' : BoardFits(boards'[c])
  BY <1>1, <1>2 DEF StorageFits
<1>4. versions' = [versions EXCEPT ![b] = Pruned(WithVersion(b, boards[b].revision + 1, content), boards[b].revision + 1)]
  BY DEF Revise
<1>5. \A n \in DOMAIN WithVersion(b, boards[b].revision + 1, content) :
        WithVersion(b, boards[b].revision + 1, content)[n] \in Contents
  BY DEF WithVersion, StorageFits, StorageInv
<1>6. \A kept, revision : (\A n \in DOMAIN kept : kept[n] \in Contents)
        => \A n \in DOMAIN Pruned(kept, revision) : Pruned(kept, revision)[n] \in Contents
  BY DEF Pruned
<1>7. ASSUME NEW c \in DOMAIN versions', NEW n \in DOMAIN versions'[c] PROVE versions'[c][n] \in Contents
  <2>1. CASE c = b
    BY <1>4, <1>5, <1>6, <1>7, <2>1
  <2>2. CASE c # b
    <3>1. c \in DOMAIN versions /\ versions'[c] = versions[c]
      BY <1>4, <1>7, <2>2
    <3> QED BY <1>7, <3>1 DEF StorageFits
  <2> QED BY <2>1, <2>2
<1> QED BY <1>3, <1>7 DEF StorageFits

LEMMA WriteFits ==
  ASSUME StorageInv, StorageFits, NEW kind, NEW path, NEW content \in Contents, NEW who, Exists(kind, path),
         Write(kind, path, content, who)
  PROVE  StorageFits'
<1>1. CASE kind = "github"
  <2>1. file' = [content |-> content, by |-> who] /\ UNCHANGED <<boards, versions>>
    BY <1>1 DEF Write
  <2>2. file'.content = content
    BY <2>1
  <2> QED BY <2>1, <2>2 DEF StorageFits, BoardFits
<1>2. CASE kind # "github"
  BY <1>2, BoardThere, ReviseFits DEF Write
<1> QED BY <1>1, <1>2

LEMMA StorageFitsSame ==
  ASSUME StorageFits, UNCHANGED <<boards, versions, file>>
  PROVE  StorageFits'
  BY DEF StorageFits, BoardFits

LEMMA CreateFits ==
  ASSUME StorageInv, StorageFits, NEW b \in Boards, NEW title \in Titles, NEW content \in Contents,
         CreateBoard(b, title, content)
  PROVE  StorageFits'
<1> DEFINE board == [path |-> FreePath(title, {}), revision |-> 1, content |-> content, by |-> Somebody]
<1>1. FreePath(title, {}) \in Paths
  BY FreePathIsPath DEF StorageInv
<1>2. BoardFits(board)
  BY <1>1 DEF BoardFits
<1> HIDE DEF board
<1>3. /\ boards' = [x \in DOMAIN boards \cup {b} |-> IF x # b THEN boards[x] ELSE board]
      /\ versions' = [x \in DOMAIN versions \cup {b} |-> IF x # b THEN versions[x] ELSE [n \in {1} |-> content]]
      /\ UNCHANGED file
  BY DEF CreateBoard, board
<1>4. \A c \in DOMAIN boards' : BoardFits(boards'[c])
  BY <1>2, <1>3 DEF StorageFits
<1>5. \A c \in DOMAIN versions' : \A n \in DOMAIN versions'[c] : versions'[c][n] \in Contents
  BY <1>3 DEF StorageFits
<1> QED BY <1>3, <1>4, <1>5 DEF StorageFits

LEMMA RenameFits ==
  ASSUME StorageInv, StorageFits, NEW b \in DOMAIN boards, NEW title \in Titles, RenameTo(b, title),
         UNCHANGED <<versions, file>>
  PROVE  StorageFits'
<1> DEFINE path == FreePath(title, {b})
<1>1. path \in Paths
  BY FreePathIsPath DEF StorageInv
<1>2. boards' = [boards EXCEPT ![b] = [boards[b] EXCEPT !.path = path]]
  BY DEF RenameTo
<1>3. boards[b] = [path |-> boards[b].path, revision |-> boards[b].revision,
                   content |-> boards[b].content, by |-> boards[b].by]
  BY DEF StorageInv, IsBoard
<1> HIDE DEF path
<1>4. [boards[b] EXCEPT !.path = path].path = path /\ [boards[b] EXCEPT !.path = path].content = boards[b].content
  BY <1>3
<1>5. BoardFits([boards[b] EXCEPT !.path = path])
  BY <1>1, <1>4 DEF StorageFits, BoardFits
<1>6. \A c \in DOMAIN boards' : BoardFits(boards'[c])
  BY <1>2, <1>5 DEF StorageFits
<1> QED BY <1>6 DEF StorageFits

LEMMA StorageFitsStep ==
  ASSUME StorageInv, StorageFits, RequestsFit, [LifecycleNext]_lifecycleVars
  PROVE  StorageFits'
<1>1. CASE UNCHANGED storageVars
  BY <1>1, StorageFitsSame DEF storageVars
<1>2. ASSUME NEW r \in WebRequests, SaveCommit(r) PROVE StorageFits'
  <2>1. request[r].content \in Contents
    BY <1>2 DEF SaveCommit, Stands, RequestsFit, RequestFits, Carries
  <2>2. CASE Accepts(request[r].kind, request[r].path, request[r].sha)
    BY <1>2, <2>1, <2>2, WriteFits DEF SaveCommit, Accepts
  <2>3. CASE ~Accepts(request[r].kind, request[r].path, request[r].sha)
    BY <1>2, <2>3, StorageFitsSame DEF SaveCommit
  <2> QED BY <2>2, <2>3
<1>3. ASSUME NEW r \in WebRequests, DeleteBoardDrop(r) PROVE StorageFits'
  <2> DEFINE b == request[r].saw[1]
  <2>1. /\ boards' = [x \in DOMAIN boards \ {b} |-> boards[x]]
        /\ versions' = [x \in DOMAIN versions \ {b} |-> versions[x]] /\ UNCHANGED file
    BY <1>3 DEF DeleteBoardDrop, DropBoard
  <2> HIDE DEF b
  <2> QED BY <2>1 DEF StorageFits, BoardFits
<1>4. ASSUME NEW r \in WebRequests, NEW title \in Titles, RenameWrite(r, title) PROVE StorageFits'
  BY <1>4, RenameFits, StorageFitsSame DEF RenameWrite
<1>5. CASE ChangeDrawing
  <2>1. ASSUME NEW b \in Boards, NEW t \in Titles, NEW c \in Contents, CreateBoard(b, t, c) PROVE StorageFits'
    BY <2>1, CreateFits
  <2>2. ASSUME NEW b \in Boards, NEW n \in Revisions, RestoreVersion(b, n) PROVE StorageFits'
    <3>1. b \in DOMAIN boards /\ versions[b][n] \in Contents
      BY <2>2 DEF RestoreVersion, StorageFits, StorageInv
    <3> QED BY <2>2, <3>1, ReviseFits DEF RestoreVersion
  <2>3. ASSUME NEW k, NEW p, NEW c \in Contents, SaveDrawing(k, p, c) PROVE StorageFits'
    BY <2>3, WriteFits DEF SaveDrawing
  <2> QED BY <1>5, <2>1, <2>2, <2>3 DEF ChangeDrawing
<1> QED BY <1>1, <1>2, <1>3, <1>4, <1>5, StorageSteps

LEMMA StoredFits ==
  ASSUME StorageFits, NEW kind, NEW path, Exists(kind, path)
  PROVE  Stored(kind, path).content \in Contents
  BY BoardThere DEF Stored, StorageFits, BoardFits

\* The rows: a row keeps its kind, and the other fields take the values they may have.
LEMMA RowFitsChanged ==
  ASSUME Shapes, RowsFit, NEW s, NEW row, RowFits(row),
         rows' = [rows EXCEPT ![s] = row]
  PROVE  RowsFit'
  BY DEF RowsFit

LEMMA RowsFitStep ==
  ASSUME LInv, RowsFit, RequestsFit, [LifecycleNext]_lifecycleVars
  PROVE  RowsFit'
<1>1. \A s \in DOMAIN rows : rows[s] = [kind |-> rows[s].kind, path |-> rows[s].path, status |-> rows[s].status,
                                         base |-> rows[s].base, expiry |-> rows[s].expiry, purge |-> rows[s].purge,
                                         saw |-> rows[s].saw]
  BY RowFields
<1>2. ASSUME UNCHANGED rows PROVE RowsFit'
  BY <1>2 DEF RowsFit
<1>3. ASSUME NEW gone, DeleteRows(gone) PROVE RowsFit'
  BY <1>3 DEF DeleteRows, RowsFit
<1>4. ASSUME NEW s, NEW status \in Statuses, SetStatus(s, status) PROVE RowsFit'
  <2>1. CASE s \notin DOMAIN rows
    BY <1>4, <2>1 DEF SetStatus, RowsFit
  <2>2. CASE s \in DOMAIN rows
    <3>1. rows' = [rows EXCEPT ![s] = [rows[s] EXCEPT !.status = status]]
      BY <1>4, <2>2 DEF SetStatus
    <3>2. /\ [rows[s] EXCEPT !.status = status].kind = rows[s].kind
          /\ [rows[s] EXCEPT !.status = status].status = status
          /\ [rows[s] EXCEPT !.status = status].expiry = rows[s].expiry
          /\ [rows[s] EXCEPT !.status = status].purge = rows[s].purge
      BY <1>1, <2>2
    <3>3. RowFits([rows[s] EXCEPT !.status = status])
      BY <2>2, <3>2 DEF RowFits, RowsFit
    <3> QED BY <3>1, <3>3 DEF RowsFit
  <2> QED BY <2>1, <2>2
<1>5. ASSUME NEW s \in DOMAIN rows, NEW purge \in {"set", "due"}, rows' = [rows EXCEPT ![s].purge = purge]
      PROVE  RowsFit'
  <2>1. rows' = [rows EXCEPT ![s] = [rows[s] EXCEPT !.purge = purge]]
    BY <1>5
  <2>2. /\ [rows[s] EXCEPT !.purge = purge].kind = rows[s].kind
        /\ [rows[s] EXCEPT !.purge = purge].status = rows[s].status
        /\ [rows[s] EXCEPT !.purge = purge].expiry = rows[s].expiry
        /\ [rows[s] EXCEPT !.purge = purge].purge = purge
    BY <1>1
  <2>3. RowFits([rows[s] EXCEPT !.purge = purge])
    BY <2>2 DEF RowFits, RowsFit
  <2> QED BY <2>1, <2>3 DEF RowsFit
<1>6. ASSUME NEW r \in WebRequests, NEW s \in Sessions, CreateInsert(r, s) PROVE RowsFit'
  <2>1. PICK base :
          InsertRow(s, [kind |-> request[r].kind, path |-> request[r].path, status |-> "active", base |-> base,
                        expiry |-> IF request[r].kind = "adhoc" THEN "ahead" ELSE "none",
                        purge |-> "unset", saw |-> <<request[r].saw, request[r].content>>])
    BY <1>6 DEF CreateInsert
  <2> DEFINE row == [kind |-> request[r].kind, path |-> request[r].path, status |-> "active", base |-> base,
                     expiry |-> IF request[r].kind = "adhoc" THEN "ahead" ELSE "none",
                     purge |-> "unset", saw |-> <<request[r].saw, request[r].content>>]
  <2>2. request[r].kind \in Kinds
    BY DEF RequestsFit, RequestFits
  <2>3. RowFits(row)
    BY <2>2 DEF RowFits, Statuses
  <2> HIDE DEF row
  <2>4. rows' = [x \in DOMAIN rows \cup {s} |-> IF x = s THEN row ELSE rows[x]]
    BY <2>1 DEF InsertRow, row
  <2> QED BY <2>3, <2>4 DEF RowsFit
<1>7. ASSUME NEW r \in WebRequests, SaveBase(r) PROVE RowsFit'
  <2> DEFINE s == Of(r)
  <2>1. CASE s \notin DOMAIN rows
    BY <1>2, <1>7, <2>1 DEF SaveBase
  <2>2. CASE s \in DOMAIN rows
    <3>1. rows' = [rows EXCEPT ![s] = [rows[s] EXCEPT !.base = request[r].sha, !.saw = request[r].saw]]
      BY <1>7, <2>2 DEF SaveBase
    <3> HIDE DEF s
    <3>2. \A base, saw : /\ [rows[s] EXCEPT !.base = base, !.saw = saw].kind = rows[s].kind
                         /\ [rows[s] EXCEPT !.base = base, !.saw = saw].status = rows[s].status
                         /\ [rows[s] EXCEPT !.base = base, !.saw = saw].expiry = rows[s].expiry
                         /\ [rows[s] EXCEPT !.base = base, !.saw = saw].purge = rows[s].purge
      BY <1>1, <2>2
    <3>3. RowFits([rows[s] EXCEPT !.base = request[r].sha, !.saw = request[r].saw])
      BY <2>2, <3>2 DEF RowFits, RowsFit
    <3> QED BY <3>1, <3>3 DEF RowsFit
  <2> QED BY <2>1, <2>2
<1>8. ASSUME NEW r \in WebRequests, PurgeList(r) PROVE RowsFit'
  <2>1. /\ DOMAIN rows' = DOMAIN rows
        /\ \A s \in DOMAIN rows : rows'[s] = rows[s] \/ rows'[s] = [rows[s] EXCEPT !.purge = "set"]
    BY <1>8 DEF PurgeList
  <2>2. ASSUME NEW s \in DOMAIN rows PROVE RowFits([rows[s] EXCEPT !.purge = "set"])
    <3>1. /\ [rows[s] EXCEPT !.purge = "set"].kind = rows[s].kind
          /\ [rows[s] EXCEPT !.purge = "set"].status = rows[s].status
          /\ [rows[s] EXCEPT !.purge = "set"].expiry = rows[s].expiry
          /\ [rows[s] EXCEPT !.purge = "set"].purge = "set"
      BY <1>1
    <3> QED BY <3>1 DEF RowFits, RowsFit
  <2> QED BY <2>1, <2>2 DEF RowsFit
<1>9. ASSUME NEW s \in Sessions, Expire(s) PROVE RowsFit'
  <2>1. s \in DOMAIN rows /\ rows' = [rows EXCEPT ![s] = [rows[s] EXCEPT !.expiry = "past"]]
    BY <1>9 DEF Expire
  <2>2. /\ [rows[s] EXCEPT !.expiry = "past"].kind = rows[s].kind
        /\ [rows[s] EXCEPT !.expiry = "past"].status = rows[s].status
        /\ [rows[s] EXCEPT !.expiry = "past"].expiry = "past"
        /\ [rows[s] EXCEPT !.expiry = "past"].purge = rows[s].purge
    BY <1>1, <2>1
  <2>3. RowFits([rows[s] EXCEPT !.expiry = "past"])
    BY <2>1, <2>2 DEF RowFits, RowsFit
  <2> QED BY <2>1, <2>3 DEF RowsFit
<1>10. ASSUME NEW r \in WebRequests, CreateStep(r) PROVE RowsFit'
  BY <1>2, <1>3, <1>6, <1>10 DEF CreateStep, CreateOpen, CreateUpload, CreateRegister, CreateUndo, CreateInvites
<1>11. ASSUME NEW r \in WebRequests, SaveStep(r) PROVE RowsFit'
  <2>1. "saved" \in Statuses
    BY DEF Statuses
  <2> QED BY <1>2, <1>4, <1>7, <1>11, <2>1
          DEF SaveStep, SaveRead, SaveSnapshot, SaveOpen, SaveCommit, SaveStatus, SaveRow
<1>12. ASSUME NEW r \in WebRequests, StatusStep(r) PROVE RowsFit'
  <2>1. request[r].status \in Statuses
    BY RequestFields
  <2> QED BY <1>2, <1>4, <1>5, <1>12, <2>1
          DEF StatusStep, StatusRead, StatusCollab, StatusRow, StatusPurge, StatusRevoke
<1>13. ASSUME NEW r \in WebRequests, StateStep(r) PROVE RowsFit'
  BY <1>2, <1>3, <1>13 DEF StateStep, ListRead, DeleteRow, EnsureRead, WriteRead, ListInvites, DeleteClose,
                           EnsureRegister, WriteUpsert
<1>14. ASSUME NEW r \in WebRequests, PurgeStep(r) PROVE RowsFit'
  BY <1>2, <1>3, <1>8, <1>14 DEF PurgeStep, PurgeRows, PurgeCollab
<1>15. ASSUME NEW r \in WebRequests, BoardStep(r) PROVE RowsFit'
  BY <1>2, <1>3, <1>15 DEF BoardStep, RenameRead, DeleteBoardRead, RenameWrite, DeleteBoardClose, DeleteBoardRow,
                           DeleteBoardDrop
<1>16. ASSUME NEW r \in WebRequests, Abort(r) PROVE RowsFit'
  BY <1>2, <1>16 DEF Abort
<1>19. ASSUME NEW r \in WebRequests, CollabStep(r) PROVE RowsFit'
  BY <1>2, <1>19 DEF CollabStep, MoveEnds
<1>17. ASSUME NEW s \in Sessions, Elapse(s) \/ \E c \in Contents : Edit(s, c) PROVE RowsFit'
  BY <1>2, <1>5, <1>17 DEF Elapse, Edit, webVars
<1>18. CASE ChangeDrawing \/ UNCHANGED lifecycleVars
  BY <1>2, <1>18 DEF ChangeDrawing, lifecycleVars, webVars
<1> QED BY <1>9, <1>10, <1>11, <1>12, <1>13, <1>14, <1>15, <1>16, <1>17, <1>18, <1>19 DEF LifecycleNext

\* The collab sessions' documents.
LEMMA DocsFitStep ==
  ASSUME LInv, DocsFit, RequestsFit, [LifecycleNext]_lifecycleVars
  PROVE  DocsFit'
<1>1. ASSUME UNCHANGED doc PROVE DocsFit'
  BY <1>1 DEF DocsFit
<1>2. ASSUME NEW s, NEW content \in Contents \cup {NoDoc},
             \/ doc' = [doc EXCEPT ![s] = content]
             \/ doc' = [doc EXCEPT ![s] = IF @ = NoDoc THEN content ELSE @]
      PROVE  DocsFit'
  BY <1>2 DEF DocsFit
<1>3. ASSUME NEW r \in WebRequests, CreateRegister(r) \/ EnsureRegister(r) \/ WriteUpsert(r) PROVE DocsFit'
  <2>1. request[r].content \in Contents
    BY <1>3 DEF CreateRegister, EnsureRegister, WriteUpsert, Stands, RequestsFit, RequestFits, Carries
  <2> QED BY <1>1, <1>2, <1>3, <2>1 DEF CreateRegister, EnsureRegister, WriteUpsert, Registered, collabVars
<1>4. ASSUME NEW r \in WebRequests, NEW s \in Sessions, PurgeCollab(r, s) PROVE DocsFit'
  BY <1>1, <1>2, <1>4 DEF PurgeCollab, collabVars
<1>5. ASSUME NEW s \in Sessions, NEW c \in Contents, Edit(s, c) PROVE DocsFit'
  BY <1>2, <1>5 DEF Edit
<1>6. ASSUME NEW r, NEW s, NEW status, Asked(r, s, status) \/ MoveEnds(r, s, status) PROVE DocsFit'
  BY <1>1, <1>6 DEF Asked, MoveEnds
<1>7. ASSUME NEW r \in WebRequests, CreateStep(r) PROVE DocsFit'
  BY <1>1, <1>3, <1>7 DEF CreateStep, CreateOpen, CreateUpload, CreateInsert, CreateUndo, CreateInvites, collabVars
<1>8. ASSUME NEW r \in WebRequests, SaveStep(r) PROVE DocsFit'
  BY <1>1, <1>6, <1>8 DEF SaveStep, SaveRead, SaveSnapshot, SaveOpen, SaveCommit, SaveStatus, SaveBase, SaveRow, collabVars
<1>9. ASSUME NEW r \in WebRequests, StatusStep(r) PROVE DocsFit'
  BY <1>1, <1>6, <1>9 DEF StatusStep, StatusRead, StatusCollab, StatusRow, StatusPurge, StatusRevoke, collabVars
<1>10. ASSUME NEW r \in WebRequests, StateStep(r) PROVE DocsFit'
  BY <1>1, <1>3, <1>6, <1>10 DEF StateStep, ListRead, DeleteRow, EnsureRead, WriteRead, ListInvites, DeleteClose, collabVars
<1>11. ASSUME NEW r \in WebRequests, PurgeStep(r) PROVE DocsFit'
  BY <1>1, <1>4, <1>11 DEF PurgeStep, PurgeList, PurgeRows, collabVars
<1>12. ASSUME NEW r \in WebRequests, BoardStep(r) PROVE DocsFit'
  BY <1>1, <1>6, <1>12 DEF BoardStep, RenameRead, DeleteBoardRead, RenameWrite, DeleteBoardClose, DeleteBoardRow,
                           DeleteBoardDrop, collabVars
<1>13. ASSUME \/ \E r \in WebRequests : Abort(r)
              \/ \E s \in Sessions : Expire(s) \/ Elapse(s)
              \/ ChangeDrawing \/ UNCHANGED lifecycleVars
       PROVE  DocsFit'
  BY <1>1, <1>13 DEF Abort, Expire, Elapse, ChangeDrawing, lifecycleVars, collabVars
<1> QED BY <1>5, <1>6, <1>7, <1>8, <1>9, <1>10, <1>11, <1>12, <1>13 DEF LifecycleNext, CollabStep

\* Invitations are those of rows, and what is remembered of sessions is of sessions.
LEMMA HistoryFitsStep ==
  ASSUME LInv, HistoryFits, [LifecycleNext]_lifecycleVars
  PROVE  HistoryFits'
<1>1. /\ \A r \in WebRequests : request[r].s \subseteq born
      /\ DOMAIN rows \subseteq born
  BY DEF LInv, Shapes
<1>2. ASSUME UNCHANGED <<rows, invited, born, torn, reopened, unclosed>> PROVE HistoryFits'
  BY <1>2 DEF HistoryFits
<1>3. ASSUME NEW gone, DeleteRows(gone), UNCHANGED <<born, torn, reopened, unclosed>> PROVE HistoryFits'
  BY <1>3 DEF DeleteRows, HistoryFits
<1>4. ASSUME DOMAIN rows' = DOMAIN rows, UNCHANGED <<invited, born, torn, reopened, unclosed>> PROVE HistoryFits'
  BY <1>4 DEF HistoryFits
<1>5. ASSUME NEW s, NEW status, SetStatus(s, status), UNCHANGED <<invited, born, torn, unclosed>> PROVE HistoryFits'
  <2>1. DOMAIN rows' = DOMAIN rows /\ reopened' \subseteq reopened \cup (DOMAIN rows)
    BY <1>5 DEF SetStatus
  <2> QED BY <1>1, <1>5, <2>1 DEF HistoryFits
<1>6. ASSUME NEW r \in WebRequests, UNCHANGED <<rows, invited, born, reopened>>,
             torn' \subseteq torn \cup request[r].s, unclosed' \subseteq unclosed \cup request[r].s
      PROVE  HistoryFits'
  BY <1>1, <1>6 DEF HistoryFits
<1>7. ASSUME UNCHANGED <<rows, born, torn, reopened, unclosed>>, invited' \subseteq invited \cup DOMAIN rows
      PROVE  HistoryFits'
  BY <1>7 DEF HistoryFits
<1>8. ASSUME NEW r \in WebRequests, CreateStep(r) PROVE HistoryFits'
  <2>1. ASSUME NEW s \in Sessions, CreateInsert(r, s) PROVE HistoryFits'
    BY <2>1 DEF CreateInsert, InsertRow, HistoryFits
  <2> QED BY <1>2, <1>3, <1>7, <1>8, <2>1
          DEF CreateStep, CreateOpen, CreateUpload, CreateRegister, CreateUndo, CreateInvites
<1>9. ASSUME NEW r \in WebRequests, SaveStep(r) PROVE HistoryFits'
  <2>1. CASE SaveCommit(r)
    <3>1. UNCHANGED <<rows, invited, born, reopened, unclosed>> /\ torn' \subseteq torn \cup request[r].s
      BY <2>1 DEF SaveCommit
    <3> QED BY <1>6, <3>1
  <2>2. CASE SaveBase(r)
    BY <1>4, <2>2 DEF SaveBase
  <2>3. CASE SaveRow(r)
    BY <1>5, <2>3 DEF SaveRow
  <2> QED BY <1>2, <1>9, <2>1, <2>2, <2>3 DEF SaveStep, SaveRead, SaveSnapshot, SaveOpen, SaveStatus
<1>10. ASSUME NEW r \in WebRequests, StatusStep(r) PROVE HistoryFits'
  <2>1. CASE StatusRow(r)
    BY <1>5, <2>1 DEF StatusRow
  <2>2. CASE StatusPurge(r)
    <3>1. DOMAIN rows' = DOMAIN rows
      BY <2>2 DEF StatusPurge
    <3> QED BY <1>4, <2>2, <3>1 DEF StatusPurge
  <2>3. CASE StatusRevoke(r)
    BY <1>7, <2>3 DEF StatusRevoke
  <2> QED BY <1>2, <1>10, <2>1, <2>2, <2>3 DEF StatusStep, StatusRead, StatusCollab
<1>11. ASSUME NEW r \in WebRequests, StateStep(r) PROVE HistoryFits'
  <2>1. CASE DeleteClose(r)
    <3>1. UNCHANGED <<rows, invited, born, torn, reopened>> /\ unclosed' \subseteq unclosed \cup request[r].s
      BY <2>1 DEF DeleteClose
    <3> QED BY <1>6, <3>1
  <2>2. CASE ListInvites(r)
    BY <1>7, <2>2 DEF ListInvites
  <2> QED BY <1>2, <1>3, <1>11, <2>1, <2>2 DEF StateStep, ListRead, DeleteRow, EnsureRead, WriteRead,
                                              EnsureRegister, WriteUpsert
<1>12. ASSUME NEW r \in WebRequests, PurgeStep(r) PROVE HistoryFits'
  <2>1. CASE PurgeList(r)
    BY <1>4, <2>1 DEF PurgeList
  <2> QED BY <1>2, <1>3, <1>12, <2>1 DEF PurgeStep, PurgeRows, PurgeCollab
<1>13. ASSUME NEW r \in WebRequests, BoardStep(r) PROVE HistoryFits'
  <2>1. ASSUME NEW s \in Sessions, DeleteBoardClose(r, s) PROVE HistoryFits'
    <3>1. UNCHANGED <<rows, invited, born, torn, reopened>> /\ unclosed' \subseteq unclosed \cup request[r].s
      BY <2>1 DEF DeleteBoardClose
    <3> QED BY <1>6, <3>1
  <2> QED BY <1>2, <1>3, <1>13, <2>1 DEF BoardStep, RenameRead, DeleteBoardRead, RenameWrite, DeleteBoardRow,
                                        DeleteBoardDrop
<1>14. ASSUME NEW r \in WebRequests, Abort(r) PROVE HistoryFits'
  <2>1. /\ UNCHANGED <<rows, invited, born, reopened>> /\ torn' \subseteq torn \cup request[r].s
        /\ unclosed' \subseteq unclosed \cup request[r].s
    BY <1>14 DEF Abort, Abandons
  <2> QED BY <1>6, <2>1
<1>15. ASSUME NEW s \in Sessions, Expire(s) \/ Elapse(s) \/ \E c \in Contents : Edit(s, c) PROVE HistoryFits'
  <2>1. DOMAIN rows' = DOMAIN rows
    BY <1>15 DEF Expire, Elapse, Edit, webVars
  <2> QED BY <1>4, <1>15, <2>1 DEF Expire, Elapse, Edit, webVars
<1>16. CASE ChangeDrawing \/ UNCHANGED lifecycleVars
  BY <1>2, <1>16 DEF ChangeDrawing, lifecycleVars, webVars
<1>17. ASSUME NEW r \in WebRequests, CollabStep(r) PROVE HistoryFits'
  <2>1. UNCHANGED <<rows, invited, born, torn, reopened>> /\ unclosed' \subseteq unclosed
    BY <1>17 DEF CollabStep, MoveEnds
  <2> QED BY <1>6, <1>17, <2>1
<1> QED BY <1>8, <1>9, <1>10, <1>11, <1>12, <1>13, <1>14, <1>15, <1>16, <1>17 DEF LifecycleNext

\* A request that begins on a row, or goes on from an await.
LEMMA RequestFitsGoesOn ==
  ASSUME LInv, NEW r \in WebRequests, RequestFits(request[r]), NEW at, NEW s, NEW done, NEW sha, NEW saw,
         request[r].op = "save" => at \notin {"open", "commit"} \/ request[r].at \in {"open", "commit"}
  PROVE  /\ RequestFits([request[r] EXCEPT !.at = at])
         /\ RequestFits([request[r] EXCEPT !.at = at, !.s = s])
         /\ RequestFits([request[r] EXCEPT !.at = at, !.done = done])
         /\ RequestFits([request[r] EXCEPT !.at = at, !.s = s, !.done = done])
         /\ RequestFits([request[r] EXCEPT !.at = at, !.sha = sha, !.saw = saw])
<1> DEFINE Goes(q) == q.op = request[r].op /\ q.kind = request[r].kind /\ q.content = request[r].content /\ q.at = at
<1>1. ASSUME NEW q, Goes(q) PROVE RequestFits(q)
  BY <1>1 DEF RequestFits, Carries
<1>2. request[r] = [op |-> request[r].op, at |-> request[r].at, s |-> request[r].s,
                    kind |-> request[r].kind, path |-> request[r].path, sha |-> request[r].sha,
                    content |-> request[r].content, saw |-> request[r].saw,
                    status |-> request[r].status, done |-> request[r].done]
  BY RequestFields
<1>3. Goes([request[r] EXCEPT !.at = at]) /\ Goes([request[r] EXCEPT !.at = at, !.s = s])
  BY <1>2
<1>4. Goes([request[r] EXCEPT !.at = at, !.done = done]) /\ Goes([request[r] EXCEPT !.at = at, !.s = s, !.done = done])
  BY <1>2
<1>5. Goes([request[r] EXCEPT !.at = at, !.sha = sha, !.saw = saw])
  BY <1>2
<1> HIDE DEF Goes
<1> QED BY <1>1, <1>3, <1>4, <1>5

LEMMA RequestsFitStep ==
  ASSUME LInv, StorageFits, RowsFit, DocsFit, RequestsFit, [LifecycleNext]_lifecycleVars
  PROVE  RequestsFit'
<1>1. DOMAIN request = WebRequests
  BY DEF LInv, Shapes
<1>2. ASSUME NEW r \in WebRequests, NEW q, RequestFits(q), request' = [request EXCEPT ![r] = q] PROVE RequestsFit'
  BY <1>1, <1>2 DEF RequestsFit
<1>3. ASSUME UNCHANGED request PROVE RequestsFit'
  BY <1>3 DEF RequestsFit
<1>4. RequestFits(IdleRequest)
  BY DEF RequestFits, Carries, IdleRequest, Kinds
<1>5. ASSUME NEW r \in WebRequests, Return(r) PROVE RequestsFit'
  BY <1>2, <1>4, <1>5 DEF Return
<1>6. ASSUME NEW r \in WebRequests, NEW at, Continue(r, at), at \notin {"open", "commit"} PROVE RequestsFit'
  <2>1. request' = [request EXCEPT ![r] = [request[r] EXCEPT !.at = at]]
    BY <1>6 DEF Continue
  <2>2. RequestFits([request[r] EXCEPT !.at = at])
    BY <1>6, RequestFitsGoesOn DEF RequestsFit
  <2> QED BY <1>2, <2>1, <2>2
<1>7. ASSUME NEW op, NEW at, NEW s \in DOMAIN rows
      PROVE  /\ On(op, at, s).op = op /\ On(op, at, s).at = at /\ On(op, at, s).kind \in Kinds
             /\ On(op, at, s) = [op |-> op, at |-> at, s |-> {s}, kind |-> rows[s].kind, path |-> rows[s].path,
                                 sha |-> NoSha, content |-> NoDoc, saw |-> <<>>, status |-> "active", done |-> {}]
  <2> DEFINE q == On(op, at, s)
  <2>a. q = [IdleRequest EXCEPT !.op = op, !.at = at, !.s = {s}, !.kind = rows[s].kind, !.path = rows[s].path]
    BY DEF On
  <2> HIDE DEF q
  <2>b. q = [op |-> op, at |-> at, s |-> {s}, kind |-> rows[s].kind, path |-> rows[s].path,
             sha |-> NoSha, content |-> NoDoc, saw |-> <<>>, status |-> "active", done |-> {}]
    BY <2>a DEF IdleRequest
  <2>1. On(op, at, s) = [op |-> op, at |-> at, s |-> {s}, kind |-> rows[s].kind, path |-> rows[s].path,
                         sha |-> NoSha, content |-> NoDoc, saw |-> <<>>, status |-> "active", done |-> {}]
    BY <2>b DEF q
  <2>2. rows[s].kind \in Kinds
    BY DEF RowsFit, RowFits
  <2> QED BY <2>1, <2>2
<1>8. ASSUME NEW r \in WebRequests, CreateStep(r) PROVE RequestsFit'
  <2>1. ASSUME NEW kind \in {"instance", "github"}, NEW path, CreateOpen(r, kind, path) PROVE RequestsFit'
    <3> DEFINE q == [IdleRequest EXCEPT !.op = "create", !.at = "insert", !.kind = kind,
                       !.path = path, !.sha = Sha(kind, path), !.content = Stored(kind, path).content,
                       !.saw = BoardOf(kind, path)]
    <3>1. Stored(kind, path).content \in Contents
      BY <2>1, StoredFits DEF CreateOpen
    <3>2. q.op = "create" /\ q.kind = kind /\ q.content = Stored(kind, path).content
      BY DEF IdleRequest
    <3>3. request' = [request EXCEPT ![r] = q]
      BY <2>1 DEF CreateOpen, Begin
    <3> HIDE DEF q
    <3>4. RequestFits(q)
      BY <3>1, <3>2 DEF RequestFits, Kinds
    <3> QED BY <1>2, <3>3, <3>4
  <2>2. ASSUME NEW c \in Contents, CreateUpload(r, c) PROVE RequestsFit'
    <3> DEFINE q == [IdleRequest EXCEPT !.op = "create", !.at = "insert", !.content = c]
    <3>1. RequestFits(q)
      BY DEF IdleRequest, RequestFits, Kinds
    <3>2. request' = [request EXCEPT ![r] = q]
      BY <2>2 DEF CreateUpload, Begin
    <3> HIDE DEF q
    <3> QED BY <1>2, <3>1, <3>2
  <2>3. ASSUME NEW s \in Sessions, CreateInsert(r, s) PROVE RequestsFit'
    <3>1. request' = [request EXCEPT ![r] = [request[r] EXCEPT !.at = "register", !.s = {s}]]
      BY <2>3 DEF CreateInsert
    <3>2. request[r].op # "save"
      BY <2>3 DEF CreateInsert, Stands
    <3>3. RequestFits([request[r] EXCEPT !.at = "register", !.s = {s}])
      BY <3>2, RequestFitsGoesOn DEF RequestsFit
    <3> QED BY <1>2, <3>1, <3>3
  <2> QED BY <1>5, <1>6, <1>8, <2>1, <2>2, <2>3 DEF CreateStep, CreateRegister, CreateUndo, CreateInvites
<1>9. ASSUME NEW r \in WebRequests, SaveStep(r) PROVE RequestsFit'
  <2>1. ASSUME NEW s \in Sessions, SaveRead(r, s) PROVE RequestsFit'
    <3> DEFINE q == [On("save", "snapshot", s) EXCEPT !.sha = rows[s].base, !.saw = rows[s].saw]
    <3>1. s \in DOMAIN rows /\ request' = [request EXCEPT ![r] = q]
      BY <2>1 DEF SaveRead, Begin
    <3>2. q.op = "save" /\ q.at = "snapshot" /\ q.kind \in Kinds
      BY <1>7, <3>1
    <3> HIDE DEF q
    <3>3. RequestFits(q)
      BY <3>2 DEF RequestFits, Carries
    <3> QED BY <1>2, <3>1, <3>3
  <2>2. CASE SaveSnapshot(r) /\ ~Return(r)
    <3> DEFINE q == [request[r] EXCEPT !.at = IF request[r].sha = NoSha THEN "open" ELSE "commit",
                                       !.content = doc[Of(r)]]
    <3>1. doc[Of(r)] # NoDoc /\ request' = [request EXCEPT ![r] = q] /\ request[r].op = "save"
      BY <2>2 DEF SaveSnapshot, Stands
    <3>2. Of(r) \in Sessions
      BY <3>1, RequestFields DEF AboutOne
    <3>3. doc[Of(r)] \in Contents
      BY <3>1, <3>2 DEF DocsFit
    <3>4. q.kind = request[r].kind /\ q.content = doc[Of(r)]
      BY RequestFields
    <3> HIDE DEF q
    <3>5. RequestFits(q)
      BY <3>3, <3>4 DEF RequestsFit, RequestFits
    <3> QED BY <1>2, <3>1, <3>5
  <2>3. CASE SaveOpen(r) /\ ~Return(r)
    <3>1. request' = [request EXCEPT ![r] =
            [request[r] EXCEPT !.at = "commit", !.sha = Sha(request[r].kind, request[r].path),
               !.saw = <<BoardOf(request[r].kind, request[r].path),
                         Stored(request[r].kind, request[r].path).content>>]]
      BY <2>3 DEF SaveOpen
    <3>2. request[r].at = "open"
      BY <2>3 DEF SaveOpen, Stands
    <3>3. \A sha, saw : RequestFits([request[r] EXCEPT !.at = "commit", !.sha = sha, !.saw = saw])
      BY <3>2, RequestFitsGoesOn DEF RequestsFit
    <3> QED BY <1>2, <3>1, <3>3
  <2>4. CASE SaveCommit(r) /\ ~Return(r)
    <3>1. request' = [request EXCEPT ![r] =
            [request[r] EXCEPT !.at = "status",
               !.sha = ShaAfter(request[r].kind, request[r].path, request[r].content),
               !.saw = <<BoardOf(request[r].kind, request[r].path), request[r].content>>]]
      BY <2>4 DEF SaveCommit
    <3>2. \A sha, saw : RequestFits([request[r] EXCEPT !.at = "status", !.sha = sha, !.saw = saw])
      BY RequestFitsGoesOn DEF RequestsFit
    <3> QED BY <1>2, <3>1, <3>2
  <2> QED BY <1>5, <1>6, <1>9, <2>1, <2>2, <2>3, <2>4 DEF SaveStep, SaveStatus, SaveBase, SaveRow
<1>10. ASSUME NEW r \in WebRequests, StatusStep(r) PROVE RequestsFit'
  <2>1. ASSUME NEW s \in Sessions, NEW status \in Statuses, StatusRead(r, s, status) PROVE RequestsFit'
    <3> DEFINE q == [On("status", "collab", s) EXCEPT !.status = status]
    <3>1. s \in DOMAIN rows /\ request' = [request EXCEPT ![r] = q]
      BY <2>1 DEF StatusRead, Begin
    <3>2. q.op = "status" /\ q.kind \in Kinds
      BY <1>7, <3>1
    <3> HIDE DEF q
    <3>3. RequestFits(q)
      BY <3>2 DEF RequestFits, Carries
    <3> QED BY <1>2, <3>1, <3>3
  <2> QED BY <1>5, <1>6, <1>10, <2>1 DEF StatusStep, StatusCollab, StatusRow, StatusPurge, StatusRevoke
<1>11. ASSUME NEW r \in WebRequests, StateStep(r) PROVE RequestsFit'
  <2>1. ASSUME NEW s \in Sessions, ListRead(r, s) \/ DeleteRow(r, s) PROVE RequestsFit'
    <3>1. s \in DOMAIN rows
      BY <2>1 DEF ListRead, DeleteRow
    <3>2. \E op, at : op \in {"list", "delete"} /\ request' = [request EXCEPT ![r] = On(op, at, s)]
      BY <2>1 DEF ListRead, DeleteRow, Begin
    <3>3. PICK op, at : op \in {"list", "delete"} /\ request' = [request EXCEPT ![r] = On(op, at, s)]
      BY <3>2
    <3>4. RequestFits(On(op, at, s))
      BY <1>7, <3>1, <3>3 DEF RequestFits, Carries
    <3> QED BY <1>2, <3>3, <3>4
  <2>2. ASSUME NEW s \in Sessions, NEW c \in Contents, NEW op, NEW at, s \in DOMAIN rows,
               request' = [request EXCEPT ![r] = [On(op, at, s) EXCEPT !.content = c]]
        PROVE  RequestsFit'
    <3>1. /\ [On(op, at, s) EXCEPT !.content = c].kind \in Kinds
          /\ [On(op, at, s) EXCEPT !.content = c].content = c
      BY <1>7, <2>2
    <3>2. RequestFits([On(op, at, s) EXCEPT !.content = c])
      BY <3>1 DEF RequestFits
    <3> QED BY <1>2, <2>2, <3>2
  <2>3. ASSUME NEW s \in Sessions, EnsureRead(r, s) PROVE RequestsFit'
    <3>1. Stored(rows[s].kind, rows[s].path).content \in Contents /\ s \in DOMAIN rows
      BY <2>3, StoredFits DEF EnsureRead
    <3> QED BY <2>2, <2>3, <3>1 DEF EnsureRead, Begin
  <2>4. ASSUME NEW s \in Sessions, NEW c \in Contents, WriteRead(r, s, c) PROVE RequestsFit'
    BY <2>2, <2>4 DEF WriteRead, Begin
  <2> QED BY <1>5, <1>11, <2>1, <2>3, <2>4 DEF StateStep, ListInvites, DeleteClose, EnsureRegister, WriteUpsert
<1>12. ASSUME NEW r \in WebRequests, PurgeStep(r) PROVE RequestsFit'
  <2>1. CASE PurgeList(r)
    <3>1. ASSUME NEW due, request' = [request EXCEPT ![r] = [IdleRequest EXCEPT !.op = "purge", !.at = "collab", !.s = due]]
          PROVE  RequestsFit'
      <4>1. RequestFits([IdleRequest EXCEPT !.op = "purge", !.at = "collab", !.s = due])
        BY DEF IdleRequest, RequestFits, Carries, Kinds
      <4> QED BY <1>2, <3>1, <4>1
    <3> QED BY <1>3, <2>1, <3>1 DEF PurgeList, Begin
  <2>2. ASSUME NEW s \in Sessions, PurgeCollab(r, s) PROVE RequestsFit'
    <3>1. request[r].op = "purge"
      BY <2>2 DEF PurgeCollab, Stands
    <3>2. PICK done : request' = [request EXCEPT ![r] = [request[r] EXCEPT !.s = request[r].s \ {s}, !.done = done]]
                      \/ request' = [request EXCEPT ![r] = [request[r] EXCEPT !.s = request[r].s \ {s}]]
      BY <2>2 DEF PurgeCollab
    <3>3. \A t : /\ [request[r] EXCEPT !.s = t, !.done = done].op = request[r].op
                 /\ [request[r] EXCEPT !.s = t, !.done = done].kind = request[r].kind
                 /\ [request[r] EXCEPT !.s = t].op = request[r].op
                 /\ [request[r] EXCEPT !.s = t].kind = request[r].kind
      BY RequestFields
    <3>4. \A t : RequestFits([request[r] EXCEPT !.s = t, !.done = done]) /\ RequestFits([request[r] EXCEPT !.s = t])
      BY <3>1, <3>3 DEF RequestsFit, RequestFits, Carries
    <3> QED BY <1>2, <3>2, <3>4
  <2> QED BY <1>5, <1>12, <2>1, <2>2 DEF PurgeStep, PurgeRows
<1>13. ASSUME NEW r \in WebRequests, BoardStep(r) PROVE RequestsFit'
  <2>1. ASSUME NEW b \in Boards, RenameRead(r, b) PROVE RequestsFit'
    <3>1. RequestFits([IdleRequest EXCEPT !.op = "rename", !.at = "rename", !.saw = <<b>>])
      BY DEF IdleRequest, RequestFits, Carries, Kinds
    <3> QED BY <1>2, <2>1, <3>1 DEF RenameRead, Begin
  <2>2. ASSUME NEW b \in Boards, DeleteBoardRead(r, b) PROVE RequestsFit'
    <3>1. \A t : RequestFits([IdleRequest EXCEPT !.op = "deleteBoard", !.at = "sessions", !.s = t, !.saw = <<b>>])
      BY DEF IdleRequest, RequestFits, Carries, Kinds
    <3>2. request' = [request EXCEPT ![r] = [IdleRequest EXCEPT !.op = "deleteBoard", !.at = "sessions",
                                                                !.s = SessionsAt(b), !.saw = <<b>>]]
      BY <2>2 DEF DeleteBoardRead, Begin
    <3> QED BY <1>2, <3>1, <3>2
  <2>3. ASSUME NEW s \in Sessions, DeleteBoardClose(r, s) PROVE RequestsFit'
    <3>1. request' = [request EXCEPT ![r] = [request[r] EXCEPT !.at = "row", !.done = {s}]]
      BY <2>3 DEF DeleteBoardClose
    <3>2. RequestFits([request[r] EXCEPT !.at = "row", !.done = {s}])
      BY RequestFitsGoesOn DEF RequestsFit
    <3> QED BY <1>2, <3>1, <3>2
  <2>4. CASE DeleteBoardRow(r)
    <3>1. request' = [request EXCEPT ![r] = [request[r] EXCEPT !.at = "sessions",
                        !.s = request[r].s \ request[r].done, !.done = {}]]
      BY <2>4 DEF DeleteBoardRow
    <3>2. \A t : RequestFits([request[r] EXCEPT !.at = "sessions", !.s = t, !.done = {}])
      BY RequestFitsGoesOn DEF RequestsFit
    <3> QED BY <1>2, <3>1, <3>2
  <2> QED BY <1>5, <1>13, <2>1, <2>2, <2>3, <2>4 DEF BoardStep, RenameWrite, DeleteBoardDrop
<1>14. ASSUME NEW r \in WebRequests, Abort(r) PROVE RequestsFit'
  BY <1>5, <1>14 DEF Abort
<1>16. ASSUME NEW r \in WebRequests, CollabStep(r) PROVE RequestsFit'
  BY <1>3, <1>5, <1>6, <1>16 DEF CollabStep, MoveEnds, Return, Continue
<1>15. ASSUME \/ \E s \in Sessions : Expire(s) \/ Elapse(s) \/ \E c \in Contents : Edit(s, c)
              \/ ChangeDrawing \/ UNCHANGED lifecycleVars
       PROVE  RequestsFit'
  BY <1>3, <1>15 DEF Expire, Elapse, Edit, ChangeDrawing, lifecycleVars, webVars
<1> QED BY <1>8, <1>9, <1>10, <1>11, <1>12, <1>13, <1>14, <1>15, <1>16 DEF LifecycleNext

\* Boards, rows, collab sessions and requests have the values they are meant to have:
\* a board keeps a path of its owner's, whatever content is written or registered is one
\* somebody drew, and invitations go with their session's row.
THEOREM LifecycleTypeCorrect == LifecycleSpec => []LifecycleTypes
<1>1. LifecycleInit => StorageFits /\ RowsFit /\ DocsFit /\ RequestsFit /\ HistoryFits
  <2> SUFFICES ASSUME LifecycleInit PROVE StorageFits /\ RowsFit /\ DocsFit /\ RequestsFit /\ HistoryFits
    OBVIOUS
  <2>1. StorageFits
    BY DEF LifecycleInit, StorageInit, StorageFits
  <2>2. RequestFits(IdleRequest)
    BY DEF RequestFits, Carries, IdleRequest, Kinds
  <2>3. RequestsFit
    BY <2>2 DEF LifecycleInit, RequestsFit
  <2> QED BY <2>1, <2>3 DEF LifecycleInit, RowsFit, DocsFit, HistoryFits
<1>2. DInv /\ (StorageFits /\ RowsFit /\ DocsFit /\ RequestsFit /\ HistoryFits) /\ [LifecycleNext]_lifecycleVars
        => (StorageFits /\ RowsFit /\ DocsFit /\ RequestsFit /\ HistoryFits)'
  BY StorageFitsStep, RowsFitStep, DocsFitStep, RequestsFitStep, HistoryFitsStep DEF DInv
<1>3. DInv /\ StorageFits /\ RowsFit /\ DocsFit /\ HistoryFits => LifecycleTypes
  <2> SUFFICES ASSUME DInv, StorageFits, RowsFit, DocsFit, HistoryFits PROVE LifecycleTypes
    OBVIOUS
  <2>1. StorageTypes
    BY DEF DInv, StorageInv, StorageFits, BoardFits, StorageTypes, Kept
  <2>2. /\ DOMAIN rows \subseteq born /\ born \subseteq Sessions /\ answered \subseteq born
        /\ collab \in [Sessions -> Statuses \cup {"absent"}]
        /\ moving \subseteq WebRequests \X Sessions \X Statuses /\ overtaken \subseteq Sessions
    BY DEF DInv, LInv, Shapes
  <2>3. \A s \in DOMAIN rows :
          /\ rows[s].kind \in Kinds /\ rows[s].status \in Statuses
          /\ rows[s].expiry \in {"none", "ahead", "past"} /\ rows[s].purge \in {"unset", "set", "due"}
    BY DEF RowsFit, RowFits
  <2> QED BY <2>1, <2>2, <2>3 DEF LifecycleTypes, DocsFit, HistoryFits
<1> QED BY <1>1, <1>2, <1>3, SavesHold, PTL DEF LifecycleSpec

-----------------------------------------------------------------------------
(* The editor page.                                                        *)

Canvases ==
  [content : Drawings \cup {Absent}, from : Drawings \cup {Absent}, touched : BOOLEAN,
   quiet : BOOLEAN, missed : BOOLEAN, crossed : BOOLEAN]

EditorRecords ==
  /\ remote \in [EditRepos -> Drawings] /\ active \in EditRepos
  /\ switching \in EditRepos \cup {Absent} /\ reported \in BOOLEAN
  /\ DOMAIN state = {"status", "base"} /\ state.base \in Drawings \cup {Absent}
  /\ canvas \in Canvases
  /\ drawing # Absent => DOMAIN drawing = {"content", "again"} /\ drawing.content \in Drawings
  /\ load # Absent => DOMAIN load = {"content", "again"} /\ load.content \in Drawings \cup {Absent}
  /\ save # Absent => save \in SaveCalls

\* When a canvas is mounted, and when the save under way is its own.
MountsHold ==
  /\ canvas.content = Absent => canvas = Unmounted /\ ~reported
  /\ canvas.content # Absent => canvas.from # Absent /\ listed # Absent /\ state.status # "loading"
  /\ switching # Absent \/ listed = Absent => load = Absent
  /\ save # Absent /\ save.here => switching = Absent /\ canvas.content # Absent
  /\ state.status = "saving" => save # Absent /\ save.here /\ save.at # "refreshing"

\* The base is what the canvas was drawn from.
BaseHolds ==
  /\ canvas.content # Absent /\ load # Absent => canvas.crossed
  /\ canvas.content # Absent /\ ~canvas.crossed => canvas.from = state.base
  /\ save # Absent /\ save.at = "sent" /\ ~save.crossed => save.base = save.from

\* What was drawn is being saved, or the page says that it is not saved.
EditsHold ==
  /\ save # Absent /\ save.here /\ ~canvas.missed /\ save.at # "refreshing"
       => canvas.content = save.content
  /\ save # Absent /\ ~canvas.missed /\ ~canvas.crossed /\ (save.here => save.at = "refreshing")
       => canvas.content = canvas.from
  /\ reported /\ ~canvas.crossed /\ (save = Absent \/ ~save.here)
       => state.status \in {"dirty", "stale", "error"}
  /\ save = Absent /\ ~canvas.missed /\ ~canvas.crossed /\ canvas.content # canvas.from
       => state.status \in {"dirty", "stale", "error"}

EditorInv == EditorRecords /\ MountsHold /\ BaseHolds /\ EditsHold

LEMMA EditorInitHolds ==
  ASSUME EditorInit
  PROVE  EditorInv
<1> USE EditorAssumption
<1>1. EditorRecords
  BY DEF EditorInit, EditorRecords, Canvases, Unmounted
<1>2. MountsHold /\ BaseHolds /\ EditsHold
  BY DEF EditorInit, MountsHold, BaseHolds, EditsHold, Unmounted
<1> QED BY <1>1, <1>2 DEF EditorInv

\* What the answer to a save leaves: a canvas that was mounted keeps its drawing, one
\* that mounts now shows what was saved.
SaveLeaves ==
  /\ save # Absent /\ save.at = "done" /\ save.content \in Drawings /\ save.here \in BOOLEAN
  /\ save' # Absent /\ save' \in SaveCalls /\ save'.at = "refreshing" /\ save'.here = save.here
  /\ drawing' = [content |-> save.content, again |-> drawing # Absent /\ drawing.again]
  /\ listed' = (IF listed = Absent THEN Absent ELSE save.content)
  /\ state' = [status |-> "saved", base |-> save.content]
  /\ refresh' = Refresh(TRUE) /\ UNCHANGED <<remote, active, shown, reported, switching, load>>
  /\ canvas' \in Canvases
  /\ listed = Absent => canvas' = canvas
  /\ canvas = Unmounted /\ listed # Absent =>
       /\ canvas'.content = save.content /\ canvas'.from = save.content
       /\ ~canvas'.missed /\ canvas'.crossed = (load # Absent)
  /\ canvas # Unmounted =>
       /\ canvas'.content = canvas.content /\ canvas'.from = save.content
       /\ canvas'.missed = canvas.missed /\ canvas'.crossed = (canvas.crossed \/ ~save.here)

LEMMA SaveAnswers ==
  ASSUME EditorInv, SaveAnswered
  PROVE  SaveLeaves
<1> USE EditorAssumption
<1>1. /\ canvas \in Canvases /\ save # Absent /\ save \in SaveCalls /\ save.at = "done"
      /\ canvas # Unmounted => listed # Absent
  BY DEF SaveAnswered, EditorInv, EditorRecords, MountsHold
<1>2. save' \in SaveCalls /\ save'.at = "refreshing" /\ save'.here = save.here
  BY <1>1 DEF SaveAnswered, SaveCalls
<1>3. save' # Absent
  BY <1>2
<1>4. save.content \in Drawings /\ save.here \in BOOLEAN
  BY <1>1 DEF SaveCalls
<1>5. CASE listed = Absent
  BY <1>1, <1>2, <1>3, <1>4, <1>5 DEF SaveAnswered, SaveLeaves
<1>6. CASE listed # Absent /\ canvas = Unmounted
  <2>1. PICK quiet \in BOOLEAN : canvas' = Mounted(save.content, load # Absent, quiet)
    BY <1>6 DEF SaveAnswered, Mounts
  <2>2. /\ canvas' \in Canvases /\ canvas'.content = save.content /\ canvas'.from = save.content
        /\ ~canvas'.missed /\ canvas'.crossed = (load # Absent)
    BY <1>4, <2>1 DEF Mounted, Canvases
  <2> QED BY <1>1, <1>2, <1>3, <1>4, <1>6, <2>2 DEF SaveAnswered, SaveLeaves
<1>7. CASE canvas # Unmounted
  <2>1. canvas' = [canvas EXCEPT !.from = save.content, !.crossed = @ \/ ~save.here]
    BY <1>1, <1>7 DEF SaveAnswered
  <2>2. /\ canvas' \in Canvases /\ canvas'.content = canvas.content /\ canvas'.from = save.content
        /\ canvas'.missed = canvas.missed /\ canvas'.crossed = (canvas.crossed \/ ~save.here)
    BY <1>1, <1>4, <2>1 DEF Canvases
  <2> QED BY <1>1, <1>2, <1>3, <1>4, <1>7, <2>2 DEF SaveAnswered, SaveLeaves
<1> QED BY <1>5, <1>6, <1>7

\* What the answer to an open call leaves.
LEMMA LoadAnswers ==
  ASSUME EditorInv, LoadAnswered
  PROVE  /\ load # Absent /\ load.content \in Drawings /\ load' = Absent /\ drawing' = load
         /\ state' = [status |-> "saved", base |-> load.content] /\ canvas' \in Canvases
         /\ UNCHANGED <<remote, active, shown, listed, reported, switching, refresh, save>>
         /\ canvas # Unmounted => canvas' = canvas
         /\ canvas = Unmounted =>
              /\ canvas'.content = load.content /\ canvas'.from = load.content
              /\ ~canvas'.missed /\ ~canvas'.crossed
<1> USE EditorAssumption
<1>1. canvas \in Canvases /\ load # Absent /\ load.content \in Drawings
  BY DEF LoadAnswered, EditorInv, EditorRecords
<1>2. CASE canvas = Unmounted
  <2>1. PICK quiet \in BOOLEAN : canvas' = Mounted(load.content, FALSE, quiet)
    BY <1>2 DEF LoadAnswered, Mounts
  <2>2. /\ canvas' \in Canvases /\ canvas'.content = load.content /\ canvas'.from = load.content
        /\ ~canvas'.missed /\ ~canvas'.crossed
    BY <1>1, <2>1 DEF Mounted, Canvases
  <2> QED BY <1>1, <1>2, <2>2 DEF LoadAnswered
<1>3. CASE canvas # Unmounted
  BY <1>1, <1>3 DEF LoadAnswered
<1> QED BY <1>2, <1>3

\* What a change of the drawing leaves.
DrawLeaves(c) ==
  /\ canvas.content # Absent /\ c # canvas.content /\ canvas' \in Canvases
  /\ canvas'.content = c /\ canvas'.from = canvas.from /\ canvas'.crossed = canvas.crossed
  /\ canvas'.missed <=> (save # Absent \/ (~Noticed /\ (canvas.missed \/ Clean)))
  /\ reported' \in BOOLEAN /\ (reported' <=> (reported \/ Noticed))
  /\ state' = IF reported \/ ~Noticed \/ state.status \in {"loading", "saving"} THEN state
              ELSE [state EXCEPT !.status = IF listed # Absent /\ state.base \notin {Absent, listed}
                                              THEN "stale" ELSE "dirty"]
  /\ UNCHANGED <<remote, active, shown, listed, drawing, switching, refresh, load, save>>

LEMMA Draws ==
  ASSUME EditorInv, NEW c \in Drawings, Draw(c)
  PROVE  DrawLeaves(c)
<1> DEFINE missed == save # Absent \/ (~Noticed /\ (canvas.missed \/ Clean))
<1>1. canvas \in Canvases /\ reported \in BOOLEAN
  BY DEF EditorInv, EditorRecords
<1>2. Noticed \in BOOLEAN /\ missed \in BOOLEAN
  BY <1>1 DEF Noticed, Clean, Canvases
<1>3. canvas' = [canvas EXCEPT !.content = c, !.missed = missed]
  BY DEF Draw
<1> HIDE DEF missed
<1>4. /\ canvas' \in Canvases /\ canvas'.content = c /\ canvas'.from = canvas.from
      /\ canvas'.crossed = canvas.crossed /\ canvas'.missed = missed
  BY <1>1, <1>2, <1>3 DEF Canvases
<1>5. reported' = (reported \/ Noticed)
  BY DEF Draw
<1>6. reported' \in BOOLEAN
  BY <1>1, <1>2, <1>5
<1> QED BY <1>4, <1>5, <1>6 DEF Draw, DrawLeaves, missed

\* What touching the canvas, or the end of its first half second, leaves.
TouchLeaves ==
  /\ canvas' \in Canvases /\ canvas.content # Absent
  /\ canvas'.content = canvas.content /\ canvas'.from = canvas.from
  /\ canvas'.missed = canvas.missed /\ canvas'.crossed = canvas.crossed
  /\ UNCHANGED <<remote, active, shown, listed, drawing, state, reported, switching, refresh, load, save>>

LEMMA Touches ==
  ASSUME EditorInv, Touch \/ QuietEnds
  PROVE  TouchLeaves
<1>1. canvas \in Canvases /\ (canvas.content = Absent => canvas = Unmounted)
  BY DEF EditorInv, EditorRecords, MountsHold
<1>2. CASE Touch
  <2>1. canvas' = [canvas EXCEPT !.touched = TRUE] /\ canvas.content # Absent
    BY <1>2 DEF Touch
  <2> QED BY <1>1, <1>2, <2>1 DEF Touch, TouchLeaves, Canvases
<1>3. CASE QuietEnds
  <2>1. canvas' = [canvas EXCEPT !.quiet = FALSE] /\ canvas.quiet
    BY <1>3 DEF QuietEnds
  <2>2. canvas.content # Absent
    BY <1>1, <2>1 DEF Unmounted
  <2> QED BY <1>1, <1>3, <2>1, <2>2 DEF QuietEnds, TouchLeaves, Canvases
<1> QED BY <1>2, <1>3

\* The end of a save changes nothing of a canvas but whether it has been touched.
SaveOverLeaves ==
  /\ save # Absent /\ save.at = "refreshing" /\ save' = Absent /\ canvas' \in Canvases
  /\ canvas = Unmounted => canvas' = Unmounted
  /\ canvas'.content = canvas.content /\ canvas'.from = canvas.from
  /\ canvas'.missed = canvas.missed /\ canvas'.crossed = canvas.crossed
  /\ reported' \in BOOLEAN /\ (reported' <=> (reported /\ ~save.here))
  /\ UNCHANGED <<remote, active, shown, listed, drawing, state, switching, refresh, load>>

LEMMA UntouchedKeeps ==
  ASSUME EditorInv, SaveOver
  PROVE  SaveOverLeaves
<1>1. canvas \in Canvases /\ save \in SaveCalls /\ reported \in BOOLEAN
  BY DEF SaveOver, EditorInv, EditorRecords
<1>2. canvas.touched \in BOOLEAN /\ save.here \in BOOLEAN
  BY <1>1 DEF Canvases, SaveCalls
<1>3. canvas' = [canvas EXCEPT !.touched = canvas.touched /\ ~save.here]
  BY DEF SaveOver
<1>4. /\ canvas' \in Canvases /\ canvas'.content = canvas.content /\ canvas'.from = canvas.from
      /\ canvas'.missed = canvas.missed /\ canvas'.crossed = canvas.crossed
  BY <1>1, <1>2, <1>3 DEF Canvases
<1>5. ASSUME canvas = Unmounted PROVE canvas' = Unmounted
  <2>1. canvas.touched = FALSE
    BY <1>5 DEF Unmounted
  <2>2. canvas' = canvas
    BY <1>1, <1>3, <2>1 DEF Canvases
  <2> QED BY <1>5, <2>2 DEF Unmounted
<1>6. reported' = (reported /\ ~save.here)
  BY DEF SaveOver
<1>7. reported' \in BOOLEAN
  BY <1>1, <1>2, <1>6
<1> QED BY <1>4, <1>5, <1>6, <1>7 DEF SaveOver, SaveOverLeaves

LEMMA EditorRecordsStep ==
  ASSUME EditorInv, EditorNext
  PROVE  EditorRecords'
<1> USE EditorAssumption DEF EditorInv, EditorRecords, MountsHold, Canvases, Unmounted, SaveCalls
<1>1. CASE RefreshServed
  BY <1>1 DEF RefreshServed, page
<1>2. CASE RefreshAnswered
  <2>1. CASE OpensBoard(FALSE)
    BY <1>2, <2>1 DEF RefreshAnswered, OpensBoard, Unmounts
  <2>2. CASE UNCHANGED <<drawing, state, canvas, reported, load, save>>
    BY <1>2, <2>2 DEF RefreshAnswered
  <2> QED BY <1>2, <2>1, <2>2 DEF RefreshAnswered
<1>3. CASE LoadServed
  BY <1>3 DEF LoadServed, page
<1>4. CASE LoadAnswered
  BY <1>4, LoadAnswers
<1>5. CASE LoadFailed
  BY <1>5 DEF LoadFailed, Unmounts
<1>6. CASE Reload
  BY <1>6 DEF Reload, OpensBoard, Unmounts
<1>7. CASE Save
  BY <1>7 DEF Save, Status
<1>8. CASE SaveServed
  BY <1>8 DEF SaveServed, page
<1>9. CASE SaveAnswered
  <2>1. SaveLeaves
    BY <1>9, SaveAnswers
  <2> QED BY <2>1 DEF SaveLeaves
<1>10. CASE SaveFailed
  BY <1>10 DEF SaveFailed
<1>11. CASE SaveOver
  <2>1. SaveOverLeaves
    BY <1>11, UntouchedKeeps
  <2> QED BY <2>1 DEF SaveOverLeaves
<1>12. CASE SwitchServed
  BY <1>12 DEF SwitchServed, Unmounts
<1>13. CASE SwitchFailed
  BY <1>13 DEF SwitchFailed, OpensBoard, Unmounts
<1>14. ASSUME NEW c \in Drawings, Draw(c) PROVE EditorRecords'
  <2>1. DrawLeaves(c)
    BY <1>14, Draws
  <2> QED BY <1>14, <2>1 DEF DrawLeaves
<1>15. ASSUME NEW r \in EditRepos, SwitchStart(r) PROVE EditorRecords'
  BY <1>15 DEF SwitchStart, Unmounts
<1>16. ASSUME NEW r \in EditRepos, SwitchedElsewhere(r) PROVE EditorRecords'
  BY <1>16 DEF SwitchedElsewhere, page
<1>17. ASSUME NEW r \in EditRepos, NEW c \in Drawings, WrittenElsewhere(r, c) PROVE EditorRecords'
  BY <1>17 DEF WrittenElsewhere
<1>18. CASE Touch
  <2>1. TouchLeaves
    BY <1>18, Touches
  <2> QED BY <2>1 DEF TouchLeaves
<1>19. CASE QuietEnds
  <2>1. TouchLeaves
    BY <1>19, Touches
  <2> QED BY <2>1 DEF TouchLeaves
<1> QED
  BY <1>1, <1>2, <1>3, <1>4, <1>5, <1>6, <1>7, <1>8, <1>9, <1>10, <1>11, <1>12, <1>13, <1>14, <1>15,
     <1>16, <1>17, <1>18, <1>19 DEF EditorNext

LEMMA MountsStep ==
  ASSUME EditorInv, EditorNext
  PROVE  MountsHold'
<1> USE EditorAssumption DEF EditorInv, EditorRecords, MountsHold, Canvases, Unmounted, SaveCalls
<1>1. CASE RefreshServed
  BY <1>1 DEF RefreshServed, page
<1>2. CASE RefreshAnswered
  BY <1>2 DEF RefreshAnswered, OpensBoard, Unmounts
<1>3. CASE LoadServed
  BY <1>3 DEF LoadServed, page
<1>4. CASE LoadAnswered
  BY <1>4, LoadAnswers
<1>5. CASE LoadFailed
  BY <1>5 DEF LoadFailed, Unmounts
<1>6. CASE Reload
  BY <1>6 DEF Reload, OpensBoard, Unmounts
<1>7. CASE Save
  <2>1. save' # Absent
    <3>1. canvas.content \in Drawings /\ canvas.from \in Drawings /\ canvas.crossed \in BOOLEAN
      BY <1>7 DEF Save
    <3>2. (IF state.base # Absent THEN state.base ELSE drawing.content) \in Drawings
      BY <1>7 DEF Save
    <3>3. save' \in SaveCalls
      BY <1>7, <3>1, <3>2 DEF Save
    <3> QED BY <3>3
  <2>2. save'.here /\ save'.at = "sent" /\ save'.content = canvas.content
    BY <1>7 DEF Save
  <2> QED BY <1>7, <2>1, <2>2 DEF Save
<1>8. CASE SaveServed
  BY <1>8 DEF SaveServed, page
<1>9. CASE SaveAnswered
  <2>1. SaveLeaves
    BY <1>9, SaveAnswers
  <2> QED BY <2>1 DEF SaveLeaves
<1>10. CASE SaveFailed
  BY <1>10 DEF SaveFailed
<1>11. CASE SaveOver
  <2>1. SaveOverLeaves
    BY <1>11, UntouchedKeeps
  <2> QED BY <2>1 DEF SaveOverLeaves
<1>12. CASE SwitchServed
  BY <1>12 DEF SwitchServed, Unmounts
<1>13. CASE SwitchFailed
  BY <1>13 DEF SwitchFailed, OpensBoard, Unmounts
<1>14. ASSUME NEW c \in Drawings, Draw(c) PROVE MountsHold'
  <2>1. DrawLeaves(c)
    BY <1>14, Draws
  <2> QED BY <1>14, <2>1 DEF DrawLeaves
<1>15. ASSUME NEW r \in EditRepos, SwitchStart(r) PROVE MountsHold'
  BY <1>15 DEF SwitchStart, Unmounts
<1>16. ASSUME NEW r \in EditRepos, SwitchedElsewhere(r) PROVE MountsHold'
  BY <1>16 DEF SwitchedElsewhere, page
<1>17. ASSUME NEW r \in EditRepos, NEW c \in Drawings, WrittenElsewhere(r, c) PROVE MountsHold'
  BY <1>17 DEF WrittenElsewhere
<1>18. CASE Touch
  <2>1. TouchLeaves
    BY <1>18, Touches
  <2> QED BY <2>1 DEF TouchLeaves
<1>19. CASE QuietEnds
  <2>1. TouchLeaves
    BY <1>19, Touches
  <2> QED BY <2>1 DEF TouchLeaves
<1> QED
  BY <1>1, <1>2, <1>3, <1>4, <1>5, <1>6, <1>7, <1>8, <1>9, <1>10, <1>11, <1>12, <1>13, <1>14, <1>15,
     <1>16, <1>17, <1>18, <1>19 DEF EditorNext

LEMMA BaseStep ==
  ASSUME EditorInv, EditorNext
  PROVE  BaseHolds'
<1> USE EditorAssumption DEF EditorInv, EditorRecords, MountsHold, BaseHolds, Canvases, Unmounted, SaveCalls
<1>1. CASE RefreshServed
  BY <1>1 DEF RefreshServed, page
<1>2. CASE RefreshAnswered
  BY <1>2 DEF RefreshAnswered, OpensBoard, Unmounts
<1>3. CASE LoadServed
  BY <1>3 DEF LoadServed, page
<1>4. CASE LoadAnswered
  BY <1>4, LoadAnswers
<1>5. CASE LoadFailed
  BY <1>5 DEF LoadFailed, Unmounts
<1>6. CASE Reload
  BY <1>6 DEF Reload, OpensBoard, Unmounts
<1>7. CASE Save
  BY <1>7 DEF Save, Status
<1>8. CASE SaveServed
  BY <1>8 DEF SaveServed, page
<1>9. CASE SaveAnswered
  <2>1. SaveLeaves
    BY <1>9, SaveAnswers
  <2> QED BY <2>1 DEF SaveLeaves
<1>10. CASE SaveFailed
  BY <1>10 DEF SaveFailed
<1>11. CASE SaveOver
  <2>1. SaveOverLeaves
    BY <1>11, UntouchedKeeps
  <2> QED BY <2>1 DEF SaveOverLeaves
<1>12. CASE SwitchServed
  BY <1>12 DEF SwitchServed, Unmounts
<1>13. CASE SwitchFailed
  BY <1>13 DEF SwitchFailed, OpensBoard, Unmounts
<1>14. ASSUME NEW c \in Drawings, Draw(c) PROVE BaseHolds'
  <2>1. DrawLeaves(c)
    BY <1>14, Draws
  <2> QED BY <1>14, <2>1 DEF DrawLeaves
<1>15. ASSUME NEW r \in EditRepos, SwitchStart(r) PROVE BaseHolds'
  BY <1>15 DEF SwitchStart, Unmounts
<1>16. ASSUME NEW r \in EditRepos, SwitchedElsewhere(r) PROVE BaseHolds'
  BY <1>16 DEF SwitchedElsewhere, page
<1>17. ASSUME NEW r \in EditRepos, NEW c \in Drawings, WrittenElsewhere(r, c) PROVE BaseHolds'
  BY <1>17 DEF WrittenElsewhere
<1>18. CASE Touch
  <2>1. TouchLeaves
    BY <1>18, Touches
  <2> QED BY <2>1 DEF TouchLeaves
<1>19. CASE QuietEnds
  <2>1. TouchLeaves
    BY <1>19, Touches
  <2> QED BY <2>1 DEF TouchLeaves
<1> QED
  BY <1>1, <1>2, <1>3, <1>4, <1>5, <1>6, <1>7, <1>8, <1>9, <1>10, <1>11, <1>12, <1>13, <1>14, <1>15,
     <1>16, <1>17, <1>18, <1>19 DEF EditorNext

LEMMA EditsStep ==
  ASSUME EditorInv, EditorNext
  PROVE  EditsHold'
<1> USE EditorAssumption DEF EditorInv, EditorRecords, MountsHold, BaseHolds, EditsHold, Canvases, Unmounted, SaveCalls
<1>1. CASE RefreshServed
  BY <1>1 DEF RefreshServed, page
<1>2. CASE RefreshAnswered
  BY <1>2 DEF RefreshAnswered, OpensBoard, Unmounts
<1>3. CASE LoadServed
  BY <1>3 DEF LoadServed, page
<1>4. CASE LoadAnswered
  BY <1>4, LoadAnswers
<1>5. CASE LoadFailed
  BY <1>5 DEF LoadFailed, Unmounts
<1>6. CASE Reload
  BY <1>6 DEF Reload, OpensBoard, Unmounts
<1>7. CASE Save
  <2>1. save' # Absent
    <3>1. canvas.content \in Drawings /\ canvas.from \in Drawings /\ canvas.crossed \in BOOLEAN
      BY <1>7 DEF Save
    <3>2. (IF state.base # Absent THEN state.base ELSE drawing.content) \in Drawings
      BY <1>7 DEF Save
    <3>3. save' \in SaveCalls
      BY <1>7, <3>1, <3>2 DEF Save
    <3> QED BY <3>3
  <2>2. save'.here /\ save'.at = "sent" /\ save'.content = canvas.content
    BY <1>7 DEF Save
  <2> QED BY <1>7, <2>1, <2>2 DEF Save
<1>8. CASE SaveServed
  BY <1>8 DEF SaveServed, page
<1>9. CASE SaveAnswered
  <2>1. SaveLeaves
    BY <1>9, SaveAnswers
  <2> QED BY <2>1 DEF SaveLeaves
<1>10. CASE SaveFailed
  BY <1>10 DEF SaveFailed
<1>11. CASE SaveOver
  <2>1. SaveOverLeaves
    BY <1>11, UntouchedKeeps
  <2> QED BY <2>1 DEF SaveOverLeaves
<1>12. CASE SwitchServed
  BY <1>12 DEF SwitchServed, Unmounts
<1>13. CASE SwitchFailed
  BY <1>13 DEF SwitchFailed, OpensBoard, Unmounts
<1>14. ASSUME NEW c \in Drawings, Draw(c) PROVE EditsHold'
  <2>1. DrawLeaves(c)
    BY <1>14, Draws
  <2> QED BY <1>14, <2>1 DEF DrawLeaves, Noticed, Clean
<1>15. ASSUME NEW r \in EditRepos, SwitchStart(r) PROVE EditsHold'
  BY <1>15 DEF SwitchStart, Unmounts
<1>16. ASSUME NEW r \in EditRepos, SwitchedElsewhere(r) PROVE EditsHold'
  BY <1>16 DEF SwitchedElsewhere, page
<1>17. ASSUME NEW r \in EditRepos, NEW c \in Drawings, WrittenElsewhere(r, c) PROVE EditsHold'
  BY <1>17 DEF WrittenElsewhere
<1>18. CASE Touch
  <2>1. TouchLeaves
    BY <1>18, Touches
  <2> QED BY <2>1 DEF TouchLeaves
<1>19. CASE QuietEnds
  <2>1. TouchLeaves
    BY <1>19, Touches
  <2> QED BY <2>1 DEF TouchLeaves
<1> QED
  BY <1>1, <1>2, <1>3, <1>4, <1>5, <1>6, <1>7, <1>8, <1>9, <1>10, <1>11, <1>12, <1>13, <1>14, <1>15,
     <1>16, <1>17, <1>18, <1>19 DEF EditorNext

LEMMA EditorStep ==
  ASSUME EditorInv, [EditorNext]_editorVars
  PROVE  EditorInv'
<1>1. CASE EditorNext
  BY <1>1, EditorRecordsStep, MountsStep, BaseStep, EditsStep DEF EditorInv
<1>2. CASE UNCHANGED editorVars
  <2>1. UNCHANGED <<remote, active, switching, reported, state, canvas, drawing, load, save, listed>>
    BY <1>2 DEF editorVars
  <2>2. EditorRecords'
    BY <2>1 DEF EditorInv, EditorRecords
  <2>3. MountsHold' /\ BaseHolds' /\ EditsHold'
    BY <2>1 DEF EditorInv, MountsHold, BaseHolds, EditsHold
  <2> QED BY <2>2, <2>3 DEF EditorInv
<1> QED BY <1>1, <1>2

\* Only a save that reaches the server while it is on its way writes a board, and
\* it has the base that its canvas was drawn from.
LEMMA SaveReplacesItsBase ==
  ASSUME EditorInv, [EditorNext]_editorVars
  PROVE  save # Absent /\ save.at = "sent" /\ save' # save /\ remote' # remote /\ ~save.crossed
           => remote[active] = save.from
<1> SUFFICES ASSUME save # Absent, save.at = "sent", save' # save, remote' # remote, ~save.crossed
             PROVE  remote[active] = save.from
  OBVIOUS
<1>1. SaveServed
  BY DEF EditorNext, editorVars, RefreshServed, RefreshAnswered, LoadServed, LoadAnswered, LoadFailed,
         Reload, Save, SaveAnswered, SaveFailed, SaveOver, SwitchServed, SwitchFailed, Touch, QuietEnds,
         Draw, SwitchStart, SwitchedElsewhere, WrittenElsewhere, page
<1>2. remote[active] = save.base
  BY <1>1 DEF SaveServed
<1>3. save.base = save.from
  BY DEF EditorInv, BaseHolds
<1> QED BY <1>2, <1>3

\* Every save of the editor page overwrites what its canvas was drawn from, unless
\* a save's answer has been taken for that of another canvas: whatever other tabs and
\* other people write, and whichever repository is active when the save arrives.
THEOREM EditorOverwritesOnlyWhatItShowed == EditorSpec => EditorOverwritesWhatItShowed
<1>1. EditorInit => EditorInv
  BY EditorInitHolds
<1>2. EditorInv /\ [EditorNext]_editorVars => EditorInv'
  BY EditorStep
<1>3. EditorInv /\ [EditorNext]_editorVars
        => [save # Absent /\ save.at = "sent" /\ save' # save /\ remote' # remote /\ ~save.crossed
              => remote[active] = save.from]_editorVars
  BY SaveReplacesItsBase
<1> QED BY <1>1, <1>2, <1>3, PTL DEF EditorSpec, EditorOverwritesWhatItShowed

\* A canvas that differs from what it was drawn from is shown as not saved as soon
\* as no save is under way, unless all that differs was drawn during the save or
\* while the editor took no notice: whatever was touched, reported, saved, refused,
\* opened again or mounted anew before.
THEOREM UnsavedEditsAreShown == EditorSpec => []UnsavedIsShown
<1>1. EditorInit => EditorInv
  BY EditorInitHolds
<1>2. EditorInv /\ [EditorNext]_editorVars => EditorInv'
  BY EditorStep
<1>3. EditorInv => UnsavedIsShown
  BY DEF EditorInv, EditsHold, UnsavedIsShown, Status
<1> QED BY <1>1, <1>2, <1>3, PTL DEF EditorSpec

-----------------------------------------------------------------------------
(* The types of the editor page.                                           *)

PageHolds ==
  /\ EditorTypes
  /\ drawing # Absent => drawing \in [content : Drawings, again : BOOLEAN]
  /\ load # Absent => load \in OpenDrawings
  /\ refresh = Absent \/ refresh \in [repo : EditRepos \cup {Absent}, sha : Drawings \cup {Absent}, own : BOOLEAN]

LEMMA PageStep ==
  ASSUME EditorInv, PageHolds, EditorNext
  PROVE  PageHolds'
<1> USE EditorAssumption DEF EditorInv, EditorRecords, MountsHold, PageHolds, EditorTypes, Canvases, Unmounted, SaveCalls,
       OpenDrawings
<1>1. CASE RefreshServed
  BY <1>1 DEF RefreshServed, page
<1>2. CASE RefreshAnswered
  <2>1. shown' \in EditRepos /\ listed' \in Drawings /\ refresh' = Absent
    BY <1>2 DEF RefreshAnswered
  <2>2. CASE OpensBoard(FALSE)
    BY <1>2, <2>1, <2>2 DEF RefreshAnswered, OpensBoard, Unmounts
  <2>3. CASE UNCHANGED <<drawing, state, canvas, reported, load, save>>
    BY <1>2, <2>1, <2>3 DEF RefreshAnswered
  <2> QED BY <1>2, <2>2, <2>3 DEF RefreshAnswered
<1>3. CASE LoadServed
  BY <1>3 DEF LoadServed, page
<1>4. CASE LoadAnswered
  BY <1>4, LoadAnswers
<1>5. CASE LoadFailed
  BY <1>5 DEF LoadFailed, Unmounts
<1>6. CASE Reload
  BY <1>6 DEF Reload, OpensBoard, Unmounts
<1>7. CASE Save
  <2>1. canvas.content \in Drawings /\ canvas.from \in Drawings /\ canvas.crossed \in BOOLEAN
        /\ (IF state.base # Absent THEN state.base ELSE drawing.content) \in Drawings
    BY <1>7 DEF Save
  <2>2. save' \in SaveCalls
    BY <1>7, <2>1 DEF Save
  <2>3. save' # Absent
    BY <2>2
  <2> QED BY <1>7, <2>3 DEF Save
<1>8. CASE SaveServed
  BY <1>8 DEF SaveServed, page
<1>9. CASE SaveAnswered
  <2>1. SaveLeaves
    BY <1>9, SaveAnswers
  <2> QED BY <2>1 DEF SaveLeaves, Refresh
<1>10. CASE SaveFailed
  BY <1>10 DEF SaveFailed
<1>11. CASE SaveOver
  <2>1. SaveOverLeaves
    BY <1>11, UntouchedKeeps
  <2> QED BY <2>1 DEF SaveOverLeaves
<1>12. CASE SwitchServed
  BY <1>12 DEF SwitchServed, Unmounts, Refresh
<1>13. CASE SwitchFailed
  BY <1>13 DEF SwitchFailed, OpensBoard, Unmounts
<1>14. ASSUME NEW c \in Drawings, Draw(c) PROVE PageHolds'
  BY <1>14 DEF Draw, Noticed, Clean
<1>15. ASSUME NEW r \in EditRepos, SwitchStart(r) PROVE PageHolds'
  BY <1>15 DEF SwitchStart, Unmounts
<1>16. ASSUME NEW r \in EditRepos, SwitchedElsewhere(r) PROVE PageHolds'
  BY <1>16 DEF SwitchedElsewhere, page
<1>17. ASSUME NEW r \in EditRepos, NEW c \in Drawings, WrittenElsewhere(r, c) PROVE PageHolds'
  <2>1. drawing # Absent => drawing' \in [content : Drawings, again : BOOLEAN] /\ drawing' # Absent
    <3> SUFFICES ASSUME drawing # Absent
                 PROVE  drawing' \in [content : Drawings, again : BOOLEAN] /\ drawing' # Absent
      OBVIOUS
    <3>1. drawing' = [drawing EXCEPT !.again = FALSE]
      BY <1>17 DEF WrittenElsewhere
    <3>2. drawing' \in [content : Drawings, again : BOOLEAN]
      BY <3>1
    <3> QED BY <3>2
  <2>2. load' # Absent => load' \in OpenDrawings
    BY <1>17 DEF WrittenElsewhere
  <2>3. drawing = Absent => drawing' = Absent
    BY <1>17 DEF WrittenElsewhere
  <2>4. remote' \in [EditRepos -> Drawings]
    BY <1>17 DEF WrittenElsewhere
  <2> QED BY <1>17, <2>1, <2>2, <2>3, <2>4 DEF WrittenElsewhere
<1>18. CASE Touch
  BY <1>18 DEF Touch
<1>19. CASE QuietEnds
  BY <1>19 DEF QuietEnds
<1> QED
  BY <1>1, <1>2, <1>3, <1>4, <1>5, <1>6, <1>7, <1>8, <1>9, <1>10, <1>11, <1>12, <1>13, <1>14, <1>15,
     <1>16, <1>17, <1>18, <1>19 DEF EditorNext

\* The variables of the editor page keep their types, a canvas is drawn from
\* something, and only while a drawing is open, whatever answers cross.
THEOREM EditorTypeCorrect == EditorSpec => []EditorTypes
<1>1. EditorInit => EditorInv
  BY EditorInitHolds
<1>2. EditorInv /\ [EditorNext]_editorVars => EditorInv'
  BY EditorStep
<1>3. EditorInit => PageHolds
  BY EditorAssumption DEF EditorInit, PageHolds, EditorTypes, Unmounted, Refresh
<1>4. EditorInv /\ PageHolds /\ [EditorNext]_editorVars => PageHolds'
  <2>1. PageHolds /\ UNCHANGED editorVars => PageHolds'
    BY DEF PageHolds, EditorTypes, editorVars, Unmounted
  <2> QED BY <2>1, PageStep
<1>5. PageHolds => EditorTypes
  BY DEF PageHolds
<1> QED BY <1>1, <1>2, <1>3, <1>4, <1>5, PTL DEF EditorSpec
=============================================================================
