----------------------------- MODULE LiveCanvas -----------------------------
(***************************************************************************)
(* The drawing of a live session: the pages of its participants, each with *)
(* an Excalidraw canvas and a Yjs document of its own, the document the    *)
(* server holds, the checkpoints and the owner's save.                     *)
(*                                                                         *)
(* A canvas, a checkpoint and a saved board are functions from elements to *)
(* stamps, an element's version and author.  A document is a set of        *)
(* writes; Yjs, which is external, resolves those of one element by path.  *)
(* How an update reaches the server is ClientSync's subject, how the       *)
(* server keeps it that of YjsDocuments: here a flight is one step.        *)
(* Presence, removal and rights are left out: every page may edit.         *)
(***************************************************************************)
EXTENDS Naturals, Sequences, FiniteSets

CONSTANTS
  Pages, Host,       \* browser pages in the session, and the owner's
  Elements, Board,   \* elements, and those the session's board began with
  MaxClient,         \* bound: client ids that Yjs gives, one for each page load
  MaxDraws,          \* bound: changes drawn
  MaxCheck,          \* bound: revision of the checkpoint
  None

ASSUME LiveAssumption ==
  /\ Host \in Pages /\ Board \subseteq Elements /\ Board # {} /\ IsFiniteSet(Board)
  /\ MaxClient \in Nat /\ MaxDraws \in Nat /\ MaxCheck \in Nat \ {0}

VARIABLES
  at,        \* "closed", "open" with the board loaded, or "joined" to the room
  client,    \* client id of the page's document
  local,     \* the page's document
  scenes,    \* the elements on its canvas
  unsent,    \* its writes that are not at the server yet
  inbox,     \* writes received and not rendered yet
  quiet,     \* a remote update was applied a moment ago: changes are not taken
  hand,      \* "up"; "down", a gesture that counts; "late", one that began before
             \* the last remote update, which resets hasUserInteractedRef
  held,      \* history: elements drawn that were not taken into the document
  due,       \* canvas the checkpoint timer holds, None without a timer
  push,      \* checkpoint on its way to the server
  heard,     \* snapshotRevisionRef
  live,      \* the server's document
  check,     \* the checkpoint and its revision
  saving, stored,   \* the owner's save, and the saved board
  past       \* history: elements drawn, how many changes, client ids given

pageVars == <<at, client, local, scenes, unsent, inbox, quiet, hand, held>>
pushVars == <<due, push, heard, check>>
saveVars == <<saving, stored>>
liveVars == <<pageVars, pushVars, live, saveVars, past>>

Stamps  == (1 .. MaxDraws + 1) \X (0 .. MaxClient)
Scenes  == UNION {[E -> Stamps] : E \in {S \in SUBSET Elements : Board \subseteq S}}
Opening == [e \in Board |-> <<1, 0>>]
NoPush  == [board |-> None, base |-> 0, tries |-> 0]

LiveTypes ==
  /\ at \in [Pages -> {"closed", "open", "joined"}] /\ client \in [Pages -> 0 .. MaxClient]
  /\ \A p \in Pages : scenes[p] \in Scenes /\ due[p] \in Scenes \cup {None}
                      /\ push[p].board \in Scenes \cup {None} /\ heard[p] <= check.rev
  /\ check.rev \in 1 .. MaxCheck /\ check.board \in Scenes /\ stored \in Scenes
  /\ quiet \in [Pages -> BOOLEAN] /\ hand \in [Pages -> {"up", "down", "late"}]
  /\ saving \in BOOLEAN

LiveInit ==
  /\ at = [p \in Pages |-> "closed"] /\ client = [p \in Pages |-> 0]
  /\ local = [p \in Pages |-> {}] /\ scenes = [p \in Pages |-> Opening]
  /\ unsent = [p \in Pages |-> {}] /\ inbox = [p \in Pages |-> {}]
  /\ quiet = [p \in Pages |-> FALSE] /\ hand = [p \in Pages |-> "up"]
  /\ held = [p \in Pages |-> {}]
  /\ due = [p \in Pages |-> None] /\ push = [p \in Pages |-> NoPush]
  /\ heard = [p \in Pages |-> 0]
  /\ live = {} /\ check = [rev |-> 1, board |-> Opening]
  /\ saving = FALSE /\ stored = Opening
  /\ past = [drawn |-> {}, changes |-> 0, ids |-> {}]

-----------------------------------------------------------------------------
(* The document: a Yjs map.  A write goes behind the one it replaces, which *)
(* gives it a path of client ids; of concurrent writes the greater id wins. *)

Behind(p, q) ==
  \/ Len(p) > Len(q) /\ SubSeq(p, 1, Len(q)) = q
  \/ \E i \in 1 .. Len(p) : /\ i <= Len(q) /\ p[i] > q[i]
                            /\ SubSeq(p, 1, i - 1) = SubSeq(q, 1, i - 1)

WritesTo(doc, e) == {w \in doc : w.el = e}
Winner(doc, e) ==
  CHOOSE w \in WritesTo(doc, e) : \A o \in WritesTo(doc, e) \ {w} : Behind(w.path, o.path)
MapOf(doc) == [e \in {w.el : w \in doc} |-> Winner(doc, e).at]

\* shouldWriteElement: the scene's element is newer than the document's.
Newer(doc, e, stamp) ==
  WritesTo(doc, e) = {} \/ LET s == Winner(doc, e).at IN
                       stamp[1] > s[1] \/ (stamp[1] = s[1] /\ stamp[2] > s[2])

WriteOf(doc, e, stamp, id) ==
  [el |-> e, at |-> stamp,
   path |-> Append(IF WritesTo(doc, e) = {} THEN <<>> ELSE Winner(doc, e).path, id)]

\* Mutant: only the element that changed is written.
WrittenAlone(doc, scene, id, e) == {WriteOf(doc, e, scene[e], id)}

\* applyLocalScene: every element of the scene that is newer than the document's,
\* so the first change brings the whole board into the document.
Written(doc, scene, id, e) ==
  {WriteOf(doc, f, scene[f], id) : f \in {g \in DOMAIN scene : Newer(doc, g, scene[g])}}

-----------------------------------------------------------------------------
(* Opening, joining, leaving.                                              *)

\* loadSession: the canvas starts with the checkpoint, the document empty.
OpenPage(p, id) ==
  /\ at[p] = "closed" /\ id \notin past.ids
  /\ at' = [at EXCEPT ![p] = "open"] /\ client' = [client EXCEPT ![p] = id]
  /\ scenes' = [scenes EXCEPT ![p] = check.board] /\ heard' = [heard EXCEPT ![p] = check.rev]
  /\ past' = [past EXCEPT !.ids = @ \cup {id}]
  /\ UNCHANGED <<local, unsent, inbox, quiet, hand, held, due, push, live, check, saveVars>>

\* The join is answered with the document's state and the checkpoint.
JoinPage(p) ==
  /\ at[p] = "open"
  /\ at' = [at EXCEPT ![p] = "joined"]
  /\ inbox' = [inbox EXCEPT ![p] = @ \cup live] /\ heard' = [heard EXCEPT ![p] = check.rev]
  /\ UNCHANGED <<client, local, scenes, unsent, quiet, hand, held, due, push, live, check,
                 saveVars, past>>

\* The connection is lost; page and document stay, and the page joins again.
LosePage(p) ==
  /\ at[p] = "joined"
  /\ at' = [at EXCEPT ![p] = "open"]
  /\ UNCHANGED <<client, local, scenes, unsent, inbox, quiet, hand, held, pushVars, live,
                 saveVars, past>>

\* The page is closed: what it has not sent is gone, and history forgets it.
ClosePage(p) ==
  /\ at[p] # "closed" /\ ~(saving /\ p = Host)
  /\ at' = [at EXCEPT ![p] = "closed"] /\ client' = [client EXCEPT ![p] = 0]
  /\ local' = [local EXCEPT ![p] = {}] /\ scenes' = [scenes EXCEPT ![p] = Opening]
  /\ unsent' = [unsent EXCEPT ![p] = {}] /\ inbox' = [inbox EXCEPT ![p] = {}]
  /\ quiet' = [quiet EXCEPT ![p] = FALSE] /\ hand' = [hand EXCEPT ![p] = "up"]
  /\ held' = [held EXCEPT ![p] = {}]
  /\ due' = [due EXCEPT ![p] = None] /\ push' = [push EXCEPT ![p] = NoPush]
  /\ heard' = [heard EXCEPT ![p] = 0]
  /\ past' = [past EXCEPT !.drawn = {}]
  /\ UNCHANGED <<live, check, saveVars>>

-----------------------------------------------------------------------------
(* Drawing.                                                                *)

\* A gesture on the canvas, with pointer or keys, begins or ends.
Press(p) ==
  /\ at[p] # "closed" /\ hand[p] = "up"
  /\ hand' = [hand EXCEPT ![p] = "down"]
  /\ UNCHANGED <<at, client, local, scenes, unsent, inbox, quiet, held, pushVars, live, saveVars,
                 past>>
Lift(p) ==
  /\ hand[p] # "up"
  /\ hand' = [hand EXCEPT ![p] = "up"]
  /\ UNCHANGED <<at, client, local, scenes, unsent, inbox, quiet, held, pushVars, live, saveVars,
                 past>>

\* The canvas changes.  The change is taken unless a remote update has just been
\* applied, or was applied during the gesture.  Then the document takes
\* the scene, and the checkpoint timer starts anew with it.
DrawOn(p, e) ==
  /\ hand[p] # "up" /\ past.changes < MaxDraws
  /\ LET stamp == <<IF e \in DOMAIN scenes[p] THEN scenes[p][e][1] + 1 ELSE 1, client[p]>>
         scene == [f \in DOMAIN scenes[p] \cup {e} |-> IF f = e THEN stamp ELSE scenes[p][f]]
         new == Written(local[p], scene, client[p], e)
     IN  /\ scenes' = [scenes EXCEPT ![p] = scene]
         /\ IF quiet[p] \/ hand[p] = "late"
              THEN /\ held' = [held EXCEPT ![p] = @ \cup {e}]
                   /\ UNCHANGED <<local, unsent, due>>
              ELSE /\ local' = [local EXCEPT ![p] = @ \cup new]
                   /\ unsent' = [unsent EXCEPT ![p] = @ \cup new]
                   /\ held' = [held EXCEPT ![p] = {}] /\ due' = [due EXCEPT ![p] = scene]
  /\ past' = [past EXCEPT !.drawn = @ \cup {e}, !.changes = @ + 1]
  /\ UNCHANGED <<at, client, inbox, quiet, hand, push, heard, live, check, saveVars>>

\* The server merges what the page sends, passes it on to the others and answers
\* with its whole state.
Send(p) ==
  /\ at[p] = "joined" /\ unsent[p] # {}
  /\ live' = live \cup unsent[p] /\ unsent' = [unsent EXCEPT ![p] = {}]
  /\ inbox' = [q \in Pages |-> IF q = p THEN inbox[q] \cup live'
                               ELSE IF at[q] = "joined" THEN inbox[q] \cup unsent[p] ELSE inbox[q]]
  /\ UNCHANGED <<at, client, local, scenes, quiet, hand, held, pushVars, saveVars, past>>

\* Mutant: a remote update does not disturb a canvas that is being drawn on.
ApplyUnlessDrawing(p) ==
  /\ inbox[p] # {}
  /\ local' = [local EXCEPT ![p] = @ \cup inbox[p]] /\ inbox' = [inbox EXCEPT ![p] = {}]
  /\ IF inbox[p] \subseteq local[p] \/ hand[p] # "up"
       THEN UNCHANGED <<scenes, quiet, hand, held>>
       ELSE /\ scenes' = [scenes EXCEPT ![p] = MapOf(local'[p])]
            /\ quiet' = [quiet EXCEPT ![p] = TRUE]
            /\ hand' = [hand EXCEPT ![p] = IF @ = "down" THEN "late" ELSE @]
            /\ held' = [held EXCEPT ![p] = {}]
  /\ UNCHANGED <<at, client, unsent, pushVars, live, saveVars, past>>

\* React renders what was received: the document merges it and, if that changed
\* its elements, replaces the whole scene of the canvas.
Apply(p) ==
  /\ inbox[p] # {}
  /\ local' = [local EXCEPT ![p] = @ \cup inbox[p]] /\ inbox' = [inbox EXCEPT ![p] = {}]
  /\ IF inbox[p] \subseteq local[p]
       THEN UNCHANGED <<scenes, quiet, hand, held>>
       ELSE /\ scenes' = [scenes EXCEPT ![p] = MapOf(local'[p])]
            /\ quiet' = [quiet EXCEPT ![p] = TRUE]
            /\ hand' = [hand EXCEPT ![p] = IF @ = "down" THEN "late" ELSE @]
            /\ held' = [held EXCEPT ![p] = {}]
  /\ UNCHANGED <<at, client, unsent, pushVars, live, saveVars, past>>

\* The quiet time after the last remote update is over.
Calm(p) ==
  /\ quiet[p]
  /\ quiet' = [quiet EXCEPT ![p] = FALSE]
  /\ UNCHANGED <<at, client, local, scenes, unsent, inbox, hand, held, pushVars, live, saveVars,
                 past>>

-----------------------------------------------------------------------------
(* Checkpoints and the owner's save.                                       *)

\* The checkpoint timer fires.  The canvas is the one of the last change, the
\* base revision the newest one known now.  (Bound: one checkpoint at a time.)
PushStart(p) ==
  /\ due[p] # None /\ push[p] = NoPush
  /\ push' = [push EXCEPT ![p] = [board |-> due[p], base |-> heard[p], tries |-> 1]]
  /\ due' = [due EXCEPT ![p] = None]
  /\ UNCHANGED <<pageVars, heard, check, live, saveVars, past>>

\* upsertSnapshot accepts a checkpoint of the current revision; through the room
\* the others learn of it, with the document's state.
PushServed(p) ==
  /\ push[p] # NoPush /\ push[p].base = check.rev /\ check.rev < MaxCheck
  /\ check' = [rev |-> check.rev + 1, board |-> push[p].board]
  /\ push' = [push EXCEPT ![p] = NoPush] /\ heard' = [heard EXCEPT ![p] = check.rev + 1]
  /\ inbox' = [q \in Pages |-> IF q # p /\ at[p] = "joined" /\ at[q] = "joined"
                               THEN inbox[q] \cup live ELSE inbox[q]]
  /\ UNCHANGED <<at, client, local, scenes, unsent, quiet, hand, held, due, live, saveVars, past>>

\* A conflict: the page in the room takes the newer revision and tries once more
\* with the same canvas; otherwise the checkpoint is dropped.
PushConflict(p) ==
  /\ push[p] # NoPush /\ push[p].base # check.rev
  /\ IF at[p] = "joined"
       THEN /\ heard' = [heard EXCEPT ![p] = check.rev]
            /\ push' = [push EXCEPT ![p] = IF push[p].tries = 2 THEN NoPush
                                           ELSE [@ EXCEPT !.base = check.rev, !.tries = 2]]
       ELSE UNCHANGED heard /\ push' = [push EXCEPT ![p] = NoPush]
  /\ UNCHANGED <<pageVars, due, check, live, saveVars, past>>

\* canvas:update: a page in the room hears of a newer checkpoint.
Hear(p) ==
  /\ at[p] = "joined" /\ heard[p] < check.rev
  /\ heard' = [heard EXCEPT ![p] = check.rev]
  /\ UNCHANGED <<pageVars, due, push, check, live, saveVars, past>>

\* handleOwnerSave: the canvas is pushed as a checkpoint first ...
OwnerSave ==
  /\ at[Host] # "closed" /\ ~saving /\ push[Host] = NoPush
  /\ push' = [push EXCEPT ![Host] = [board |-> scenes[Host], base |-> heard[Host], tries |-> 1]]
  /\ saving' = TRUE
  /\ UNCHANGED <<pageVars, due, heard, check, live, stored, past>>

\* materializeBoardContent: the document's elements, if it has any.
Materialized == IF live = {} THEN check.board ELSE MapOf(live)

\* ... then the server saves the board, whatever became of the checkpoint.
SaveMaterialized ==
  /\ saving /\ push[Host] = NoPush
  /\ stored' = Materialized /\ saving' = FALSE
  /\ UNCHANGED <<pageVars, pushVars, live, past>>

LiveNext ==
  \/ \E p \in Pages :
       \/ \E id \in 1 .. MaxClient : OpenPage(p, id)
       \/ \E e \in Elements : DrawOn(p, e)
       \/ JoinPage(p) \/ LosePage(p) \/ ClosePage(p)
       \/ Press(p) \/ Lift(p) \/ Send(p) \/ Apply(p) \/ Calm(p)
       \/ PushStart(p) \/ PushServed(p) \/ PushConflict(p) \/ Hear(p)
  \/ OwnerSave \/ SaveMaterialized

LiveSpec == LiveInit /\ [][LiveNext]_liveVars

-----------------------------------------------------------------------------
(* What the pages and the save promise.                                    *)

\* The document starts empty and a save takes its elements from the document
\* alone: still no element the session began with is missing from the document,
\* from a checkpoint, a canvas or a saved board, whoever draws first.
NothingIsDropped ==
  /\ live # {} => Board \subseteq DOMAIN MapOf(live)
  /\ Board \subseteq DOMAIN check.board \cap DOMAIN stored
  /\ \A p \in Pages : Board \subseteq DOMAIN scenes[p]

\* When nothing is on its way between a page in the room and the server, the
\* page has the server's document and its canvas shows it, except for what was
\* drawn while changes were not taken; so all such pages show the same.
SettledCanvasesAgree ==
  \A p \in Pages :
    at[p] = "joined" /\ inbox[p] = {} /\ unsent[p] = {} /\ live # {} =>
      /\ local[p] = live
      /\ \A e \in (DOMAIN scenes[p] \cup DOMAIN MapOf(live)) \ held[p] :
           e \in DOMAIN scenes[p] \cap DOMAIN MapOf(live) /\ scenes[p][e] = MapOf(live)[e]

\* What somebody drew stays: the element is in the document or, on a page, on
\* its way there or at least on the canvas, once no page is away
\* (architecture.md: "After the updates arrive and are applied, both drawings
\* contain the rectangle and the circle").
DrawnIsKept ==
  (\A p \in Pages : at[p] = "joined") =>
    \A e \in past.drawn : \E p \in Pages :
      e \in DOMAIN scenes[p] \/ WritesTo(live \cup unsent[p], e) # {}
=============================================================================
