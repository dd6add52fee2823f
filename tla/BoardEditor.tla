----------------------------- MODULE BoardEditor -----------------------------
(***************************************************************************)
(* The editor page of one browser tab: the list of boards, the board that  *)
(* is open, its canvas and its save state.  Every API call names a path    *)
(* only; the server looks in the repository that is active for the account *)
(* at that moment, which another tab may have switched.  Each repository   *)
(* has a board at the one path this tab shows.  A call is sent, served and *)
(* answered, in separate steps; the sha of a board is its content.         *)
(***************************************************************************)
EXTENDS Naturals

CONSTANTS
  EditRepos,    \* repositories of the account
  Drawings,     \* board contents
  Absent        \* no value: nothing loaded, listed, selected or under way

\* A save on its way, and the canvas that it saves.
SaveCalls ==
  [at : {"sent", "done", "conflict", "failed", "refreshing"}, content : Drawings, base : Drawings,
   from : Drawings, crossed : BOOLEAN, here : BOOLEAN]

\* A drawing that is open or being opened, and whether it was opened again.
OpenDrawings == [content : Drawings \cup {Absent}, again : BOOLEAN]

ASSUME EditorAssumption == Absent \notin EditRepos \cup Drawings \cup SaveCalls \cup OpenDrawings

VARIABLES
  remote,     \* the board in each repository
  active,     \* the account's active repository, on the server
  shown,      \* activeRepositoryId
  listed,     \* sha of the board in the list, when it is selected
  drawing,    \* the drawing that is open
  state,      \* saveState: status and baseSha
  canvas,     \* what is drawn, hasUserInteractedRef (touched), the half second after the
              \* start in which changes are not reported (quiet); as history, what it was
              \* drawn from, whether all that differs was drawn unnoticed or while a save
              \* was under way, and whether a save's answer was that of another canvas
  reported,   \* hasReportedDirtyRef
  switching,  \* the repository a switch under way goes to
  refresh, load, save   \* calls under way, the latest of their kind

editorVars == <<remote, active, shown, listed, drawing, state, canvas, reported, switching,
                refresh, load, save>>
page == <<shown, listed, drawing, state, canvas, reported>>

Unmounted == [content |-> Absent, from |-> Absent, touched |-> FALSE, quiet |-> FALSE,
              missed |-> FALSE, crossed |-> FALSE]
Mounted(c, crossed, quiet) == [content |-> c, from |-> c, touched |-> FALSE, quiet |-> quiet,
                               missed |-> FALSE, crossed |-> crossed]
Refresh(own) == [repo |-> Absent, sha |-> Absent, own |-> own]

EditorTypes ==
  /\ remote \in [EditRepos -> Drawings] /\ active \in EditRepos
  /\ shown \in EditRepos \cup {Absent} /\ listed \in Drawings \cup {Absent}
  /\ drawing = Absent \/ drawing.content \in Drawings
  /\ state.status \in {"loading", "saved", "dirty", "stale", "saving", "error"}
  /\ state.base \in Drawings \cup {Absent}
  /\ canvas.content = Absent <=> canvas.from = Absent
  /\ drawing = Absent => canvas = Unmounted
  /\ state.status = "saving" => save # Absent

EditorInit ==
  /\ remote \in [EditRepos -> Drawings] /\ active \in EditRepos
  /\ shown = Absent /\ listed = Absent /\ drawing = Absent
  /\ state = [status |-> "loading", base |-> Absent]
  /\ canvas = Unmounted /\ reported = FALSE /\ switching = Absent
  /\ refresh = Refresh(FALSE) /\ load = Absent /\ save = Absent

-----------------------------------------------------------------------------

\* effectiveSaveState: what the page shows and acts upon.
Status ==
  IF /\ state.status \in {"saved", "dirty", "error"}
     /\ listed # Absent /\ state.base # Absent /\ listed # state.base
    THEN "stale" ELSE state.status

\* The canvas goes; a save under way is no longer that of the canvas shown.
Unmounts ==
  /\ canvas' = Unmounted /\ reported' = FALSE
  /\ save' = IF save = Absent THEN Absent ELSE [save EXCEPT !.here = FALSE]

\* A canvas mounts; it is quiet first when Excalidraw answers with an empty scene.
Mounts(c, crossed) == \E quiet \in BOOLEAN : canvas' = Mounted(c, crossed, quiet)

\* The effect that opens the selected board: it drops the open call under way; it
\* runs when the repository, the selection or the switch has changed.
OpensBoard(again) ==
  /\ listed' # Absent /\ switching' = Absent
  /\ load' = [content |-> Absent, again |-> again]
  /\ drawing' = Absent /\ state' = [status |-> "loading", base |-> Absent]
  /\ Unmounts

(* refreshState: three calls at once; what they answer is shown together,  *)
(* unless a later refresh or a switch was started.                         *)

RefreshServed ==
  /\ refresh # Absent
  /\ \/ refresh.repo = Absent /\ refresh' = [refresh EXCEPT !.repo = active]
     \/ refresh.sha = Absent /\ refresh' = [refresh EXCEPT !.sha = remote[active]]
  /\ UNCHANGED <<remote, active, page, switching, load, save>>

RefreshAnswered ==
  /\ refresh # Absent /\ refresh.repo # Absent /\ refresh.sha # Absent
  /\ shown' = refresh.repo /\ listed' = refresh.sha /\ refresh' = Absent
  /\ switching' = Absent
  /\ IF shown' # shown \/ listed = Absent \/ switching # Absent
       THEN OpensBoard(FALSE)
       ELSE UNCHANGED <<drawing, state, canvas, reported, load, save>>
  /\ UNCHANGED <<remote, active>>

(* loadDrawing.                                                            *)

LoadServed ==
  /\ load # Absent /\ load.content = Absent
  /\ load' = [load EXCEPT !.content = remote[active]]
  /\ UNCHANGED <<remote, active, page, switching, refresh, save>>

\* A canvas that is mounted keeps what it shows.
LoadAnswered ==
  /\ load # Absent /\ load.content # Absent /\ load' = Absent
  /\ drawing' = load
  /\ state' = [status |-> "saved", base |-> load.content]
  /\ IF canvas = Unmounted THEN Mounts(load.content, FALSE) ELSE UNCHANGED canvas
  /\ UNCHANGED <<remote, active, shown, listed, reported, switching, refresh, save>>

LoadFailed ==
  /\ load # Absent /\ load' = Absent
  /\ drawing' = Absent /\ Unmounts
  /\ state' = [status |-> "error", base |-> Absent]
  /\ UNCHANGED <<remote, active, shown, listed, switching, refresh>>

\* The reload button of the page; a restore of an earlier version does the same.
Reload ==
  /\ listed # Absent /\ switching = Absent /\ state.status # "loading"
  /\ UNCHANGED <<remote, active, shown, listed, switching, refresh>>
  /\ OpensBoard(Status = "stale")

-----------------------------------------------------------------------------

\* A pointer or a key goes down, something is pasted or typed.
Touch ==
  /\ canvas.content # Absent /\ ~canvas.touched
  /\ canvas' = [canvas EXCEPT !.touched = TRUE]
  /\ UNCHANGED <<remote, active, shown, listed, drawing, state, reported, switching, refresh, load, save>>

\* The half second after the start is over.
QuietEnds ==
  /\ canvas.quiet /\ canvas' = [canvas EXCEPT !.quiet = FALSE]
  /\ UNCHANGED <<remote, active, shown, listed, drawing, state, reported, switching, refresh, load, save>>

Noticed == canvas.touched /\ ~canvas.quiet
Clean   == canvas.content = canvas.from

\* onChange, by a touch, the rest of a gesture or a dropped file: a change that is
\* noticed is reported (onDirty), once since the canvas was mounted or saved.
Draw(c) ==
  /\ canvas.content # Absent /\ c # canvas.content
  /\ reported' = (reported \/ Noticed)
  /\ canvas' = [canvas EXCEPT !.content = c,
                             !.missed = save # Absent \/ (~Noticed /\ (canvas.missed \/ Clean))]
  /\ state' = IF reported \/ ~Noticed \/ state.status \in {"loading", "saving"} THEN state
              ELSE [state EXCEPT !.status = IF listed # Absent /\ state.base \notin {Absent, listed}
                                              THEN "stale" ELSE "dirty"]
  /\ UNCHANGED <<remote, active, shown, listed, drawing, switching, refresh, load, save>>

\* Mutant: the page saves against the sha of its list.
SaveAgainstList ==
  /\ save = Absent /\ canvas.content # Absent
  /\ switching = Absent /\ listed # Absent /\ drawing # Absent
  /\ state' = [state EXCEPT !.status = "saving"]
  /\ canvas' = [canvas EXCEPT !.missed = FALSE]
  /\ save' = [at |-> "sent", content |-> canvas.content, base |-> listed,
              from |-> canvas.from, crossed |-> canvas.crossed, here |-> TRUE]
  /\ UNCHANGED <<remote, active, shown, listed, drawing, reported, switching, refresh, load>>

\* handleSave: a selected board that is open, and not stale.
Save ==
  /\ save = Absent /\ canvas.content # Absent /\ Status # "stale"
  /\ switching = Absent /\ listed # Absent /\ drawing # Absent
  /\ state' = [state EXCEPT !.status = "saving"]
  /\ canvas' = [canvas EXCEPT !.missed = FALSE]
  /\ save' = [at |-> "sent", content |-> canvas.content, from |-> canvas.from,
              crossed |-> canvas.crossed, here |-> TRUE,
              base |-> IF state.base # Absent THEN state.base ELSE drawing.content]
  /\ UNCHANGED <<remote, active, shown, listed, drawing, reported, switching, refresh, load>>

\* POST drawings/save; the answer to a save that was done may be lost.
SaveServed ==
  /\ save # Absent /\ save.at = "sent"
  /\ IF remote[active] = save.base
       THEN /\ remote' = [remote EXCEPT ![active] = save.content]
            /\ \E at \in {"done", "failed"} : save' = [save EXCEPT !.at = at]
       ELSE \E at \in {"conflict", "failed"} : save' = [save EXCEPT !.at = at] /\ UNCHANGED remote
  /\ UNCHANGED <<active, page, switching, refresh, load>>

\* The list, the state and the drawing, also one that is being opened again, take what
\* was saved; then everything is refreshed.
SaveAnswered ==
  /\ save # Absent /\ save.at = "done"
  /\ drawing' = [content |-> save.content, again |-> drawing # Absent /\ drawing.again]
  /\ listed' = IF listed = Absent THEN Absent ELSE save.content
  /\ state' = [status |-> "saved", base |-> save.content]
  /\ IF listed = Absent THEN UNCHANGED canvas
     ELSE IF canvas = Unmounted THEN Mounts(save.content, load # Absent)
     ELSE canvas' = [canvas EXCEPT !.from = save.content, !.crossed = @ \/ ~save.here]
  /\ refresh' = Refresh(TRUE) /\ save' = [save EXCEPT !.at = "refreshing"]
  /\ UNCHANGED <<remote, active, shown, reported, switching, load>>

SaveFailed ==
  /\ save # Absent /\ save.at \in {"conflict", "failed"} /\ save' = Absent
  /\ state' = [state EXCEPT !.status = IF save.at = "conflict" THEN "stale" ELSE "error"]
  /\ UNCHANGED <<remote, active, shown, listed, drawing, canvas, reported, switching, refresh, load>>

\* Mutant: the editor does not hear of the end of its save.
SaveLeavesReported ==
  /\ save # Absent /\ save.at = "refreshing" /\ (refresh # Absent => ~refresh.own)
  /\ save' = Absent
  /\ UNCHANGED <<remote, active, shown, listed, drawing, state, canvas, reported, switching, refresh, load>>

\* The editor goes on when the refresh after the save is over: it has been neither
\* touched nor reported dirty since.
SaveOver ==
  /\ save # Absent /\ save.at = "refreshing" /\ (refresh # Absent => ~refresh.own)
  /\ save' = Absent /\ reported' = (reported /\ ~save.here)
  /\ canvas' = [canvas EXCEPT !.touched = @ /\ ~save.here]
  /\ UNCHANGED <<remote, active, shown, listed, drawing, state, switching, refresh, load>>

-----------------------------------------------------------------------------

\* handleRepositorySwitch; unsaved edits are given up after a question.
SwitchStart(r) ==
  /\ switching = Absent /\ Status # "saving" /\ shown \notin {Absent, r}
  /\ switching' = r /\ refresh' = Absent /\ load' = Absent
  /\ drawing' = Absent /\ state' = [status |-> "loading", base |-> Absent] /\ Unmounts
  /\ UNCHANGED <<remote, active, shown, listed>>

\* The new repository is active; nothing is selected until the list has been refreshed.
SwitchServed ==
  /\ switching # Absent /\ refresh = Absent
  /\ active' = switching /\ shown' = switching /\ listed' = Absent /\ refresh' = Refresh(FALSE)
  /\ drawing' = Absent /\ Unmounts
  /\ UNCHANGED <<remote, state, switching, load>>

\* The switch fails, perhaps after it was done: the old board is opened again.
SwitchFailed ==
  /\ switching # Absent /\ refresh = Absent /\ listed # Absent
  /\ active' \in {active, switching} /\ switching' = Absent
  /\ UNCHANGED listed /\ OpensBoard(FALSE)
  /\ UNCHANGED <<remote, shown, refresh>>

\* Another tab switches; somebody else, or a restore, writes a board.
SwitchedElsewhere(r) ==
  /\ active' = r /\ r # active
  /\ UNCHANGED <<remote, page, switching, refresh, load, save>>
WrittenElsewhere(r, c) ==
  /\ c # remote[r] /\ remote' = [remote EXCEPT ![r] = c]
  /\ drawing' = IF drawing = Absent THEN Absent ELSE [drawing EXCEPT !.again = FALSE]
  /\ load' = IF load = Absent THEN Absent ELSE [load EXCEPT !.again = load.again /\ load.content = Absent]
  /\ UNCHANGED <<active, shown, listed, state, canvas, reported, switching, refresh, save>>

EditorNext ==
  \/ RefreshServed \/ RefreshAnswered \/ LoadServed \/ LoadAnswered \/ LoadFailed \/ Reload
  \/ Save \/ SaveServed \/ SaveAnswered \/ SaveFailed \/ SaveOver \/ SwitchServed \/ SwitchFailed
  \/ Touch \/ QuietEnds
  \/ \E c \in Drawings : Draw(c)
  \/ \E r \in EditRepos : SwitchStart(r) \/ SwitchedElsewhere(r) \/ \E c \in Drawings : WrittenElsewhere(r, c)

EditorSpec == EditorInit /\ [][EditorNext]_editorVars

-----------------------------------------------------------------------------
(* Properties.                                                             *)

\* A save of the editor page overwrites what the canvas was drawn from and nothing
\* else, whichever repository the server finds active and whatever calls cross.
EditorOverwritesWhatItShowed ==
  [][save # Absent /\ save.at = "sent" /\ save' # save /\ remote' # remote /\ ~save.crossed
       => remote[active] = save.from]_editorVars

\* What is not saved is not shown as saved, unless all of it was drawn while a save was
\* under way or unnoticed: in the half second after the start, or untouched since the
\* last save, as by the rest of a gesture begun before that save was over
\* (ExcalidrawEditor.tsx 401 and 522).
UnsavedIsShown ==
  canvas.content # canvas.from /\ save = Absent /\ ~canvas.missed /\ ~canvas.crossed
    => Status \in {"dirty", "stale", "error"}

\* "Reload the board before saving": a board that was reloaded, and that nobody has
\* written since, can be saved.
ReloadedIsSaveable ==
  drawing # Absent /\ drawing.again /\ save = Absent /\ refresh = Absent /\ state.status \in {"saved", "dirty"}
    => Status # "stale"
=============================================================================
