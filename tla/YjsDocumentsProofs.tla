------------------------- MODULE YjsDocumentsProofs -------------------------
(***************************************************************************)
(* Proofs about YjsDocuments: its state has the declared types, and until  *)
(* a purge begins no accepted change is lost from the document and the row *)
(* other than by a failed write; a purged row is not created again within  *)
(* the minute; the registry implements the abstract DocumentMemory; and    *)
(* every accepted change and every call that waits has something under way *)
(* that will see to it.                                                    *)
(***************************************************************************)
EXTENDS YjsMemory, WellFoundedInduction, TLAPS

-----------------------------------------------------------------------------
(* Types.                                                                  *)

\* A call's record has the type of calls.
LEMMA CallInCalls ==
  ASSUME NEW at \in Steps, NEW seen \in Nat, NEW await \in Nat
  PROVE  Call(at, seen, await) \in Calls
  BY DEF Call, Calls

\* enqueuePersistence adds a write of the declared type.
LEMMA EnqueueTypes ==
  ASSUME WriteTypes, NEW state \in SUBSET Changes, Enqueue(state)
  PROVE  writes' \subseteq Writes /\ ticket' \in Nat /\ chain' \in Nat
<1>1. ticket' \in Nat /\ chain' \in Nat
  BY DEF WriteTypes, Enqueue
<1>2. [n |-> ticket + 1, chain |-> chain', state |-> state, sent |-> FALSE] \in Writes
  BY <1>1 DEF Writes, WriteTypes, Enqueue
<1> QED
  BY <1>1, <1>2 DEF Enqueue, WriteTypes

\* deleteDocument keeps the types of what it resets.
LEMMA DeleteTypes ==
  ASSUME DocumentTypes, WriteTypes, DeleteDocument
  PROVE  DocumentTypes' /\ WriteTypes'
  BY DEF DocumentTypes, WriteTypes, DeleteDocument, CancelScheduled

\* Type correctness of a resumption, one action at a time.
LEMMA TypeResume == TypeOK /\ Resume => TypeOK'
<1> SUFFICES ASSUME TypeOK, Resume PROVE TypeOK'
    OBVIOUS
<1> USE DEF TypeOK
<1>1. ASSUME NEW u \in Edits, ApplyUpdate(u) PROVE TypeOK'
  <2>1. DocumentTypes'
    BY <1>1 DEF ApplyUpdate, DocumentTypes, Changes
  <2>2. WriteTypes'
    BY <1>1 DEF ApplyUpdate, Schedule, DocumentTypes, WriteTypes, Changes
  <2>3. CallTypes' /\ RowTypes'
    BY <1>1 DEF ApplyUpdate, CallTypes, RowTypes, Changes, rowVars, purgeVars, countVars
  <2> QED BY <2>1, <2>2, <2>3
<1>2. ASSUME NEW r \in Revisions, MirrorSnapshot(r) PROVE TypeOK'
  <2>1. DocumentTypes'
    <3>1. doc' \subseteq Changes /\ waiting' \subseteq Changes
      BY <1>2 DEF MirrorSnapshot, DocumentTypes, Changes
    <3>2. snapRev' \in Nat /\ gen' \in Nat
      BY <1>2, ConstantsAssumption DEF MirrorSnapshot, DocumentTypes
    <3> QED BY <1>2, <3>1, <3>2 DEF MirrorSnapshot, DocumentTypes
  <2>2. CallTypes' /\ RowTypes'
    BY <1>2 DEF MirrorSnapshot, CallTypes, RowTypes, Changes, rowVars, purgeVars, countVars
  <2>3. CASE r <= snapRev
    BY <1>2, <2>1, <2>2, <2>3 DEF MirrorSnapshot, WriteTypes, saveVars
  <2>4. CASE ~(r <= snapRev)
    <3>1. doc' \in SUBSET Changes /\ Enqueue(doc') /\ CancelScheduled
      BY <1>2, <2>4 DEF MirrorSnapshot, DocumentTypes, Changes
    <3> QED BY <2>1, <2>2, <3>1, EnqueueTypes DEF CancelScheduled, WriteTypes
  <2> QED BY <2>3, <2>4
<1>3. ASSUME NEW w \in writes, StartWrite(w) PROVE TypeOK'
  <2>1. WriteTypes'
    BY <1>3 DEF StartWrite, WriteTypes, Writes
  <2> QED
    BY <1>3, <2>1 DEF StartWrite, DocumentTypes, CallTypes, RowTypes, docVars, rowVars, purgeVars, countVars
<1>4. ASSUME NEW t \in Tasks, FinishRelease(t) PROVE TypeOK'
  <2>1. DocumentTypes' /\ WriteTypes'
    BY <1>4, DeleteTypes DEF FinishRelease, DocumentTypes, WriteTypes, docVars, saveVars
  <2>2. NoCall \in Calls /\ Call("purge", 0, 0) \in Calls
    BY CallInCalls DEF Steps, NoCall
  <2> QED
    BY <1>4, <2>1, <2>2 DEF FinishRelease, CallTypes, RowTypes, rowVars, purgeVars, countVars
<1>5. ASSUME NEW p \in Purgers, StartPurge(p) PROVE TypeOK'
  <2>1. p \in Tasks /\ Call("draining", 0, Tail) \in Calls
    BY CallInCalls DEF Tasks, Steps, Tail, WriteTypes
  <2>2. CallTypes'
    BY <1>5, <2>1 DEF StartPurge, CallTypes
  <2> QED
    BY <1>5, <2>2
       DEF StartPurge, CancelScheduled, DocumentTypes, WriteTypes, RowTypes, docVars, rowVars, countVars
<1>6. ASSUME NEW p \in Purgers, FinishPurge(p) PROVE TypeOK'
  <2>1. p \in Tasks /\ Call("deleting", 0, 0) \in Calls
    BY CallInCalls DEF Tasks, Steps
  <2>2. CallTypes' /\ RowTypes'
    BY <1>6, <2>1 DEF FinishPurge, CallTypes, RowTypes, rowVars, purgeVars, countVars
  <2> QED BY <1>6, <2>2, DeleteTypes DEF FinishPurge
<1> QED
  BY <1>1, <1>2, <1>3, <1>4, <1>5, <1>6 DEF Resume

\* Type correctness of an event, one action at a time.
LEMMA TypeEvent == TypeOK /\ Event => TypeOK'
<1> SUFFICES ASSUME TypeOK, Event PROVE TypeOK'
    OBVIOUS
<1> USE DEF TypeOK
<1>1. CASE ReadDocument \/ \E c \in Changes : Request(c)
  <2>1. DocumentTypes' /\ WriteTypes'
    BY <1>1 DEF ReadDocument, Request, GetDocument, DocumentTypes, WriteTypes, saveVars
  <2>2. CallTypes' /\ RowTypes'
    BY <1>1 DEF ReadDocument, Request, CallTypes, RowTypes, rowVars, purgeVars, countVars
  <2> QED BY <2>1, <2>2
<1>2. CASE LoadReads \/ LoadDone \/ LoadFails
  <2>1. DocumentTypes' /\ WriteTypes'
    BY <1>2 DEF LoadReads, LoadDone, LoadFails, DocumentTypes, WriteTypes, RowTypes, saveVars
  <2>2. CallTypes' /\ RowTypes'
    BY <1>2 DEF LoadReads, LoadDone, LoadFails, CallTypes, RowTypes, rowVars, purgeVars, countVars
  <2> QED BY <2>1, <2>2
<1>3. CASE DebounceFires
  <2>1. WriteTypes'
    BY <1>3, EnqueueTypes DEF DebounceFires, WriteTypes
  <2> QED
    BY <1>3, <2>1
       DEF DebounceFires, DocumentTypes, CallTypes, RowTypes, docVars, rowVars, purgeVars, countVars
<1>4. ASSUME NEW w \in writes, WriteCommits(w) \/ WriteFails(w) PROVE TypeOK'
  <2>1. w.state \subseteq Changes
    BY DEF WriteTypes, Writes
  <2>2. rowExists' \in BOOLEAN /\ row' \subseteq Changes
    BY <1>4, <2>1 DEF WriteCommits, WriteFails, Upsert, RowTypes, rowVars
  <2>3. accepted' = accepted /\ failed' \subseteq Changes
    BY <1>4, <2>1 DEF WriteCommits, WriteFails, RowTypes
  <2>4. failures' \in Nat /\ crashes' \in Nat
    BY <1>4 DEF WriteCommits, WriteFails, RowTypes, countVars
  <2>5. RowTypes'
    BY <2>2, <2>3, <2>4 DEF RowTypes
  <2> QED
    BY <1>4, <2>5
       DEF WriteCommits, WriteFails, DocumentTypes, WriteTypes, CallTypes, docVars, purgeVars
<1>5. ASSUME NEW t \in Tasks, StartRelease(t) PROVE TypeOK'
  <2> DEFINE awaited == IF pending = {} THEN Tail ELSE ticket + 1
  <2>1. awaited \in Nat
    BY DEF WriteTypes, Tail
  <2>2. Call("releasing", gen, awaited) \in Calls
    BY <2>1, CallInCalls DEF Steps, DocumentTypes
  <2>3. CallTypes'
    BY <1>5, <2>2 DEF StartRelease, CallTypes, purgeVars
  <2>4. WriteTypes'
    BY <1>5, EnqueueTypes DEF StartRelease, CancelScheduled, WriteTypes
  <2> QED
    BY <1>5, <2>3, <2>4 DEF StartRelease, DocumentTypes, RowTypes, docVars, rowVars, countVars
<1>6. ASSUME NEW p \in Purgers, DeleteRow(p) \/ DeleteRowFails(p) \/ TombstoneExpires(p)
      PROVE  TypeOK'
  <2>1. p \in Tasks /\ NoCall \in Calls
    BY CallInCalls DEF Tasks, Steps, NoCall
  <2>2. CallTypes'
    BY <1>6, <2>1 DEF DeleteRow, DeleteRowFails, TombstoneExpires, CallTypes, purgeVars
  <2>3. RowTypes'
    <3>1. CASE DeleteRow(p)
      BY <3>1 DEF DeleteRow, RowTypes, countVars
    <3>2. CASE DeleteRowFails(p) \/ TombstoneExpires(p)
      BY <3>2 DEF DeleteRowFails, TombstoneExpires, RowTypes, rowVars, countVars
    <3> QED BY <1>6, <3>1, <3>2
  <2> QED
    BY <1>6, <2>2, <2>3
       DEF DeleteRow, DeleteRowFails, TombstoneExpires, DocumentTypes, WriteTypes, docVars, saveVars
<1>7. CASE Crash
  <2>1. NoCall \in Calls
    BY CallInCalls DEF Steps, NoCall
  <2>2. rowExists' \in BOOLEAN /\ row' \subseteq Changes
    BY <1>7 DEF Crash, Upsert, WriteTypes, RowTypes, Writes, rowVars
  <2>3. DocumentTypes' /\ WriteTypes'
    BY <1>7 DEF Crash, DocumentTypes, WriteTypes
  <2>4. CallTypes'
    BY <1>7, <2>1 DEF Crash, CallTypes
  <2>5. RowTypes'
    BY <1>7, <2>2 DEF Crash, RowTypes
  <2> QED BY <2>3, <2>4, <2>5
<1> QED
  BY <1>1, <1>2, <1>3, <1>4, <1>5, <1>6, <1>7 DEF Event

LEMMA TypeStep == TypeOK /\ [Next]_vars => TypeOK'
<1>1. TypeOK /\ UNCHANGED vars => TypeOK'
  BY DEF TypeOK, DocumentTypes, WriteTypes, CallTypes, RowTypes,
         vars, docVars, saveVars, rowVars, purgeVars, countVars
<1> QED
  BY <1>1, TypeResume, TypeEvent DEF Next

LEMMA TypeInit == Init => TypeOK
<1> SUFFICES ASSUME Init PROVE TypeOK
    OBVIOUS
<1>1. NoCall \in Calls
  BY CallInCalls DEF Steps, NoCall
<1> QED
  BY <1>1 DEF Init, TypeOK, DocumentTypes, WriteTypes, CallTypes, RowTypes

\* The registry's maps, its queue and the row keep their types.
THEOREM TypeCorrect == Spec => []TypeOK
  BY TypeInit, TypeStep, PTL DEF Spec

-----------------------------------------------------------------------------
(* The queue of writes.                                                    *)

\* The numbers in the state are naturals.
LEMMA NumbersAreNat ==
  ASSUME TypeOK
  PROVE  /\ ticket \in Nat /\ chain \in Nat /\ gen \in Nat
         /\ \A w \in writes : w.n \in Nat /\ w.chain \in Nat /\ w.state \subseteq Changes
         /\ \A t \in Tasks : task[t].seen \in Nat /\ task[t].await \in Nat
  BY DEF TypeOK, DocumentTypes, WriteTypes, CallTypes, Writes, Calls

\* Queueing a write keeps the queue numbered.
LEMMA EnqueueNumbered ==
  ASSUME TypeOK, Numbered, NEW state, Enqueue(state)
  PROVE  /\ ticket' = ticket + 1
         /\ \A w \in writes' : w.n <= ticket'
         /\ \A v, w \in writes' : v.n = w.n => v = w
<1> DEFINE new == [n |-> ticket + 1, chain |-> chain', state |-> state, sent |-> FALSE]
<1>1. writes' = writes \cup {new} /\ ticket' = ticket + 1 /\ new.n = ticket + 1
  BY DEF Enqueue
<1> HIDE DEF new
<1>2. \A w \in writes : w.n \in Nat /\ w.n <= ticket
  BY NumbersAreNat DEF Numbered
<1>3. \A w \in writes : w.n < new.n
  BY <1>1, <1>2, NumbersAreNat
<1> QED
  BY <1>1, <1>2, <1>3, NumbersAreNat DEF Numbered

\* It keeps the queue in order.
LEMMA EnqueueInOrder ==
  ASSUME TypeOK, Numbered, InOrder, NEW state, Enqueue(state)
  PROVE  InOrder'
<1> DEFINE new == [n |-> ticket + 1, chain |-> chain', state |-> state, sent |-> FALSE]
<1>1. /\ writes' = writes \cup {new} /\ ticket' = ticket + 1
      /\ new.n = ticket + 1 /\ new.chain = chain' /\ new.sent = FALSE
  BY DEF Enqueue
<1>2. chain' # 0 /\ (writes # {} => chain' = chain)
  BY NumbersAreNat DEF Enqueue, InOrder
<1> HIDE DEF new
<1>3. \A w \in writes' : chain' # 0 /\ w.chain = chain'
  BY <1>1, <1>2 DEF InOrder
<1>4. ASSUME NEW w \in writes', w.sent PROVE First(w)'
  <2>1. w \in writes /\ First(w)
    BY <1>1, <1>4 DEF InOrder
  <2>2. w.n <= ticket + 1
    BY <2>1, NumbersAreNat DEF Numbered
  <2> QED BY <1>1, <2>1, <2>2 DEF First
<1>5. ASSUME NEW w \in writes', NEW n \in w.n .. ticket' PROVE Outstanding(n)'
  <2>1. CASE n = ticket + 1
    BY <1>1, <2>1 DEF Outstanding
  <2>2. CASE n # ticket + 1
    <3>1. w \in writes /\ n \in w.n .. ticket
      BY <1>1, <2>2, <1>5, NumbersAreNat
    <3> QED BY <1>1, <3>1 DEF InOrder, Outstanding
  <2> QED BY <2>1, <2>2
<1> QED
  BY <1>1, <1>3, <1>4, <1>5 DEF InOrder

\* It queues that state and no other.
LEMMA EnqueueCovers ==
  ASSUME NEW state, Enqueue(state)
  PROVE  /\ Queued' = Queued \cup state
         /\ \A w \in writes' : w \in writes \/ w.state = state
<1> DEFINE new == [n |-> ticket + 1, chain |-> chain', state |-> state, sent |-> FALSE]
<1>1. writes' = writes \cup {new} /\ new.state = state
  BY DEF Enqueue
<1> HIDE DEF new
<1> QED BY <1>1 DEF Queued

\* Settling the oldest write keeps the queue in order.
LEMMA RemoveInOrder ==
  ASSUME TypeOK, Numbered, InOrder, NEW w \in writes, First(w),
         writes' = writes \ {w}, UNCHANGED <<ticket, chain>>
  PROVE  InOrder'
<1>1. ASSUME NEW v \in writes', v.sent PROVE First(v)'
  BY <1>1 DEF InOrder, First
<1>2. ASSUME NEW v \in writes', NEW n \in v.n .. ticket' PROVE Outstanding(n)'
  <2>1. v \in writes /\ v # w /\ n \in v.n .. ticket
    BY <1>2
  <2>2. PICK u \in writes : u.n = n
    BY <2>1 DEF InOrder, Outstanding
  <2>3. w.n <= v.n /\ w.n # v.n
    BY <2>1 DEF First, InOrder, Numbered
  <2>4. u # w
    BY <2>1, <2>2, <2>3, NumbersAreNat
  <2> QED BY <2>2, <2>4 DEF Outstanding
<1> QED
  BY <1>1, <1>2 DEF InOrder

\* The promise of the newest write a quiet release awaits has settled only
\* when the queue is empty.
LEMMA QuietIsEmpty ==
  ASSUME TypeOK, Numbered, InOrder, QuietSinceSeen,
         NEW t \in Tasks, task[t].at = "releasing", task[t].seen = gen,
         ~Outstanding(task[t].await)
  PROVE  writes = {} /\ pending = {}
<1> SUFFICES ASSUME NEW w \in writes PROVE FALSE
    BY DEF QuietSinceSeen
<1>1. w.n <= task[t].await /\ task[t].await <= ticket
  BY DEF QuietSinceSeen, Numbered
<1>2. task[t].await \in w.n .. ticket
  BY <1>1, NumbersAreNat
<1> QED BY <1>2 DEF InOrder

-----------------------------------------------------------------------------
(* The inductive invariant, action by action, while no purge has begun.    *)

\* An access to the document outdates every release under way.
LEMMA AccessOrderly ==
  ASSUME IInv, ~purged, ReadDocument \/ \E c \in Changes : Request(c)
  PROVE  Orderly'
<1> USE DEF IInv, Orderly
<1>1. /\ Settled /\ gen' = gen + 1
      /\ loading' = "read" => loading = "read"
      /\ UNCHANGED <<loaded, doc, loadData, saveVars, rowVars, purgeVars, task, accepted, failed>>
  BY DEF ReadDocument, Request, GetDocument
<1>2. \A t \in Tasks : task[t].at = "releasing" => task[t].seen <= gen
  BY <1>1 DEF Settled, Resumes, SeenBefore
<1>3. SeenBefore' /\ QuietSinceSeen'
  BY <1>1, <1>2, NumbersAreNat DEF SeenBefore, QuietSinceSeen
<1>4. NoPurgeYet' /\ InOrder' /\ OnlyOfDocument' /\ LoadIsCurrent'
  BY <1>1 DEF NoPurgeYet, InOrder, First, Outstanding, OnlyOfDocument, LoadIsCurrent,
              saveVars, rowVars, purgeVars
<1>5. LiveDocumentComplete' /\ ReleasedIsStored' /\ UnsavedIsScheduled'
  BY <1>1 DEF LiveDocumentComplete, ReleasedIsStored, UnsavedIsScheduled, Queued,
              saveVars, rowVars, purgeVars
<1> QED BY <1>3, <1>4, <1>5

\* A load brings back exactly what the row holds.
LEMMA LoadOrderly ==
  ASSUME IInv, ~purged, LoadReads \/ LoadDone \/ LoadFails
  PROVE  Orderly'
<1> USE DEF IInv, Orderly
<1>1. UNCHANGED <<saveVars, rowVars, purgeVars, gen, task, accepted, failed>> /\ Settled
  BY DEF LoadReads, LoadDone, LoadFails
<1>2. NoPurgeYet' /\ InOrder' /\ QuietSinceSeen'
  BY <1>1 DEF NoPurgeYet, InOrder, First, Outstanding, QuietSinceSeen, saveVars, purgeVars
<1>3. \A t \in Tasks : task[t].at = "releasing" => task[t].seen <= gen
  BY <1>1 DEF Settled, Resumes, SeenBefore
<1>4. SeenBefore'
  BY <1>1, <1>3 DEF SeenBefore
<1>5. CASE LoadReads \/ LoadFails
  <2>1. UNCHANGED <<loaded, doc>> /\ (loading' = "read" => loadData' = row)
    BY <1>5 DEF LoadReads, LoadFails
  <2> QED
    BY <1>1, <1>2, <1>4, <2>1
       DEF OnlyOfDocument, LoadIsCurrent, LiveDocumentComplete, ReleasedIsStored,
           UnsavedIsScheduled, Queued, saveVars, rowVars, purgeVars
<1>6. CASE LoadDone
  <2>1. loaded' = TRUE /\ doc' = row /\ loading' = "no"
    BY <1>6 DEF LoadDone, LoadIsCurrent
  <2>2. ~loaded /\ pending = {} /\ writes = {}
    BY <1>6 DEF LoadDone, OnlyOfDocument
  <2>3. accepted \ failed \subseteq row
    BY <2>2 DEF ReleasedIsStored
  <2> QED
    BY <1>1, <1>2, <1>4, <2>1, <2>2, <2>3
       DEF OnlyOfDocument, LoadIsCurrent, LiveDocumentComplete, ReleasedIsStored,
           UnsavedIsScheduled, saveVars, rowVars, purgeVars
<1> QED BY <1>5, <1>6

\* An applied update is scheduled with everything else in the document.
LEMMA ApplyOrderly ==
  ASSUME IInv, ~purged, NEW u \in Edits, ApplyUpdate(u)
  PROVE  Orderly'
<1> USE DEF IInv, Orderly
<1>1. /\ loaded /\ UNCHANGED <<loaded, loading, loadData, writes, ticket, chain, rowVars,
                                purgeVars, task, failed>>
      /\ \/ UNCHANGED <<doc, gen, pending, accepted>>
         \/ /\ doc' = doc \cup {u} /\ gen' = gen + 1
            /\ pending' = doc' /\ accepted' = accepted \cup {u}
  BY DEF ApplyUpdate, Schedule
<1>2. NoPurgeYet' /\ InOrder' /\ LoadIsCurrent'
  BY <1>1 DEF NoPurgeYet, InOrder, First, Outstanding, LoadIsCurrent, rowVars, purgeVars
<1>3. \A t \in Tasks : task[t].at = "releasing" => task[t].seen <= gen
  BY <1>1 DEF SeenBefore
<1>4. SeenBefore' /\ QuietSinceSeen'
  <2>1. CASE gen' = gen + 1
    BY <1>1, <1>3, <2>1, NumbersAreNat DEF SeenBefore, QuietSinceSeen
  <2>2. CASE UNCHANGED <<doc, gen, pending, accepted>>
    BY <1>1, <2>2 DEF SeenBefore, QuietSinceSeen, Outstanding
  <2> QED BY <1>1, <2>1, <2>2
<1>5. OnlyOfDocument'
  BY <1>1 DEF OnlyOfDocument
<1>6. LiveDocumentComplete' /\ ReleasedIsStored' /\ UnsavedIsScheduled'
  BY <1>1 DEF LiveDocumentComplete, ReleasedIsStored, UnsavedIsScheduled, Queued, rowVars, purgeVars
<1> QED BY <1>2, <1>4, <1>5, <1>6

\* A mirrored snapshot cancels the scheduled write because its own covers it.
LEMMA MirrorOrderly ==
  ASSUME IInv, ~purged, NEW r \in Revisions, MirrorSnapshot(r)
  PROVE  Orderly'
<1> USE DEF IInv, Orderly
<1>1. loaded /\ UNCHANGED <<loaded, loading, loadData, rowVars, purgeVars, task, failed>>
  BY DEF MirrorSnapshot
<1>2. NoPurgeYet' /\ LoadIsCurrent'
  BY <1>1 DEF NoPurgeYet, LoadIsCurrent, rowVars, purgeVars
<1>3. CASE UNCHANGED <<doc, gen, saveVars, accepted>>
  BY <1>1, <1>2, <1>3
     DEF InOrder, First, Outstanding, SeenBefore, QuietSinceSeen, OnlyOfDocument,
         LiveDocumentComplete, ReleasedIsStored, UnsavedIsScheduled, Queued,
         rowVars, purgeVars, saveVars
<1>4. CASE /\ gen' = gen + 1 /\ doc' = doc \cup {r} /\ CancelScheduled /\ Enqueue(doc')
           /\ accepted' = accepted \cup {r}
  <2>1. InOrder'
    BY <1>4, EnqueueInOrder
  <2>2. \A t \in Tasks : task[t].at = "releasing" => task[t].seen <= gen
    BY <1>1 DEF SeenBefore
  <2>3. SeenBefore' /\ QuietSinceSeen'
    BY <1>1, <1>4, <2>2, NumbersAreNat DEF SeenBefore, QuietSinceSeen
  <2>4. /\ Queued' = Queued \cup doc'
        /\ \A w \in writes' : w \in writes \/ w.state = doc'
    BY <1>4, EnqueueCovers
  <2>5. OnlyOfDocument'
    BY <1>1, <1>4, <2>4 DEF OnlyOfDocument, CancelScheduled
  <2>6. LiveDocumentComplete' /\ ReleasedIsStored'
    BY <1>1, <1>4 DEF LiveDocumentComplete, ReleasedIsStored, rowVars, purgeVars
  <2>7. UnsavedIsScheduled'
    BY <2>4 DEF UnsavedIsScheduled
  <2> QED BY <1>2, <2>1, <2>3, <2>5, <2>6, <2>7
<1> QED BY <1>3, <1>4 DEF MirrorSnapshot

\* The debounce timer moves the pending state into the queue.
LEMMA DebounceOrderly ==
  ASSUME IInv, ~purged, DebounceFires
  PROVE  Orderly'
<1> USE DEF IInv, Orderly
<1>1. UNCHANGED <<docVars, gen, rowVars, purgeVars, task, accepted, failed>> /\ pending' = {}
  BY DEF DebounceFires
<1>2. /\ NoPurgeYet' /\ LoadIsCurrent' /\ LiveDocumentComplete' /\ ReleasedIsStored'
  BY <1>1 DEF NoPurgeYet, LoadIsCurrent, LiveDocumentComplete, ReleasedIsStored,
              docVars, rowVars, purgeVars
<1>3. CASE pending = {}
  <2>1. UNCHANGED <<pending, writes, ticket, chain>>
    BY <1>1, <1>3 DEF DebounceFires
  <2> QED
    BY <1>1, <1>2, <2>1
       DEF InOrder, First, Outstanding, SeenBefore, QuietSinceSeen, OnlyOfDocument,
           UnsavedIsScheduled, Queued, docVars, rowVars, purgeVars
<1>4. CASE pending # {}
  <2>1. Enqueue(pending)
    BY <1>4 DEF DebounceFires
  <2>2. InOrder' /\ ticket' = ticket + 1
    BY <2>1, EnqueueInOrder, EnqueueNumbered
  <2>3. loaded /\ loaded'
    BY <1>1, <1>4 DEF OnlyOfDocument, docVars
  <2>4. \A t \in Tasks : task[t].at = "releasing" => task[t].seen <= gen /\ task[t].seen # gen
    BY <1>4, <2>3 DEF SeenBefore, QuietSinceSeen
  <2>5. SeenBefore' /\ QuietSinceSeen'
    BY <1>1, <2>4 DEF SeenBefore, QuietSinceSeen
  <2>6. /\ Queued' = Queued \cup pending
        /\ \A w \in writes' : w \in writes \/ w.state = pending
    BY <2>1, EnqueueCovers
  <2>7. OnlyOfDocument'
    BY <1>1, <2>3, <2>6 DEF OnlyOfDocument, docVars
  <2>8. UnsavedIsScheduled'
    BY <1>1, <2>6 DEF UnsavedIsScheduled, docVars, rowVars, purgeVars
  <2> QED BY <1>2, <2>2, <2>5, <2>7, <2>8
<1> QED BY <1>3, <1>4

\* Without a tombstone a write whose turn has come is sent.
LEMMA StartWriteOrderly ==
  ASSUME IInv, ~purged, NEW w \in writes, StartWrite(w)
  PROVE  Orderly' /\ Numbered'
<1> USE DEF IInv, Orderly
<1> DEFINE sentW == [w EXCEPT !.sent = TRUE]
<1>1. /\ UNCHANGED <<docVars, gen, pending, ticket, chain, rowVars, purgeVars, task, accepted, failed>>
      /\ First(w)
  BY DEF StartWrite
<1>2. writes' = (writes \ {w}) \cup {sentW}
  BY DEF StartWrite, NoPurgeYet
<1>3. sentW.n = w.n /\ sentW.chain = w.chain /\ sentW.state = w.state
  BY DEF TypeOK, WriteTypes, Writes
<1> HIDE DEF sentW
<1>4. Numbered'
  BY <1>1, <1>2, <1>3 DEF Numbered
<1>5. \A n : Outstanding(n)' <=> Outstanding(n)
  BY <1>2, <1>3 DEF Outstanding
<1>6. First(sentW)'
  BY <1>1, <1>2, <1>3, NumbersAreNat DEF First
<1>7. \A v \in writes' : v.sent => First(v)'
  BY <1>2, <1>3, <1>6 DEF InOrder, First
<1>8. InOrder'
  BY <1>1, <1>2, <1>3, <1>5, <1>7 DEF InOrder
<1>9. Queued' = Queued
  BY <1>2, <1>3 DEF Queued
<1>10. SeenBefore' /\ QuietSinceSeen' /\ NoPurgeYet'
  BY <1>1, <1>2, <1>3, <1>5 DEF SeenBefore, QuietSinceSeen, NoPurgeYet, docVars, purgeVars
<1>11. OnlyOfDocument' /\ LoadIsCurrent'
  BY <1>1, <1>2, <1>3 DEF OnlyOfDocument, LoadIsCurrent, docVars, rowVars
<1>12. LiveDocumentComplete' /\ ReleasedIsStored' /\ UnsavedIsScheduled'
  BY <1>1, <1>9 DEF LiveDocumentComplete, ReleasedIsStored, UnsavedIsScheduled,
                    docVars, rowVars, purgeVars
<1> QED BY <1>4, <1>8, <1>10, <1>11, <1>12

\* A write that settles is the oldest, and belongs to a document in memory.
LEMMA SettleOrderly ==
  ASSUME IInv, ~purged, NEW w \in writes, WriteCommits(w) \/ WriteFails(w)
  PROVE  Orderly' /\ Numbered'
<1> USE DEF IInv, Orderly
<1>1. /\ UNCHANGED <<docVars, gen, pending, ticket, chain, purgeVars, task, accepted>>
      /\ writes' = writes \ {w} /\ w.sent
      /\ row \subseteq row' /\ w.state \subseteq row' \cup failed'
      /\ failed \ w.state \subseteq failed'
  BY DEF WriteCommits, WriteFails, Upsert, rowVars
<1>2. Numbered'
  BY <1>1 DEF Numbered
<1>3. First(w) /\ InOrder'
  BY <1>1, RemoveInOrder DEF InOrder
<1>4. loaded /\ w.state \subseteq doc
  BY DEF OnlyOfDocument
<1>5. SeenBefore' /\ QuietSinceSeen' /\ NoPurgeYet'
  BY <1>1, <1>4 DEF SeenBefore, QuietSinceSeen, NoPurgeYet, docVars, purgeVars
<1>6. OnlyOfDocument' /\ LoadIsCurrent'
  BY <1>1, <1>4 DEF OnlyOfDocument, LoadIsCurrent, docVars
<1>7. LiveDocumentComplete' /\ ReleasedIsStored'
  BY <1>1, <1>4 DEF LiveDocumentComplete, ReleasedIsStored, docVars, purgeVars
<1>8. Queued \subseteq Queued' \cup w.state
  BY <1>1 DEF Queued
<1>9. failed \subseteq failed' \cup row'
  BY <1>1 DEF WriteCommits, WriteFails, Upsert
<1>10. UnsavedIsScheduled'
  BY <1>1, <1>8, <1>9 DEF UnsavedIsScheduled, docVars, purgeVars
<1> QED BY <1>2, <1>3, <1>5, <1>6, <1>7, <1>10

\* A release queues what was scheduled and awaits the newest write.
LEMMA StartReleaseOrderly ==
  ASSUME IInv, ~purged, NEW t \in Tasks, StartRelease(t)
  PROVE  Orderly' /\ Numbered'
<1> USE DEF IInv, Orderly
<1> DEFINE awaited == IF pending = {} THEN Tail ELSE ticket + 1
<1>1. /\ Settled /\ pending' = {}
      /\ UNCHANGED <<docVars, gen, rowVars, purgeVars, accepted, failed>>
      /\ task' = [task EXCEPT ![t] = Call("releasing", gen, awaited)]
  BY DEF StartRelease, CancelScheduled
<1>2. task \in [Tasks -> Calls]
  BY DEF TypeOK, CallTypes
<1>3. /\ task'[t].at = "releasing" /\ task'[t].seen = gen /\ task'[t].await = awaited
      /\ \A s \in Tasks : s # t => task'[s] = task[s]
  BY <1>1, <1>2 DEF Call
<1> HIDE DEF awaited
<1>4. /\ NoPurgeYet' /\ LoadIsCurrent' /\ LiveDocumentComplete' /\ ReleasedIsStored'
  BY <1>1, <1>3 DEF NoPurgeYet, LoadIsCurrent, LiveDocumentComplete, ReleasedIsStored,
                    docVars, rowVars, purgeVars
<1>5. \A s \in Tasks : task[s].at = "releasing" => task[s].seen <= gen
  BY <1>1 DEF Settled, Resumes, SeenBefore
<1>6. SeenBefore'
  BY <1>1, <1>3, <1>5, NumbersAreNat DEF SeenBefore
<1>7. CASE pending = {}
  <2>1. UNCHANGED <<pending, writes, ticket, chain>> /\ awaited = Tail
    BY <1>1, <1>7 DEF StartRelease, awaited
  <2>2. Tail <= ticket /\ \A w \in writes : w.n <= Tail
    BY NumbersAreNat DEF Tail, InOrder, Numbered
  <2>3. Numbered' /\ QuietSinceSeen'
    BY <1>1, <1>3, <2>1, <2>2 DEF Numbered, QuietSinceSeen
  <2> QED
    BY <1>1, <1>4, <1>6, <2>1, <2>3
       DEF InOrder, First, Outstanding, OnlyOfDocument, UnsavedIsScheduled, Queued,
           docVars, rowVars, purgeVars
<1>8. CASE pending # {}
  <2>1. Enqueue(pending) /\ awaited = ticket + 1
    BY <1>8 DEF StartRelease, awaited
  <2>2. /\ InOrder' /\ ticket' = ticket + 1
        /\ \A w \in writes' : w.n <= ticket'
        /\ \A v, w \in writes' : v.n = w.n => v = w
    BY <2>1, EnqueueInOrder, EnqueueNumbered
  <2>3. Numbered'
    BY <1>3, <2>1, <2>2, NumbersAreNat DEF Numbered
  <2>4. QuietSinceSeen'
    BY <1>1, <1>3, <1>8, <2>1, <2>2 DEF QuietSinceSeen
  <2>5. /\ Queued' = Queued \cup pending
        /\ \A w \in writes' : w \in writes \/ w.state = pending
    BY <2>1, EnqueueCovers
  <2>6. OnlyOfDocument'
    BY <1>1, <1>8, <2>5 DEF OnlyOfDocument, docVars
  <2>7. UnsavedIsScheduled'
    BY <1>1, <2>5 DEF UnsavedIsScheduled, docVars, rowVars, purgeVars
  <2> QED BY <1>4, <1>6, <2>2, <2>3, <2>4, <2>6, <2>7
<1> QED BY <1>7, <1>8

\* The document is dropped only when nothing is left to write.
LEMMA FinishReleaseOrderly ==
  ASSUME IInv, ~purged, NEW t \in Tasks, FinishRelease(t)
  PROVE  Orderly' /\ Numbered'
<1> USE DEF IInv, Orderly
<1>1. /\ task[t].at = "releasing" /\ ~Outstanding(task[t].await)
      /\ UNCHANGED <<rowVars, purgeVars, accepted, failed>>
  BY DEF FinishRelease, Resumes
<1>2. /\ task'[t].at \in {"idle", "purge"} /\ task'[t].await = 0
      /\ \A s \in Tasks : s # t => task'[s] = task[s]
  BY DEF FinishRelease, Call, NoCall, TypeOK, CallTypes
<1>3. NoPurgeYet'
  BY <1>1, <1>2 DEF NoPurgeYet, purgeVars
<1>4. CASE UsedSince(t)
  <2>1. UNCHANGED <<docVars, gen, saveVars>>
    BY <1>4 DEF FinishRelease
  <2>2. Numbered' /\ InOrder'
    BY <1>2, <2>1, NumbersAreNat DEF Numbered, InOrder, First, Outstanding, saveVars
  <2>3. SeenBefore' /\ QuietSinceSeen'
    BY <1>2, <2>1 DEF SeenBefore, QuietSinceSeen, Outstanding, docVars, saveVars
  <2> QED
    BY <1>1, <1>3, <2>1, <2>2, <2>3
       DEF OnlyOfDocument, LoadIsCurrent, LiveDocumentComplete, ReleasedIsStored,
           UnsavedIsScheduled, Queued, docVars, saveVars, rowVars, purgeVars
<1>5. CASE ~UsedSince(t)
  <2>1. task[t].seen = gen /\ loading = "no" /\ DeleteDocument
    BY <1>5 DEF UsedSince, FinishRelease
  <2>2. writes = {} /\ pending = {}
    BY <1>1, <2>1, QuietIsEmpty
  <2>3. accepted \ failed \subseteq row
    BY <2>2 DEF ReleasedIsStored, LiveDocumentComplete, UnsavedIsScheduled, Queued
  <2>4. /\ loaded' = FALSE /\ doc' = {} /\ pending' = {} /\ writes' = {} /\ ticket' = ticket
        /\ UNCHANGED <<loading, loadData>>
    BY <2>1, <2>2 DEF DeleteDocument, CancelScheduled
  <2>5. Numbered' /\ InOrder'
    BY <1>2, <2>4, NumbersAreNat DEF Numbered, InOrder
  <2>6. SeenBefore' /\ QuietSinceSeen'
    BY <2>4 DEF SeenBefore, QuietSinceSeen, Outstanding
  <2> QED
    BY <1>1, <1>3, <2>1, <2>3, <2>4, <2>5, <2>6
       DEF OnlyOfDocument, LoadIsCurrent, LiveDocumentComplete, ReleasedIsStored,
           UnsavedIsScheduled, rowVars, purgeVars
<1> QED BY <1>4, <1>5

\* A restarted process starts over from what the row holds.
LEMMA CrashOrderly ==
  ASSUME Crash
  PROVE  Orderly' /\ (loading' = "no") /\ doc' = {}
<1>1. /\ loaded' = FALSE /\ doc' = {} /\ loading' = "no" /\ pending' = {} /\ writes' = {}
      /\ tombstone' = FALSE /\ accepted' \subseteq row'
      /\ task' = [t \in Tasks |-> NoCall]
  BY DEF Crash
<1>2. \A t \in Tasks : task'[t].at = "idle" /\ task'[t].await = 0
  BY <1>1 DEF NoCall, Call
<1>3. NoPurgeYet' /\ InOrder' /\ SeenBefore' /\ QuietSinceSeen'
  BY <1>1, <1>2 DEF NoPurgeYet, InOrder, SeenBefore, QuietSinceSeen
<1>4. OnlyOfDocument' /\ LoadIsCurrent'
  BY <1>1 DEF OnlyOfDocument, LoadIsCurrent
<1>5. LiveDocumentComplete' /\ ReleasedIsStored' /\ UnsavedIsScheduled'
  BY <1>1 DEF LiveDocumentComplete, ReleasedIsStored, UnsavedIsScheduled
<1> QED BY <1>1, <1>3, <1>4, <1>5 DEF Orderly

\* The end of a purge's minute, if no purge has begun since a crash.
LEMMA ExpiryOrderly ==
  ASSUME IInv, ~purged, NEW p \in Purgers, TombstoneExpires(p)
  PROVE  Orderly'
<1> USE DEF IInv, Orderly
<1>1. /\ UNCHANGED <<docVars, gen, saveVars, rowVars, purged, task, accepted, failed>>
      /\ tombstone' = FALSE
  BY DEF TombstoneExpires
<1>2. NoPurgeYet' /\ InOrder' /\ SeenBefore' /\ QuietSinceSeen'
  BY <1>1 DEF NoPurgeYet, InOrder, First, Outstanding, SeenBefore, QuietSinceSeen, docVars, saveVars
<1> QED
  BY <1>1, <1>2
     DEF OnlyOfDocument, LoadIsCurrent, LiveDocumentComplete, ReleasedIsStored,
         UnsavedIsScheduled, Queued, docVars, saveVars, rowVars

-----------------------------------------------------------------------------
(* The invariant is inductive.                                             *)

\* Numbers stay numbers of queued writes, before and after a purge.
LEMMA NumberedStep == TypeOK /\ Numbered /\ Next => Numbered'
<1> SUFFICES ASSUME TypeOK, Numbered, Next PROVE Numbered'
    OBVIOUS
<1>1. CASE UNCHANGED <<writes, ticket, task>>
  BY <1>1 DEF Numbered
<1>2. ASSUME NEW r \in Revisions, MirrorSnapshot(r) PROVE Numbered'
  <2>1. task' = task
    BY <1>2 DEF MirrorSnapshot
  <2>2. CASE UNCHANGED saveVars
    BY <2>1, <2>2 DEF saveVars, Numbered
  <2>3. CASE Enqueue(doc')
    BY <2>1, <2>3, EnqueueNumbered, NumbersAreNat DEF Numbered
  <2> QED BY <1>2, <2>2, <2>3 DEF MirrorSnapshot
<1>3. CASE DebounceFires
  <2>1. task' = task
    BY <1>3 DEF DebounceFires
  <2>2. CASE UNCHANGED <<writes, ticket, chain>>
    BY <2>1, <2>2 DEF Numbered
  <2>3. CASE Enqueue(pending)
    BY <2>1, <2>3, EnqueueNumbered, NumbersAreNat DEF Numbered
  <2> QED BY <1>3, <2>2, <2>3 DEF DebounceFires
<1>4. ASSUME NEW w \in writes, StartWrite(w) PROVE Numbered'
  <2> DEFINE sentW == [w EXCEPT !.sent = TRUE]
  <2>1. sentW.n = w.n
    BY DEF TypeOK, WriteTypes, Writes
  <2>2. writes' \subseteq (writes \ {w}) \cup {sentW} /\ UNCHANGED <<ticket, task>>
    BY <1>4 DEF StartWrite
  <2> HIDE DEF sentW
  <2> QED BY <2>1, <2>2 DEF Numbered
<1>5. ASSUME NEW w \in writes, WriteCommits(w) \/ WriteFails(w) PROVE Numbered'
  BY <1>5 DEF WriteCommits, WriteFails, Numbered
<1>6. ASSUME NEW t \in Tasks, StartRelease(t) PROVE Numbered'
  <2> DEFINE awaited == IF pending = {} THEN Tail ELSE ticket + 1
  <2>1. /\ task'[t].await = awaited
        /\ \A s \in Tasks : s # t => task'[s] = task[s]
    BY <1>6 DEF StartRelease, Call, TypeOK, CallTypes
  <2>2. CASE pending = {}
    BY <1>6, <2>1, <2>2, NumbersAreNat DEF StartRelease, Tail, Numbered
  <2>3. CASE pending # {}
    <3>1. Enqueue(pending) /\ awaited = ticket + 1
      BY <1>6, <2>3 DEF StartRelease
    <3> QED BY <2>1, <3>1, EnqueueNumbered, NumbersAreNat DEF Numbered
  <2> QED BY <2>2, <2>3
<1>7. ASSUME NEW t \in Tasks,
             \/ FinishRelease(t)
             \/ StartPurge(t)
             \/ FinishPurge(t)
             \/ DeleteRow(t)
             \/ DeleteRowFails(t)
      PROVE  Numbered'
  <2>1. UNCHANGED <<writes, ticket>>
    BY <1>7 DEF FinishRelease, StartPurge, FinishPurge, DeleteRow, DeleteRowFails,
                DeleteDocument, saveVars
  <2>2. /\ task'[t].await \in {0, Tail}
        /\ \A s \in Tasks : s # t => task'[s] = task[s]
    BY <1>7 DEF FinishRelease, StartPurge, FinishPurge, DeleteRow, DeleteRowFails,
                Call, NoCall, TypeOK, CallTypes
  <2> QED BY <2>1, <2>2, NumbersAreNat DEF Tail, Numbered
<1>8. CASE Crash
  BY <1>8, NumbersAreNat DEF Crash, NoCall, Call, Numbered
<1>9. CASE ReadDocument \/ \E c \in Changes : Request(c)
  BY <1>1, <1>9 DEF ReadDocument, Request, saveVars
<1>10. CASE LoadReads \/ LoadDone \/ LoadFails
  BY <1>1, <1>10 DEF LoadReads, LoadDone, LoadFails, saveVars
<1>11. CASE \E u \in Edits : ApplyUpdate(u)
  BY <1>1, <1>11 DEF ApplyUpdate
<1>12. CASE \E p \in Purgers : TombstoneExpires(p)
  BY <1>1, <1>12 DEF TombstoneExpires, saveVars
<1> QED
  BY <1>2, <1>3, <1>4, <1>5, <1>6, <1>7, <1>8, <1>9, <1>10, <1>11, <1>12
     DEF Next, Resume, Event, Tasks

\* A document is loaded or being loaded, never both.
LEMMA LoadStep ==
  ASSUME TypeOK, loading # "no" => ~loaded, ~loaded => doc = {}, Next
  PROVE  (loading' # "no" => ~loaded') /\ (~loaded' => doc' = {})
<1>1. CASE UNCHANGED <<loaded, doc, loading>>
  BY <1>1
<1>2. CASE ReadDocument \/ \E c \in Changes : Request(c)
  BY <1>2 DEF ReadDocument, Request, GetDocument
<1>3. CASE LoadReads \/ LoadDone \/ LoadFails
  BY <1>3 DEF LoadReads, LoadDone, LoadFails
<1>4. CASE (\E u \in Edits : ApplyUpdate(u)) \/ (\E r \in Revisions : MirrorSnapshot(r))
  <2>1. loaded /\ UNCHANGED <<loaded, loading>>
    BY <1>4 DEF ApplyUpdate, MirrorSnapshot
  <2> QED BY <2>1
<1>5. CASE \E t \in Tasks : FinishRelease(t) \/ FinishPurge(t)
  BY <1>5 DEF FinishRelease, FinishPurge, DeleteDocument, docVars
<1>6. CASE Crash
  BY <1>6 DEF Crash
<1>7. CASE DebounceFires \/ \E w \in writes : StartWrite(w) \/ WriteCommits(w) \/ WriteFails(w)
  BY <1>7 DEF DebounceFires, StartWrite, WriteCommits, WriteFails, docVars
<1>8. CASE \E t \in Tasks : \/ StartRelease(t) \/ StartPurge(t)
                           \/ DeleteRow(t) \/ DeleteRowFails(t) \/ TombstoneExpires(t)
  BY <1>8 DEF StartRelease, StartPurge, DeleteRow, DeleteRowFails, TombstoneExpires, docVars
<1> QED
  BY <1>2, <1>3, <1>4, <1>5, <1>6, <1>7, <1>8 DEF Next, Resume, Event, Tasks

\* A purge that is past its release has begun.
LEMMA OrderlyStep ==
  ASSUME IInv, Next, ~purged'
  PROVE  Orderly'
<1>1. CASE Crash
  BY <1>1, CrashOrderly
<1>2. CASE ~Crash
  <2>1. ~purged
    BY <1>2
       DEF Next, Resume, Event, ApplyUpdate, MirrorSnapshot, StartWrite, FinishRelease, StartPurge,
           FinishPurge, ReadDocument, Request, LoadReads, LoadDone, LoadFails, DebounceFires,
           WriteCommits, WriteFails, StartRelease, DeleteRow, DeleteRowFails, TombstoneExpires,
           purgeVars
  <2>2. \A p \in Purgers : ~StartPurge(p)
    BY DEF StartPurge
  <2>3. \A p \in Purgers : ~FinishPurge(p) /\ ~DeleteRow(p) /\ ~DeleteRowFails(p)
    BY <2>1 DEF IInv, Orderly, NoPurgeYet, FinishPurge, DeleteRow, DeleteRowFails, Tasks
  <2> QED
    BY <1>2, <2>1, <2>2, <2>3, AccessOrderly, LoadOrderly, ApplyOrderly, MirrorOrderly,
       DebounceOrderly, StartWriteOrderly, SettleOrderly, StartReleaseOrderly,
       FinishReleaseOrderly, ExpiryOrderly
       DEF Next, Resume, Event
<1> QED BY <1>1, <1>2

LEMMA IInvInit == Init => IInv
<1> SUFFICES ASSUME Init PROVE IInv
    OBVIOUS
<1>1. \A t \in Tasks : task[t].at = "idle" /\ task[t].await = 0
  BY DEF Init, NoCall, Call
<1>2. Numbered /\ NoPurgeYet /\ InOrder /\ SeenBefore /\ QuietSinceSeen
  BY <1>1 DEF Init, Numbered, NoPurgeYet, InOrder, SeenBefore, QuietSinceSeen
<1>3. OnlyOfDocument /\ LoadIsCurrent /\ LiveDocumentComplete /\ ReleasedIsStored /\ UnsavedIsScheduled
  BY DEF Init, OnlyOfDocument, LoadIsCurrent, LiveDocumentComplete, ReleasedIsStored, UnsavedIsScheduled
<1> QED
  BY <1>2, <1>3, TypeInit DEF IInv, Orderly, Init

LEMMA IInvStep == IInv /\ [Next]_vars => IInv'
<1> SUFFICES ASSUME IInv, [Next]_vars PROVE IInv'
    OBVIOUS
<1>1. CASE Next
  <2>1. TypeOK' /\ Numbered'
    BY <1>1, TypeStep, NumberedStep DEF IInv
  <2>2. (loading' # "no" => ~loaded') /\ (~loaded' => doc' = {})
    BY <1>1, LoadStep DEF IInv
  <2> QED BY <1>1, <2>1, <2>2, OrderlyStep DEF IInv
<1>2. CASE UNCHANGED vars
  BY <1>2
     DEF vars, IInv, TypeOK, DocumentTypes, WriteTypes, CallTypes, RowTypes, Orderly, Numbered,
         NoPurgeYet, InOrder, First, Outstanding, SeenBefore, QuietSinceSeen, OnlyOfDocument,
         LoadIsCurrent, LiveDocumentComplete, ReleasedIsStored, UnsavedIsScheduled, Queued,
         docVars, saveVars, rowVars, purgeVars, countVars
<1> QED BY <1>1, <1>2

LEMMA Inductive == Spec => []IInv
  BY IInvInit, IInvStep, PTL DEF Spec

\* LiveDocumentComplete: whoever reads the live document, after any number of
\* releases and reloads, sees every accepted change whose write did not fail.
THEOREM LiveDocumentIsComplete == Spec => []LiveDocumentComplete
<1>1. IInv => LiveDocumentComplete
  BY DEF IInv, Orderly, LiveDocumentComplete
<1> QED BY <1>1, Inductive, PTL

\* ReleasedIsStored: the document leaves memory only after the row holds it.
THEOREM ReleasedDocumentIsStored == Spec => []ReleasedIsStored
<1>1. IInv => ReleasedIsStored
  BY DEF IInv, Orderly, ReleasedIsStored
<1> QED BY <1>1, Inductive, PTL

\* UnsavedIsScheduled: what the row lacks has a write coming.
THEOREM UnsavedChangesAreScheduled == Spec => []UnsavedIsScheduled
<1>1. IInv => UnsavedIsScheduled
  BY DEF IInv, Orderly, UnsavedIsScheduled
<1> QED BY <1>1, Inductive, PTL

-----------------------------------------------------------------------------
(* Purges.  Outside the minute after a purge's last write the queue is in  *)
(* order, whether or not a purge has ever begun; within it nothing is sent.*)

Orders == InOrder /\ SeenBefore /\ QuietSinceSeen

\* An access, a load or a change of the document.
LEMMA OrdersDocument ==
  ASSUME TypeOK, Numbered, Orders,
         \/ ReadDocument \/ LoadReads \/ LoadDone \/ LoadFails
         \/ \E c \in Changes : Request(c)
         \/ \E u \in Edits : ApplyUpdate(u)
         \/ \E r \in Revisions : MirrorSnapshot(r)
  PROVE  Orders'
<1> USE DEF Orders
<1>1. task' = task /\ \A t \in Tasks : task[t].at = "releasing" => task[t].seen <= gen
  BY DEF ReadDocument, LoadReads, LoadDone, LoadFails, Request, ApplyUpdate, MirrorSnapshot,
         Settled, Resumes, SeenBefore
<1>2. CASE gen' = gen + 1 /\ UNCHANGED <<writes, ticket, chain>>
  BY <1>1, <1>2, NumbersAreNat DEF InOrder, First, Outstanding, SeenBefore, QuietSinceSeen
<1>3. CASE gen' = gen /\ UNCHANGED <<pending, writes, ticket, chain>>
  BY <1>1, <1>3 DEF InOrder, First, Outstanding, SeenBefore, QuietSinceSeen
<1>4. ASSUME NEW state, gen' = gen + 1, Enqueue(state) PROVE Orders'
  <2>1. InOrder'
    BY <1>4, EnqueueInOrder
  <2>2. SeenBefore' /\ QuietSinceSeen'
    BY <1>1, <1>4, NumbersAreNat DEF SeenBefore, QuietSinceSeen
  <2> QED BY <2>1, <2>2
<1>5. CASE ReadDocument \/ \E c \in Changes : Request(c)
  BY <1>2, <1>5 DEF ReadDocument, Request, GetDocument, saveVars
<1>6. CASE LoadReads \/ LoadDone \/ LoadFails
  BY <1>3, <1>6 DEF LoadReads, LoadDone, LoadFails, saveVars
<1>7. CASE \E u \in Edits : ApplyUpdate(u)
  BY <1>2, <1>3, <1>7 DEF ApplyUpdate
<1>8. CASE \E r \in Revisions : MirrorSnapshot(r)
  BY <1>3, <1>4, <1>8 DEF MirrorSnapshot, saveVars
<1> QED BY <1>5, <1>6, <1>7, <1>8

\* A write is queued by the timer, taken up, sent or dropped, or settles.
LEMMA OrdersWrite ==
  ASSUME TypeOK, Numbered, Orders,
         DebounceFires \/ \E w \in writes : StartWrite(w) \/ WriteCommits(w) \/ WriteFails(w)
  PROVE  Orders'
<1> USE DEF Orders
<1>1. CASE DebounceFires
  <2>1. /\ UNCHANGED <<loaded, gen, task>> /\ pending' = {}
        /\ \A t \in Tasks : task[t].at = "releasing" => task[t].seen <= gen
    BY <1>1 DEF DebounceFires, Settled, Resumes, SeenBefore, docVars
  <2>2. CASE pending = {}
    BY <1>1, <2>1, <2>2
       DEF DebounceFires, InOrder, First, Outstanding, SeenBefore, QuietSinceSeen
  <2>3. CASE pending # {}
    <3>1. InOrder'
      BY <1>1, <2>3, EnqueueInOrder DEF DebounceFires
    <3>2. \A t \in Tasks : task[t].at = "releasing" => task[t].seen # gen
      BY <2>3 DEF QuietSinceSeen
    <3> QED BY <2>1, <3>1, <3>2 DEF SeenBefore, QuietSinceSeen
  <2> QED BY <2>2, <2>3
<1>2. ASSUME NEW w \in writes, First(w), writes' = writes \ {w},
             UNCHANGED <<loaded, gen, pending, ticket, chain, task>>
      PROVE  Orders'
  <2>1. InOrder'
    BY <1>2, RemoveInOrder
  <2> QED BY <1>2, <2>1 DEF SeenBefore, QuietSinceSeen, Outstanding
<1>3. ASSUME NEW w \in writes, WriteCommits(w) \/ WriteFails(w) PROVE Orders'
  <2>1. First(w) /\ writes' = writes \ {w} /\ UNCHANGED <<loaded, gen, pending, ticket, chain, task>>
    BY <1>3 DEF WriteCommits, WriteFails, InOrder, docVars
  <2> QED BY <1>2, <2>1
<1>4. ASSUME NEW w \in writes, StartWrite(w) PROVE Orders'
  <2> DEFINE sentW == [w EXCEPT !.sent = TRUE]
  <2>1. First(w) /\ UNCHANGED <<loaded, gen, pending, ticket, chain, task>>
    BY <1>4 DEF StartWrite, docVars
  <2>2. CASE tombstone
    BY <1>2, <1>4, <2>1, <2>2 DEF StartWrite
  <2>3. CASE ~tombstone
    <3>1. writes' = (writes \ {w}) \cup {sentW}
      BY <1>4, <2>3 DEF StartWrite
    <3>2. sentW.n = w.n /\ sentW.chain = w.chain
      BY DEF TypeOK, WriteTypes, Writes
    <3> HIDE DEF sentW
    <3>3. \A n : Outstanding(n)' <=> Outstanding(n)
      BY <3>1, <3>2 DEF Outstanding
    <3>4. First(sentW)' /\ \A v \in writes' : v.sent => First(v)'
      BY <2>1, <3>1, <3>2, NumbersAreNat DEF First, InOrder
    <3>5. InOrder'
      BY <2>1, <3>1, <3>2, <3>3, <3>4 DEF InOrder
    <3> QED BY <2>1, <3>1, <3>2, <3>3, <3>5 DEF SeenBefore, QuietSinceSeen
  <2> QED BY <2>2, <2>3
<1> QED BY <1>1, <1>3, <1>4

\* A release begins, or returns: it drops the document only when nothing is left to write.
LEMMA OrdersRelease ==
  ASSUME TypeOK, Numbered, Orders, NEW t \in Tasks, StartRelease(t) \/ FinishRelease(t)
  PROVE  Orders'
<1> USE DEF Orders
<1>1. CASE StartRelease(t)
  <2> DEFINE awaited == IF pending = {} THEN Tail ELSE ticket + 1
  <2>1. /\ pending' = {} /\ UNCHANGED <<loaded, gen>>
        /\ \A s \in Tasks : task[s].at = "releasing" => task[s].seen <= gen
    BY <1>1 DEF StartRelease, CancelScheduled, Settled, Resumes, SeenBefore, docVars
  <2>2. /\ task'[t].at = "releasing" /\ task'[t].seen = gen /\ task'[t].await = awaited
        /\ \A s \in Tasks : s # t => task'[s] = task[s]
    BY <1>1 DEF StartRelease, Call, TypeOK, CallTypes
  <2> HIDE DEF awaited
  <2>3. SeenBefore'
    BY <2>1, <2>2, NumbersAreNat DEF SeenBefore
  <2>4. CASE pending = {}
    <3>1. UNCHANGED <<writes, ticket, chain>> /\ awaited = Tail
      BY <1>1, <2>4 DEF StartRelease, awaited
    <3>2. \A w \in writes : w.n <= Tail
      BY DEF Tail, InOrder, Numbered
    <3> QED BY <2>1, <2>2, <2>3, <3>1, <3>2 DEF InOrder, First, Outstanding, QuietSinceSeen
  <2>5. CASE pending # {}
    <3>1. Enqueue(pending) /\ awaited = ticket + 1
      BY <1>1, <2>5 DEF StartRelease, awaited
    <3>2. InOrder' /\ \A w \in writes' : w.n <= ticket + 1
      BY <3>1, EnqueueInOrder, EnqueueNumbered
    <3> QED BY <2>1, <2>2, <2>3, <2>5, <3>1, <3>2 DEF QuietSinceSeen
  <2> QED BY <2>4, <2>5
<1>2. CASE FinishRelease(t)
  <2>1. task[t].at = "releasing" /\ ~Outstanding(task[t].await)
    BY <1>2 DEF FinishRelease, Resumes
  <2>2. task'[t].at # "releasing" /\ \A s \in Tasks : s # t => task'[s] = task[s]
    BY <1>2 DEF FinishRelease, Call, NoCall, TypeOK, CallTypes
  <2>3. CASE UsedSince(t)
    BY <1>2, <2>2, <2>3
       DEF FinishRelease, InOrder, First, Outstanding, SeenBefore, QuietSinceSeen, docVars, saveVars
  <2>4. CASE ~UsedSince(t)
    <3>1. task[t].seen = gen /\ DeleteDocument
      BY <1>2, <2>4 DEF UsedSince, FinishRelease
    <3>2. writes = {}
      BY <2>1, <3>1, QuietIsEmpty
    <3>3. loaded' = FALSE /\ pending' = {} /\ writes' = {}
      BY <3>1, <3>2 DEF DeleteDocument, CancelScheduled
    <3> QED BY <3>3 DEF InOrder, SeenBefore, QuietSinceSeen, Outstanding
  <2> QED BY <2>3, <2>4
<1> QED BY <1>1, <1>2

-----------------------------------------------------------------------------
(* A purge and the minute after it.                                        *)

\* At most one purge is within its minute, whichever call it is.
OnePurge == \A p, q \in expiries : p = q

\* A purge has waited for the writes sent before it, and its minute is not over.
Drained == \E p \in expiries : task[p].at # "draining"

PurgeInv ==
  /\ tombstone <=> expiries # {}
  /\ \A p \in Purgers : task[p].at \in {"draining", "deleting"} => p \in expiries
  /\ \A p \in expiries : task[p].at \in {"idle", "draining", "deleting"}
  /\ \A p \in Purgers : task[p].at = "draining" =>
       \A w \in writes : w.sent => w.n <= task[p].await
  /\ Drained => \A w \in writes : ~w.sent
  /\ ~Drained => Orders

\* Every nonempty set of numbers has a smallest one.
Less == OpToRel(<, Nat)

LEMMA LessIsWellFounded == IsWellFoundedOn(Less, Nat)
  BY NatLessThanWellFounded DEF Less

LEMMA Smallest ==
  ASSUME NEW T, T \subseteq Nat, T # {}
  PROVE  \E x \in T : \A y \in T : x <= y
<1>1. PICK x \in T : \A y \in T : ~(<<y, x>> \in Less)
  BY LessIsWellFounded, WFMin
<1>2. ASSUME NEW y \in T PROVE x <= y
  <2>1. <<y, x>> \in Less <=> <<y, x>> \in Nat \X Nat /\ y < x
    BY DEF Less, OpToRel
  <2>2. x \in Nat /\ y \in Nat
    OBVIOUS
  <2> QED BY <1>1, <2>1, <2>2
<1> QED BY <1>2

\* When no promise is due and nothing has been sent, nothing is queued.
LEMMA SettledIsSent ==
  ASSUME TypeOK, Settled, \A w \in writes : ~w.sent
  PROVE  writes = {}
<1> SUFFICES ASSUME NEW w \in writes PROVE FALSE
  OBVIOUS
<1> DEFINE T == {v.n : v \in {u \in writes : u.chain = w.chain}}
<1>1. T \subseteq Nat /\ T # {}
  BY NumbersAreNat
<1>2. PICK x \in T : \A y \in T : x <= y
  <2> HIDE DEF T
  <2> QED BY <1>1, Smallest
<1>3. PICK v \in writes : v.chain = w.chain /\ v.n = x
  OBVIOUS
<1>4. First(v)
  BY <1>2, <1>3 DEF First
<1> QED BY <1>4 DEF Settled

LEMMA PurgeInvInit == Init => PurgeInv
<1> SUFFICES ASSUME Init PROVE PurgeInv
  OBVIOUS
<1>1. \A t \in Tasks : task[t].at = "idle"
  BY DEF Init, NoCall, Call
<1> QED BY <1>1 DEF Init, PurgeInv, Drained, Orders, InOrder, SeenBefore, QuietSinceSeen, Tasks

\* Whatever is no step of a purge leaves it alone, and sends nothing once it has drained.
LEMMA PurgeAside ==
  ASSUME TypeOK, Numbered, PurgeInv, UNCHANGED <<tombstone, expiries>>,
         \A p \in Purgers : task[p].at \in {"draining", "deleting"} \/ p \in expiries => task'[p] = task[p],
         \A p \in Purgers : task'[p].at \in {"draining", "deleting"} => task[p].at = task'[p].at,
         \A w \in writes' : w.sent => w \in writes \/ ~tombstone,
         Orders => Orders'
  PROVE  PurgeInv'
<1>1. expiries \subseteq Purgers
  BY DEF TypeOK, CallTypes
<1>2. Drained' <=> Drained
  BY <1>1 DEF Drained
<1>3. ~Drained' => Orders'
  BY <1>2 DEF PurgeInv
<1>4. Drained' => \A w \in writes' : ~w.sent
  BY <1>2 DEF PurgeInv, Drained
<1>5. \A p \in Purgers : task'[p].at = "draining" => \A w \in writes' : w.sent => w.n <= task'[p].await
  BY DEF PurgeInv
<1>6. /\ tombstone' <=> expiries' # {}
      /\ \A p \in Purgers : task'[p].at \in {"draining", "deleting"} => p \in expiries'
      /\ \A p \in expiries' : task'[p].at \in {"idle", "draining", "deleting"}
  BY <1>1 DEF PurgeInv
<1> QED BY <1>3, <1>4, <1>5, <1>6 DEF PurgeInv

\* The steps of the purge itself.
LEMMA PurgeStep ==
  ASSUME OnePurge, OnePurge', TypeOK, Numbered, PurgeInv, NEW p \in Purgers,
         \/ StartPurge(p) \/ FinishPurge(p) \/ DeleteRow(p) \/ DeleteRowFails(p) \/ TombstoneExpires(p)
  PROVE  PurgeInv'
<1>1. /\ p \in Tasks /\ task \in [Tasks -> Calls] /\ Tail \in Nat /\ ticket \in Nat
      /\ expiries \subseteq Purgers /\ Purgers \subseteq Tasks
  BY NumbersAreNat DEF TypeOK, CallTypes, Tasks, Tail
<1>2. p \in expiries \/ expiries' = expiries \cup {p}
  BY DEF StartPurge, FinishPurge, DeleteRow, DeleteRowFails, TombstoneExpires, PurgeInv
<1>3. expiries \subseteq {p}
  BY <1>2 DEF OnePurge
<1>4. \A q \in Purgers \ {p} : task'[q] = task[q] /\ task[q].at \notin {"draining", "deleting"}
  <2>1. \A q \in Tasks \ {p} : task'[q] = task[q]
    BY <1>1 DEF StartPurge, FinishPurge, DeleteRow, DeleteRowFails, TombstoneExpires
  <2> QED BY <1>1, <1>3, <2>1 DEF PurgeInv
<1>5. CASE StartPurge(p)
  <2>1. task[p].at = "purge" /\ p \notin expiries /\ expiries = {} /\ ~Drained
    BY <1>1, <1>3, <1>4, <1>5 DEF StartPurge, PurgeInv, Drained
  <2>2. Orders /\ InOrder /\ SeenBefore /\ QuietSinceSeen
    BY <2>1 DEF PurgeInv, Orders
  <2>3. task' = [task EXCEPT ![p] = Call("draining", 0, Tail)]
    BY <1>5 DEF StartPurge
  <2>4. task'[p] = Call("draining", 0, Tail) /\ \A t \in Tasks : t # p => task'[t] = task[t]
    BY <1>1, <1>3, <1>4, <2>3
  <2>5. task'[p].at = "draining" /\ task'[p].await = Tail
    BY <2>4 DEF Call
  <2>6. UNCHANGED <<loaded, gen, writes, ticket, chain>> /\ pending' = {}
        /\ tombstone' = TRUE /\ expiries' = {p}
    BY <1>5, <2>1 DEF StartPurge, CancelScheduled, docVars
  <2>7. InOrder' /\ SeenBefore' /\ QuietSinceSeen'
    BY <2>2, <2>4, <2>5, <2>6 DEF InOrder, First, Outstanding, SeenBefore, QuietSinceSeen
  <2>8. \A w \in writes : w.n <= Tail
    BY <2>2 DEF Tail, InOrder, Numbered
  <2> QED BY <1>1, <1>3, <1>4, <2>5, <2>6, <2>7, <2>8 DEF PurgeInv, Drained, Orders
<1>6. CASE FinishPurge(p)
  <2>1. task[p].at = "draining" /\ ~Outstanding(task[p].await) /\ p \in expiries /\ expiries = {p}
    BY <1>1, <1>3, <1>4, <1>6 DEF FinishPurge, Resumes, PurgeInv
  <2>2. ~Drained /\ InOrder
    BY <2>1 DEF Drained, PurgeInv, Orders
  <2>3. ASSUME NEW w \in writes, w.sent PROVE FALSE
    <3>1. w.n <= task[p].await /\ task[p].await <= ticket
      BY <1>1, <1>3, <1>4, <2>1, <2>3 DEF PurgeInv, Numbered
    <3>2. task[p].await \in w.n .. ticket
      BY <1>1, <1>3, <1>4, <3>1, NumbersAreNat
    <3> QED BY <2>1, <2>2, <3>2 DEF InOrder
  <2>4. task' = [task EXCEPT ![p] = Call("deleting", 0, 0)]
    BY <1>6 DEF FinishPurge
  <2>5. task'[p].at = "deleting"
    BY <1>1, <1>3, <1>4, <2>4 DEF Call
  <2>6. UNCHANGED <<tombstone, expiries, writes>>
    BY <1>6 DEF FinishPurge, DeleteDocument, purgeVars
  <2>7. Drained' /\ tombstone
    BY <2>1, <2>5, <2>6 DEF Drained, PurgeInv
  <2> QED BY <1>1, <1>3, <1>4, <2>1, <2>3, <2>5, <2>6, <2>7 DEF PurgeInv
<1>7. CASE DeleteRow(p) \/ DeleteRowFails(p)
  <2>1. task[p].at = "deleting" /\ p \in expiries /\ expiries = {p} /\ tombstone
        /\ UNCHANGED <<tombstone, expiries, writes>>
    BY <1>1, <1>3, <1>4, <1>7 DEF DeleteRow, DeleteRowFails, PurgeInv, saveVars, purgeVars
  <2>2. Drained /\ \A w \in writes : ~w.sent
    BY <2>1 DEF Drained, PurgeInv
  <2>3. task' = [task EXCEPT ![p] = NoCall]
    BY <1>7 DEF DeleteRow, DeleteRowFails
  <2>4. task'[p].at = "idle"
    BY <1>1, <1>3, <1>4, <2>3 DEF NoCall, Call
  <2>5. Drained'
    BY <2>1, <2>4 DEF Drained
  <2> QED BY <1>1, <1>3, <1>4, <2>1, <2>2, <2>4, <2>5 DEF PurgeInv
<1>8. CASE TombstoneExpires(p)
  <2>1. Settled /\ p \in expiries /\ task[p].at = "idle" /\ expiries' = {} /\ tombstone' = FALSE
        /\ UNCHANGED <<writes, task>>
    BY <1>1, <1>3, <1>4, <1>8 DEF TombstoneExpires, saveVars
  <2>2. Drained /\ \A w \in writes : ~w.sent
    BY <2>1 DEF Drained, PurgeInv
  <2>3. writes = {}
    BY <2>1, <2>2, SettledIsSent
  <2>4. \A t \in Tasks : task[t].at # "releasing"
    BY <2>1, <2>3 DEF Settled, Resumes, Outstanding
  <2>5. InOrder' /\ SeenBefore' /\ QuietSinceSeen'
    BY <2>1, <2>3, <2>4 DEF InOrder, SeenBefore, QuietSinceSeen
  <2>6. ~Drained'
    BY <2>1 DEF Drained
  <2> QED BY <1>1, <1>3, <1>4, <2>1, <2>3, <2>5, <2>6 DEF PurgeInv, Orders
<1> QED BY <1>5, <1>6, <1>7, <1>8

\* A queued write is not sent yet.
LEMMA EnqueueUnsent ==
  ASSUME NEW state, Enqueue(state)
  PROVE  \A w \in writes' : w.sent => w \in writes
<1> DEFINE q == [n |-> ticket + 1, chain |-> chain', state |-> state, sent |-> FALSE]
<1>1. writes' = writes \cup {q}
  BY DEF Enqueue
<1>2. q.sent = FALSE
  OBVIOUS
<1> HIDE DEF q
<1> QED BY <1>1, <1>2

LEMMA PurgeInvStep ==
  TypeOK /\ Numbered /\ OnePurge /\ OnePurge' /\ PurgeInv /\ [Next]_vars => PurgeInv'
<1> SUFFICES ASSUME TypeOK, Numbered, OnePurge, OnePurge', PurgeInv, [Next]_vars PROVE PurgeInv'
  OBVIOUS
<1>1. CASE \/ ReadDocument \/ LoadReads \/ LoadDone \/ LoadFails
           \/ \E c \in Changes : Request(c)
           \/ \E u \in Edits : ApplyUpdate(u)
           \/ \E r \in Revisions : MirrorSnapshot(r)
  <2>1. UNCHANGED <<tombstone, expiries, task>>
    BY <1>1 DEF ReadDocument, LoadReads, LoadDone, LoadFails, Request, ApplyUpdate, MirrorSnapshot,
                purgeVars
  <2>2. \A w \in writes' : w.sent => w \in writes
    <3>1. ASSUME NEW r \in Revisions, MirrorSnapshot(r) PROVE \A w \in writes' : w.sent => w \in writes
      <4>1. UNCHANGED writes \/ Enqueue(doc')
        BY <3>1 DEF MirrorSnapshot, saveVars
      <4> QED BY <4>1, EnqueueUnsent
    <3>2. CASE \/ ReadDocument \/ LoadReads \/ LoadDone \/ LoadFails
               \/ \E c \in Changes : Request(c)
               \/ \E u \in Edits : ApplyUpdate(u)
      <4>1. UNCHANGED writes
        BY <3>2 DEF ReadDocument, LoadReads, LoadDone, LoadFails, Request, ApplyUpdate, saveVars
      <4> QED BY <4>1
    <3> QED BY <1>1, <3>1, <3>2
  <2>3. Orders => Orders'
    BY <1>1, OrdersDocument
  <2> QED BY <2>1, <2>2, <2>3, PurgeAside
<1>2. CASE DebounceFires \/ \E w \in writes : StartWrite(w) \/ WriteCommits(w) \/ WriteFails(w)
  <2>1. UNCHANGED <<tombstone, expiries, task>>
    BY <1>2 DEF DebounceFires, StartWrite, WriteCommits, WriteFails, purgeVars
  <2>2. \A w \in writes' : w.sent => w \in writes \/ ~tombstone
    BY <1>2 DEF DebounceFires, StartWrite, WriteCommits, WriteFails, Enqueue
  <2>3. Orders => Orders'
    BY <1>2, OrdersWrite
  <2> QED BY <2>1, <2>2, <2>3, PurgeAside
<1>3. ASSUME NEW t \in Tasks, StartRelease(t) \/ FinishRelease(t) PROVE PurgeInv'
  <2>1. UNCHANGED <<tombstone, expiries>> /\ \A s \in Tasks : s # t => task'[s] = task[s]
    BY <1>3 DEF StartRelease, FinishRelease, purgeVars, TypeOK, CallTypes
  <2>2. /\ task[t].at \in {"idle", "releasing"} /\ t \notin expiries
        /\ task'[t].at \in {"releasing", "purge", "idle"}
    BY <1>3 DEF StartRelease, FinishRelease, Call, NoCall, TypeOK, CallTypes, PurgeInv
  <2>3. \A w \in writes' : w.sent => w \in writes
    BY <1>3 DEF StartRelease, FinishRelease, saveVars, DeleteDocument, Enqueue
  <2>4. Orders => Orders'
    BY <1>3, OrdersRelease
  <2> QED BY <2>1, <2>2, <2>3, <2>4, PurgeAside DEF Tasks
<1>4. ASSUME NEW p \in Purgers, \/ StartPurge(p) \/ FinishPurge(p) \/ DeleteRow(p) \/ DeleteRowFails(p)
                                \/ TombstoneExpires(p)
      PROVE  PurgeInv'
  BY <1>4, PurgeStep
<1>5. CASE Crash
  <2>1. /\ tombstone' = FALSE /\ expiries' = {} /\ writes' = {}
        /\ \A t \in Tasks : task'[t].at = "idle"
    BY <1>5 DEF Crash, NoCall, Call
  <2> QED BY <2>1 DEF PurgeInv, Drained, Orders, InOrder, SeenBefore, QuietSinceSeen, Tasks
<1>6. CASE UNCHANGED vars
  <2>1. UNCHANGED <<tombstone, expiries, task, writes, loaded, gen, pending, ticket, chain>>
    BY <1>6 DEF vars, docVars, saveVars, purgeVars
  <2>2. Orders => Orders'
    BY <2>1 DEF Orders, InOrder, First, Outstanding, SeenBefore, QuietSinceSeen
  <2> QED BY <2>1, <2>2, PurgeAside
<1> QED BY <1>1, <1>2, <1>3, <1>4, <1>5, <1>6 DEF Next, Resume, Event

LEMMA PurgeInductive == Spec /\ []OnePurge => [](IInv /\ PurgeInv)
<1>1. IInv => TypeOK /\ Numbered
  BY DEF IInv
<1> QED BY <1>1, PurgeInvInit, PurgeInvStep, Inductive, PTL DEF Spec

\* PurgedRowStaysGone, as long as at most one purge is within its minute:
\* however updates, loads, releases, queued writes and failures interleave with
\* the purge, once its row is deleted no write creates it again within the
\* minute.  (With two at a time the timer of the first ends the second's minute.)
THEOREM PurgedRowsStayGone == Spec /\ []OnePurge => PurgedRowStaysGone
<1>1. IInv => TypeOK
  BY DEF IInv
<1>2. TypeOK /\ PurgeInv /\ [Next]_vars
        => [(/\ ~rowExists /\ expiries # {}
             /\ \A p \in Purgers : task[p].at = "idle")
            => ~rowExists']_vars
  <2> SUFFICES ASSUME TypeOK, PurgeInv, Next, ~rowExists, expiries # {},
                      \A p \in Purgers : task[p].at = "idle"
               PROVE  ~rowExists'
    OBVIOUS
  <2>1. \A w \in writes : ~w.sent
    BY DEF PurgeInv, Drained, TypeOK, CallTypes
  <2> QED
    BY <2>1
       DEF Next, Resume, Event, ApplyUpdate, MirrorSnapshot, StartWrite, FinishRelease, StartPurge,
           FinishPurge, ReadDocument, Request, LoadReads, LoadDone, LoadFails, DebounceFires,
           WriteCommits, WriteFails, StartRelease, DeleteRow, DeleteRowFails, TombstoneExpires,
           Crash, rowVars
<1> QED BY <1>1, <1>2, PurgeInductive, PTL DEF Spec, PurgedRowStaysGone

-----------------------------------------------------------------------------
(* YjsDocuments implements DocumentMemory: for any number of edits,        *)
(* releases, writes, failures, crashes and successive purges a release     *)
(* drops the document exactly when nobody used it in the meantime.         *)

(* The generation counter starts again with each document.                 *)

\* With a counter at 0 nothing has been scheduled or queued; a debounce timer has
\* a state to write; a release that saw 0 is about to return, and nobody whose
\* change is waiting can come between.  Once a purge has drained the queue, this
\* goes for every release.
Counted ==
  /\ gen = 0 => chain = 0 /\ pending = {}
  /\ timer => pending # {}
  /\ \A t \in Tasks :
       /\ task[t].at = "releasing" /\ task[t].seen = 0
            => gen = 0 /\ ~Outstanding(task[t].await) /\ (loaded => waiting = {})
       /\ task[t].at = "releasing" /\ Drained
            => pending = {} /\ (loaded => waiting = {})

\* At an event every release still awaits its write; so there is none once a
\* purge has drained the queue.
LEMMA ReleasesWait ==
  ASSUME Settled, NEW t \in Tasks, task[t].at = "releasing"
  PROVE  Outstanding(task[t].await)
  BY DEF Settled, Resumes

LEMMA NoneWaitsAfterwards ==
  ASSUME TypeOK, PurgeInv, Settled, Drained
  PROVE  writes = {} /\ \A t \in Tasks : task[t].at # "releasing"
<1>1. writes = {}
  BY SettledIsSent DEF PurgeInv
<1> QED BY <1>1, ReleasesWait DEF Outstanding

LEMMA CountedInit == Init => Counted
  BY DEF Init, Counted, NoCall, Call

\* The steps that count an access.
LEMMA CountedAccess ==
  ASSUME TypeOK, PurgeInv, Counted, ReadDocument \/ \E c \in Changes : Request(c)
  PROVE  Counted'
<1>1. gen \in Nat /\ gen' = gen + 1 /\ UNCHANGED <<saveVars, task, expiries>> /\ Settled
  BY NumbersAreNat DEF ReadDocument, Request, GetDocument, purgeVars
<1>2. gen' # 0 /\ Drained' = Drained
  BY <1>1 DEF Drained
<1>3. \A t \in Tasks : task[t].at = "releasing" => task[t].seen # 0 /\ ~Drained
  BY <1>1, ReleasesWait, NoneWaitsAfterwards DEF Counted
<1> QED BY <1>1, <1>2, <1>3 DEF Counted, saveVars

LEMMA CountedChange ==
  ASSUME TypeOK, Counted,
         \/ \E u \in Edits : ApplyUpdate(u)
         \/ \E r \in Revisions : MirrorSnapshot(r)
  PROVE  Counted'
<1>1. gen \in Nat /\ loaded /\ waiting # {} /\ UNCHANGED <<task, expiries>>
  BY NumbersAreNat DEF ApplyUpdate, MirrorSnapshot, purgeVars
<1>2. Drained' = Drained
  BY <1>1 DEF Drained
<1>3. \A t \in Tasks : task[t].at = "releasing" => task[t].seen # 0 /\ ~Drained
  BY <1>1 DEF Counted
<1>4. gen' = gen + 1 \/ UNCHANGED <<gen, pending, chain>>
  BY DEF ApplyUpdate, MirrorSnapshot, saveVars
<1>5. gen' = 0 => chain' = 0 /\ pending' = {}
  BY <1>1, <1>4 DEF Counted
<1>6. timer' => pending' # {}
  BY DEF Counted, ApplyUpdate, MirrorSnapshot, Schedule, CancelScheduled, saveVars
<1> QED BY <1>1, <1>2, <1>3, <1>5, <1>6 DEF Counted

\* Loads and writes.
LEMMA CountedEvent ==
  ASSUME TypeOK, PurgeInv, Counted,
         \/ LoadReads \/ LoadDone \/ LoadFails \/ DebounceFires
         \/ \E w \in writes : StartWrite(w) \/ WriteCommits(w) \/ WriteFails(w)
  PROVE  Counted'
<1>1. UNCHANGED <<gen, task, expiries>>
  BY DEF LoadReads, LoadDone, LoadFails, DebounceFires, StartWrite, WriteCommits, WriteFails, purgeVars
<1>2. Drained' = Drained
  BY <1>1 DEF Drained
<1>3. ASSUME Settled
      PROVE  \A t \in Tasks : task[t].at = "releasing" => task[t].seen # 0 /\ ~Drained
  BY <1>3, ReleasesWait, NoneWaitsAfterwards DEF Counted
<1>4. CASE LoadReads \/ LoadDone \/ LoadFails
  <2>1. Settled /\ UNCHANGED <<pending, timer, chain>>
    BY <1>4 DEF LoadReads, LoadDone, LoadFails, saveVars
  <2> QED BY <1>1, <1>2, <1>3, <2>1 DEF Counted
<1>5. CASE DebounceFires
  <2>1. Settled /\ timer /\ timer' = FALSE
    BY <1>5 DEF DebounceFires
  <2>2. gen # 0
    BY <2>1 DEF Counted
  <2> QED BY <1>1, <1>2, <1>3, <2>1, <2>2 DEF Counted
<1>6. ASSUME NEW w \in writes, StartWrite(w) \/ WriteCommits(w) \/ WriteFails(w) PROVE Counted'
  <2>1. UNCHANGED <<loaded, waiting, gen, pending, timer, chain, task>>
    BY <1>6 DEF StartWrite, WriteCommits, WriteFails, docVars
  <2>2. \A n : Outstanding(n)' => Outstanding(n)
    <3>1. [w EXCEPT !.sent = TRUE].n = w.n
      BY DEF TypeOK, WriteTypes, Writes
    <3> QED BY <1>6, <3>1 DEF StartWrite, WriteCommits, WriteFails, Outstanding
  <2> QED BY <1>2, <2>1, <2>2 DEF Counted
<1> QED BY <1>4, <1>5, <1>6

\* Nothing is queued in a chain that has not begun.
LEMMA NothingQueued ==
  ASSUME TypeOK, PurgeInv, Settled, chain = 0
  PROVE  writes = {}
  BY NoneWaitsAfterwards DEF PurgeInv, Orders, InOrder

\* Releases and crashes.
LEMMA CountedRelease ==
  ASSUME TypeOK, PurgeInv, Counted,
         Crash \/ \E t \in Tasks : StartRelease(t) \/ FinishRelease(t)
  PROVE  Counted'
<1> USE DEF Counted
<1>1. CASE Crash
  BY <1>1 DEF Crash, NoCall, Call
<1>2. ASSUME NEW t \in Tasks, StartRelease(t) PROVE Counted'
  <2>1. /\ Settled /\ UNCHANGED <<loaded, waiting, gen>> /\ ~timer' /\ pending' = {}
        /\ loaded => waiting = {}
    BY <1>2 DEF StartRelease, CancelScheduled, docVars, Settled
  <2>2. task \in [Tasks -> Calls]
    BY DEF TypeOK, CallTypes
  <2>3. \A r \in Tasks : r # t => task'[r] = task[r]
    BY <1>2, <2>2 DEF StartRelease
  <2>4. \A r \in Tasks : task[r].at = "releasing" => task[r].seen # 0
    BY <2>1, ReleasesWait
  <2>5. task'[t].seen = gen
    BY <1>2, <2>2 DEF StartRelease, Call
  <2>6. gen = 0 => chain' = 0 /\ ~Outstanding(task[t].await)'
    <3> SUFFICES ASSUME gen = 0 PROVE chain' = 0 /\ ~Outstanding(task[t].await)'
      OBVIOUS
    <3>1. chain = 0 /\ pending = {}
      OBVIOUS
    <3>2. writes = {}
      BY <2>1, <3>1, NothingQueued
    <3>3. UNCHANGED <<writes, chain>>
      BY <1>2, <3>1 DEF StartRelease
    <3> QED BY <3>1, <3>2, <3>3 DEF Outstanding
  <2> QED BY <2>1, <2>3, <2>4, <2>5, <2>6
<1>3. ASSUME NEW t \in Tasks, FinishRelease(t) PROVE Counted'
  <2>1. task \in [Tasks -> Calls] /\ expiries \subseteq Purgers
    BY DEF TypeOK, CallTypes
  <2>2. \A r \in Tasks : task'[r].at = "releasing" => task'[r] = task[r]
    BY <1>3, <2>1 DEF FinishRelease, NoCall, Call
  <2>3. t \notin expiries /\ UNCHANGED expiries /\ \A r \in Tasks : r # t => task'[r] = task[r]
    BY <1>3, <2>1 DEF FinishRelease, PurgeInv, purgeVars
  <2>4. Drained' = Drained
    BY <2>1, <2>3 DEF Drained, Tasks
  <2>5. CASE UsedSince(t)
    BY <1>3, <2>2, <2>4, <2>5 DEF FinishRelease, docVars, saveVars, Outstanding
  <2>6. CASE ~UsedSince(t)
    <3>1. /\ ~loaded' /\ chain' = 0 /\ pending' = {} /\ ~timer' /\ gen' = 0
          /\ writes' = writes
      BY <1>3, <2>6 DEF FinishRelease, DeleteDocument, CancelScheduled
    <3> QED BY <2>2, <3>1 DEF Outstanding
  <2> QED BY <2>5, <2>6
<1> QED BY <1>1, <1>2, <1>3

\* The steps of a purge.
LEMMA CountedPurge ==
  ASSUME TypeOK, PurgeInv, Counted, NEW p \in Purgers,
         \/ StartPurge(p) \/ FinishPurge(p) \/ DeleteRow(p) \/ DeleteRowFails(p) \/ TombstoneExpires(p)
  PROVE  Counted'
<1> USE DEF Counted
<1>1. p \in Tasks /\ task \in [Tasks -> Calls] /\ expiries \subseteq Purgers
  BY DEF TypeOK, CallTypes, Tasks
<1>2. \A t \in Tasks : task'[t].at = "releasing" => task'[t] = task[t]
  BY <1>1 DEF StartPurge, FinishPurge, DeleteRow, DeleteRowFails, TombstoneExpires, NoCall, Call
<1>3. CASE StartPurge(p)
  <2>1. /\ UNCHANGED <<loaded, waiting, gen, writes, chain>> /\ pending' = {} /\ ~timer'
        /\ task' = [task EXCEPT ![p] = Call("draining", 0, Tail)] /\ expiries' = expiries \cup {p}
    BY <1>3 DEF StartPurge, CancelScheduled, docVars
  <2>2. Drained' => Drained
    BY <1>1, <2>1 DEF Drained, Call
  <2> QED BY <1>2, <2>1, <2>2 DEF Outstanding
<1>4. CASE FinishPurge(p)
  <2>1. ~loaded' /\ gen' = 0 /\ chain' = 0 /\ pending' = {} /\ ~timer' /\ writes' = writes
    BY <1>4 DEF FinishPurge, DeleteDocument, CancelScheduled
  <2> QED BY <1>2, <2>1 DEF Outstanding
<1>5. CASE DeleteRow(p) \/ DeleteRowFails(p) \/ TombstoneExpires(p)
  <2>1. Settled /\ UNCHANGED <<loaded, waiting, gen, saveVars>> /\ p \in expiries
        /\ task[p].at # "draining"
    BY <1>5 DEF DeleteRow, DeleteRowFails, TombstoneExpires, PurgeInv, docVars
  <2>2. \A t \in Tasks : task[t].at # "releasing"
    BY <2>1, NoneWaitsAfterwards DEF Drained
  <2> QED BY <1>2, <2>1, <2>2 DEF saveVars
<1> QED BY <1>3, <1>4, <1>5

LEMMA CountedStep == TypeOK /\ PurgeInv /\ Counted /\ [Next]_vars => Counted'
<1>1. Counted /\ UNCHANGED vars => Counted'
  BY DEF Counted, Drained, vars, docVars, saveVars, purgeVars, Outstanding
<1> QED
  BY <1>1, CountedAccess, CountedChange, CountedEvent, CountedRelease, CountedPurge
     DEF Next, Resume, Event

-----------------------------------------------------------------------------
(* Each step is a step of DocumentMemory, or changes nothing of it.        *)

\* What DocumentMemory sees: the four variables of the refinement mapping.
Seen ==
  <<loaded, loading # "no", {t \in Tasks : task[t].at = "releasing"},
    {t \in Tasks : task[t].at = "releasing" /\ task[t].seen # gen}>>

\* A step that counts one access more makes it known to every release.
LEMMA AccessIsUse ==
  ASSUME TypeOK, gen' = gen + 1, UNCHANGED <<loaded, task>>,
         (loading' # "no") = (loading # "no" \/ ~loaded),
         \A t \in Tasks : task[t].at = "releasing" => task[t].seen <= gen
  PROVE  Memory!Use
<1>1. gen \in Nat /\ \A t \in Tasks : task[t].seen \in Nat
  BY NumbersAreNat
<1>2. \A t \in Tasks : task[t].at = "releasing" => task[t].seen # gen + 1
  BY <1>1
<1> QED BY <1>2 DEF Memory!Use

LEMMA AccessStep ==
  ASSUME IInv, PurgeInv, ReadDocument \/ \E c \in Changes : Request(c)
  PROVE  Memory!Use
<1>1. /\ Settled /\ gen' = gen + 1 /\ UNCHANGED <<loaded, task>>
      /\ (loading' # "no") = (loading # "no" \/ ~loaded)
  BY DEF IInv, ReadDocument, Request, GetDocument
<1>2. \A t \in Tasks : task[t].at = "releasing" => task[t].seen <= gen
  BY <1>1, ReleasesWait, NoneWaitsAfterwards DEF IInv, PurgeInv, Orders, SeenBefore
<1> QED BY <1>1, <1>2, AccessIsUse DEF IInv

LEMMA ChangeStep ==
  ASSUME IInv, PurgeInv, Counted,
         \/ \E u \in Edits : ApplyUpdate(u)
         \/ \E r \in Revisions : MirrorSnapshot(r)
  PROVE  Memory!Use \/ UNCHANGED Seen
<1>1. loaded /\ waiting # {} /\ UNCHANGED <<loaded, loading, task>> /\ (gen' = gen \/ gen' = gen + 1)
  BY DEF ApplyUpdate, MirrorSnapshot
<1>2. \A t \in Tasks : task[t].at = "releasing" => task[t].seen <= gen
  BY <1>1 DEF Counted, PurgeInv, Orders, SeenBefore
<1>3. CASE gen' = gen
  BY <1>1, <1>3 DEF Seen
<1>4. CASE gen' = gen + 1
  BY <1>1, <1>2, <1>4, AccessIsUse DEF IInv
<1> QED BY <1>1, <1>3, <1>4

LEMMA LoadStepIsMemory ==
  ASSUME IInv, LoadReads \/ LoadDone \/ LoadFails
  PROVE  Memory!LoadDone \/ Memory!LoadFails \/ UNCHANGED Seen
  BY DEF LoadReads, LoadDone, LoadFails, Memory!LoadDone, Memory!LoadFails, Seen

\* A debounce timer and the writes change nothing of it.
LEMMA QuietStep ==
  ASSUME \/ DebounceFires
         \/ \E w \in writes : StartWrite(w) \/ WriteCommits(w) \/ WriteFails(w)
         \/ UNCHANGED vars
  PROVE  UNCHANGED Seen
  BY DEF DebounceFires, StartWrite, WriteCommits, WriteFails, Seen, vars, docVars

LEMMA StartReleaseIsMemory ==
  ASSUME IInv, NEW t \in Tasks, StartRelease(t)
  PROVE  Memory!StartRelease(t)
<1>1. task \in [Tasks -> Calls]
  BY DEF IInv, TypeOK, CallTypes
<1>2. task[t].at = "idle" /\ UNCHANGED <<loaded, loading, gen>>
  BY DEF StartRelease, docVars
<1>3. task'[t].at = "releasing" /\ task'[t].seen = gen
  BY <1>1 DEF StartRelease, Call
<1>4. \A r \in Tasks : r # t => task'[r] = task[r]
  BY <1>1 DEF StartRelease
<1> QED BY <1>2, <1>3, <1>4 DEF Memory!StartRelease

\* Another document counts from 0, which no release has seen that has seen an access.
LEMMA DroppedIsForgotten ==
  ASSUME Counted, gen' = 0,
         \A r \in Tasks : task'[r].at = "releasing" => task'[r] = task[r]
  PROVE  Memory!Forget
<1> DEFINE used2 == {r \in Tasks : task'[r].at = "releasing" /\ task'[r].seen # gen'}
<1>1. \A r \in Tasks :
        task[r].at = "releasing" /\ task[r].seen # gen => task[r].seen # 0
  BY DEF Counted
<1>2. used2 \subseteq {r \in Tasks : task'[r].at = "releasing"}
  OBVIOUS
<1>3. {r \in Tasks : task[r].at = "releasing" /\ task[r].seen # gen}
         \cap {r \in Tasks : task'[r].at = "releasing"} \subseteq used2
  BY <1>1
<1> QED BY <1>2, <1>3 DEF Memory!Forget

\* A release ends: UsedSince is exactly what DocumentMemory asks.
LEMMA FinishReleaseIsMemory ==
  ASSUME IInv, PurgeInv, Counted, NEW t \in Tasks, FinishRelease(t)
  PROVE  Memory!Drop(t) \/ Memory!Keep(t)
<1>1. task \in [Tasks -> Calls]
  BY DEF IInv, TypeOK, CallTypes
<1>2. task[t].at = "releasing" /\ task'[t].at # "releasing"
  BY <1>1 DEF FinishRelease, NoCall, Call
<1>3. \A r \in Tasks : r # t => task'[r] = task[r]
  BY <1>1 DEF FinishRelease
<1>4. CASE UsedSince(t)
  <2>1. task[t].seen # gen \/ loading # "no"
    BY <1>2, <1>4 DEF UsedSince, Counted, PurgeInv, Orders, QuietSinceSeen
  <2>2. UNCHANGED <<loaded, loading, gen>>
    BY <1>4 DEF FinishRelease, docVars
  <2> QED BY <1>2, <1>3, <2>1, <2>2 DEF Memory!Keep
<1>5. CASE ~UsedSince(t)
  <2>1. /\ task[t].seen = gen /\ loading = "no" /\ UNCHANGED loading
        /\ loaded' = FALSE /\ gen' = 0
    BY <1>5 DEF FinishRelease, UsedSince, DeleteDocument
  <2>2. {r \in Tasks : task'[r].at = "releasing"} = {r \in Tasks : task[r].at = "releasing"} \ {t}
    BY <1>2, <1>3
  <2>3. Memory!Forget
    BY <1>2, <1>3, <2>1, DroppedIsForgotten
  <2> QED BY <1>2, <2>1, <2>2, <2>3 DEF Memory!Drop
<1> QED BY <1>4, <1>5

\* A purge discards the document when it has drained the queue.
LEMMA PurgeIsMemory ==
  ASSUME IInv, Counted, NEW p \in Purgers,
         \/ StartPurge(p) \/ FinishPurge(p) \/ DeleteRow(p) \/ DeleteRowFails(p) \/ TombstoneExpires(p)
  PROVE  Memory!Discard \/ UNCHANGED Seen
<1>1. p \in Tasks /\ task \in [Tasks -> Calls]
  BY DEF IInv, TypeOK, CallTypes, Tasks
<1>2. \A t \in Tasks : /\ task[t].at = "releasing" <=> task'[t].at = "releasing"
                       /\ task[t].at = "releasing" => task'[t] = task[t]
  BY <1>1 DEF StartPurge, FinishPurge, DeleteRow, DeleteRowFails, TombstoneExpires, NoCall, Call
<1>3. CASE StartPurge(p) \/ DeleteRow(p) \/ DeleteRowFails(p) \/ TombstoneExpires(p)
  <2>1. UNCHANGED <<loaded, loading, gen>>
    BY <1>3 DEF StartPurge, DeleteRow, DeleteRowFails, TombstoneExpires, docVars
  <2> QED BY <1>2, <2>1 DEF Seen
<1>4. CASE FinishPurge(p)
  <2>1. loaded' = FALSE /\ gen' = 0 /\ UNCHANGED loading
    BY <1>4 DEF FinishPurge, DeleteDocument
  <2>2. Memory!Forget
    BY <1>2, <2>1, DroppedIsForgotten
  <2> QED BY <1>2, <2>1, <2>2 DEF Memory!Discard
<1> QED BY <1>3, <1>4

LEMMA CrashIsMemory ==
  ASSUME Crash
  PROVE  Memory!Restart
  BY DEF Crash, NoCall, Call, Memory!Restart

LEMMA InitIsMemory == Init => Memory!Init
  BY DEF Init, NoCall, Call, Memory!Init

LEMMA StepIsMemory == IInv /\ PurgeInv /\ Counted /\ [Next]_vars => [Memory!Next]_(Memory!vars)
<1> SUFFICES ASSUME IInv, PurgeInv, Counted, [Next]_vars
             PROVE  Memory!Next \/ UNCHANGED Seen
    BY DEF Memory!vars, Seen
<1>1. CASE \E t \in Tasks : StartRelease(t) \/ FinishRelease(t)
  BY <1>1, StartReleaseIsMemory, FinishReleaseIsMemory DEF Memory!Next
<1>2. CASE Crash
  BY <1>2, CrashIsMemory DEF Memory!Next
<1> QED
  BY <1>1, <1>2, PurgeIsMemory, AccessStep, ChangeStep, LoadStepIsMemory, QuietStep
     DEF Next, Resume, Event, Memory!Next

\* ImplementsMemory: in every behaviour in which at most one purge at a time is
\* within its minute, what others see of the registry is a behaviour of
\* DocumentMemory, on which SessionRoom is built.
THEOREM RegistryImplementsMemory == Spec /\ []OnePurge => ImplementsMemory
<1>1. IInv => TypeOK
  BY DEF IInv
<1>2. Spec /\ []OnePurge => []Counted
  BY <1>1, CountedInit, CountedStep, PurgeInductive, PTL DEF Spec
<1> QED
  BY <1>2, InitIsMemory, StepIsMemory, PurgeInductive, PTL DEF Spec, ImplementsMemory, Memory!Spec

-----------------------------------------------------------------------------
(* Nothing is left behind: what the fair runs see happen is, in every      *)
(* reachable state and whatever purges and crashes there were, under way.  *)

\* Who awaits the document has it or a load of it; what is to be persisted has a timer.
Served ==
  /\ waiting # {} => loaded \/ loading # "no"
  /\ pending # {} => timer

\* Only what changes the calls, the queue or who awaits the document could let a
\* release or purge go before a handler.
LEMMA HandlersStayFirst ==
  ASSUME HandlersGoFirst, loaded' => loaded, waiting' \subseteq waiting,
         UNCHANGED <<writes, task>>
  PROVE  HandlersGoFirst'
<1>1. waiting' # {} => waiting # {}
  OBVIOUS
<1> QED BY <1>1 DEF HandlersGoFirst, Resumes, Outstanding, First

\* An event finds no release or purge due; those that queue a write or begin a
\* release find no handler due either.
LEMMA EventHandlers ==
  ASSUME Event
  PROVE  HandlersGoFirst'
<1>1. CASE \/ ReadDocument \/ (\E c \in Changes : Request(c))
           \/ LoadReads \/ LoadDone \/ LoadFails
  <2>1. Settled /\ UNCHANGED <<writes, task>>
    BY <1>1 DEF ReadDocument, Request, LoadReads, LoadDone, LoadFails, saveVars
  <2> QED BY <2>1 DEF HandlersGoFirst, Settled, Resumes, Outstanding, First
<1>2. CASE \/ DebounceFires \/ (\E w \in writes : WriteCommits(w) \/ WriteFails(w))
           \/ (\E t \in Tasks : StartRelease(t))
           \/ (\E p \in Purgers : DeleteRow(p) \/ DeleteRowFails(p) \/ TombstoneExpires(p))
  <2>1. Settled /\ UNCHANGED <<loaded, waiting>>
    BY <1>2 DEF DebounceFires, WriteCommits, WriteFails, StartRelease, DeleteRow, DeleteRowFails,
                TombstoneExpires, docVars
  <2> QED BY <2>1 DEF HandlersGoFirst, Settled
<1>3. CASE Crash
  BY <1>3 DEF Crash, HandlersGoFirst
<1> QED BY <1>1, <1>2, <1>3 DEF Event

\* A mirrored snapshot's write comes after every write a release or purge awaits.
LEMMA MirrorHandlers ==
  ASSUME TypeOK, Numbered, HandlersGoFirst, NEW r \in Revisions, MirrorSnapshot(r)
  PROVE  HandlersGoFirst'
<1>1. /\ loaded /\ waiting # {} /\ UNCHANGED <<loaded, task>>
      /\ waiting' \subseteq waiting
  BY DEF MirrorSnapshot
<1>2. CASE UNCHANGED saveVars
  BY <1>1, <1>2, HandlersStayFirst DEF saveVars
<1>3. CASE Enqueue(doc')
  <2> DEFINE new == [n |-> ticket + 1, chain |-> chain', state |-> doc', sent |-> FALSE]
  <2>1. writes' = writes \cup {new} /\ new.n = ticket + 1
    BY <1>3 DEF Enqueue
  <2> HIDE DEF new
  <2>2. \A t \in Tasks : ~Resumes(t)'
    BY <1>1, <2>1 DEF HandlersGoFirst, Resumes, Outstanding
  <2>3. ASSUME NEW t \in Tasks, task[t].at \in {"releasing", "draining"},
               NEW w \in writes', ~w.sent, First(w)'
        PROVE  task[t].await < w.n
    <3>1. CASE w \in writes
      <4>1. First(w)
        BY <2>1, <2>3 DEF First
      <4> QED BY <1>1, <2>3, <3>1, <4>1 DEF HandlersGoFirst
    <3>2. CASE w = new
      BY <2>1, <3>2, NumbersAreNat DEF Numbered
    <3> QED BY <2>1, <3>1, <3>2
  <2> QED BY <1>1, <2>2, <2>3 DEF HandlersGoFirst
<1> QED BY <1>2, <1>3 DEF MirrorSnapshot

\* A write's turn comes before that of a write which a call awaits, so that a write
\* dropped for a purge ends nobody's wait.
LEMMA StartWriteHandlers ==
  ASSUME TypeOK, Numbered, HandlersGoFirst, NEW w \in writes, StartWrite(w)
  PROVE  HandlersGoFirst'
<1> DEFINE sentW == [w EXCEPT !.sent = TRUE]
<1>1. sentW.n = w.n /\ sentW.chain = w.chain /\ sentW.sent
  BY DEF TypeOK, WriteTypes, Writes
<1>2. /\ ~w.sent /\ First(w) /\ UNCHANGED <<loaded, waiting, task>>
      /\ writes' = (writes \ {w}) \cup (IF tombstone THEN {} ELSE {sentW})
  BY DEF StartWrite, docVars
<1> HIDE DEF sentW
<1> SUFFICES ASSUME loaded, waiting # {}, NEW t \in Tasks
             PROVE  /\ ~Resumes(t)'
                    /\ task[t].at \in {"releasing", "draining"} =>
                         \A v \in writes' : ~v.sent /\ First(v)' => task[t].await < v.n
  BY <1>2 DEF HandlersGoFirst
<1>3. ~Resumes(t)
  BY DEF HandlersGoFirst
<1>4. task[t].at \in {"releasing", "draining"} => task[t].await < w.n
  BY <1>2 DEF HandlersGoFirst
<1>5. ASSUME task[t].at \in {"releasing", "draining"} PROVE Outstanding(task[t].await)'
  <2>1. PICK v \in writes : v.n = task[t].await
    BY <1>3, <1>5 DEF Resumes, Outstanding
  <2>2. v # w
    BY <1>4, <1>5, <2>1, NumbersAreNat
  <2> QED BY <1>2, <2>1, <2>2 DEF Outstanding
<1>6. ASSUME task[t].at \in {"releasing", "draining"}, NEW v \in writes', ~v.sent, First(v)'
      PROVE  task[t].await < v.n
  <2>1. v \in writes
    BY <1>1, <1>2, <1>6
  <2>2. CASE v.chain = w.chain
    <3>1. w.n <= v.n
      BY <1>2, <2>1, <2>2 DEF First
    <3> QED BY <1>4, <1>6, <2>1, <3>1, NumbersAreNat
  <2>3. CASE v.chain # w.chain
    <3>1. First(v)
      BY <1>2, <1>6, <2>3 DEF First
    <3> QED BY <1>6, <2>1, <3>1 DEF HandlersGoFirst
  <2> QED BY <2>2, <2>3
<1> QED BY <1>2, <1>3, <1>5, <1>6 DEF Resumes

\* Handlers that awaited a load go first.
LEMMA HandlersStep ==
  ASSUME TypeOK, Numbered, HandlersGoFirst, [Next]_vars
  PROVE  HandlersGoFirst'
<1>1. CASE UNCHANGED vars
  BY <1>1, HandlersStayFirst DEF vars, docVars, saveVars
<1>2. CASE \E u \in Edits : ApplyUpdate(u)
  <2>1. UNCHANGED <<loaded, writes, task>> /\ waiting' \subseteq waiting
    BY <1>2 DEF ApplyUpdate
  <2> QED BY <2>1, HandlersStayFirst
<1>3. ASSUME NEW t \in Tasks, FinishRelease(t) \/ StartPurge(t) \/ FinishPurge(t)
      PROVE  HandlersGoFirst'
  <2>1. Resumes(t) /\ waiting' = waiting /\ (loaded' => loaded)
    BY <1>3 DEF FinishRelease, StartPurge, FinishPurge, DeleteDocument, docVars, Resumes
  <2>2. ~(loaded /\ waiting # {})
    BY <2>1 DEF HandlersGoFirst
  <2> QED BY <2>1, <2>2 DEF HandlersGoFirst
<1> QED
  BY <1>1, <1>2, <1>3, EventHandlers, MirrorHandlers, StartWriteHandlers
     DEF Next, Resume, Tasks

\* No step takes the document from a handler, or the timer from a change.
LEMMA ServedStep ==
  ASSUME TypeOK, HandlersGoFirst, Served, [Next]_vars
  PROVE  Served'
<1>1. CASE UNCHANGED <<waiting, loaded, loading, pending, timer>>
  BY <1>1 DEF Served
<1>2. CASE ReadDocument \/ \E c \in Changes : Request(c)
  <2>1. UNCHANGED <<pending, timer, loaded>> /\ (loaded \/ loading' # "no")
    BY <1>2 DEF ReadDocument, Request, GetDocument, saveVars
  <2> QED BY <2>1 DEF Served
<1>3. CASE LoadReads \/ LoadDone \/ LoadFails
  BY <1>3 DEF LoadReads, LoadDone, LoadFails, saveVars, Served
<1>4. CASE (\E u \in Edits : ApplyUpdate(u)) \/ (\E r \in Revisions : MirrorSnapshot(r))
  <2>1. loaded /\ loaded' = loaded
    BY <1>4 DEF ApplyUpdate, MirrorSnapshot
  <2>2. pending' # {} => timer'
    BY <1>4 DEF ApplyUpdate, MirrorSnapshot, Schedule, CancelScheduled, saveVars, Served
  <2> QED BY <2>1, <2>2 DEF Served
<1>5. ASSUME NEW t \in Tasks, FinishRelease(t) \/ FinishPurge(t)
      PROVE  Served'
  <2>1. Resumes(t) /\ UNCHANGED <<waiting, loading>>
    BY <1>5 DEF FinishRelease, FinishPurge, DeleteDocument, docVars
  <2>2. ~(loaded /\ waiting # {})
    BY <2>1 DEF HandlersGoFirst
  <2>3. pending' # {} => timer'
    BY <1>5 DEF FinishRelease, FinishPurge, DeleteDocument, CancelScheduled, saveVars, Served
  <2> QED BY <2>1, <2>2, <2>3 DEF Served
<1>6. CASE \/ DebounceFires \/ (\E t \in Tasks : StartRelease(t) \/ StartPurge(t))
  <2>1. UNCHANGED <<waiting, loaded, loading>> /\ pending' = {}
    BY <1>6 DEF DebounceFires, StartRelease, StartPurge, CancelScheduled, docVars
  <2> QED BY <2>1 DEF Served
<1>7. CASE \/ (\E w \in writes : StartWrite(w) \/ WriteCommits(w) \/ WriteFails(w))
           \/ (\E t \in Tasks : DeleteRow(t) \/ DeleteRowFails(t) \/ TombstoneExpires(t))
  BY <1>1, <1>7 DEF StartWrite, WriteCommits, WriteFails, DeleteRow, DeleteRowFails,
                    TombstoneExpires, docVars, saveVars
<1>8. CASE Crash
  BY <1>8 DEF Crash, Served
<1>9. CASE UNCHANGED vars
  BY <1>1, <1>9 DEF vars, docVars, saveVars
<1> QED
  BY <1>2, <1>3, <1>4, <1>5, <1>6, <1>7, <1>8, <1>9 DEF Next, Resume, Event, Tasks

\* The oldest write of a chain is the one the database works on.
LEMMA OldestIsSent ==
  ASSUME TypeOK, Settled, NEW v \in writes
  PROVE  \E w \in writes : w.chain = v.chain /\ w.n <= v.n /\ w.sent
<1> DEFINE T == {u.n : u \in {u \in writes : u.chain = v.chain}}
<1>1. T \subseteq Nat /\ T # {}
  BY NumbersAreNat
<1>2. PICK x \in T : \A y \in T : x <= y
  <2> HIDE DEF T
  <2> QED BY <1>1, Smallest
<1>3. PICK w \in writes : w.chain = v.chain /\ w.n = x
  OBVIOUS
<1>4. First(w) /\ w.n <= v.n
  BY <1>2, <1>3 DEF First
<1> QED BY <1>3, <1>4 DEF Settled

LEMMA ServedInductive == Spec => [](IInv /\ HandlersGoFirst /\ Served)
<1>1. Init => HandlersGoFirst /\ Served
  BY DEF Init, HandlersGoFirst, Served
<1>2. IInv => TypeOK /\ Numbered
  BY DEF IInv
<1> QED BY <1>1, <1>2, HandlersStep, ServedStep, Inductive, PTL DEF Spec

\* AcceptedIsOnItsWay: before a purge an accepted change is never without a row, a
\* queued write, a running timer or a reported failure, so that AcceptedIsStored
\* asks no more than that timers fire and the database answers.
THEOREM AcceptedChangesAreOnTheirWay == Spec => []AcceptedIsOnItsWay
<1>1. IInv /\ Served => AcceptedIsOnItsWay
  BY DEF IInv, Orderly, Served, LiveDocumentComplete, ReleasedIsStored, UnsavedIsScheduled,
         AcceptedIsOnItsWay
<1> QED BY <1>1, ServedInductive, PTL

\* NothingWaitsInVain: whatever a handler, a debounced state, a release or a purge
\* awaits is under way, through any number of purges at a time and through crashes;
\* no write waits on a call that waits on it, so that CallsReturn asks no more than
\* that promises are taken up and the database answers.
THEOREM NobodyWaitsInVain == Spec => []NothingWaitsInVain
<1>1. IInv /\ Served => NothingWaitsInVain
  BY OldestIsSent DEF IInv, Served, NothingWaitsInVain
<1> QED BY <1>1, ServedInductive, PTL
=============================================================================
