--------------------------- MODULE DocumentMemory ---------------------------
(***************************************************************************)
(* What YjsDocumentRegistry promises to those who only need to know whether*)
(* a session's document is in memory: an access loads it, and a release    *)
(* drops it unless it was used after the release began.  YjsDocuments      *)
(* implements this specification; SessionRoom is built on it.              *)
(***************************************************************************)
CONSTANT Releases     \* calls of releaseDocument

VARIABLES
  loaded,             \* the document is in memory
  loading,            \* a load of it is under way
  releasing,          \* the calls of releaseDocument that have not returned
  used                \* those that have seen an access since they began

vars == <<loaded, loading, releasing, used>>

TypeOK ==
  /\ loaded \in BOOLEAN /\ loading \in BOOLEAN
  /\ releasing \subseteq Releases /\ used \subseteq releasing

Init == loaded = FALSE /\ loading = FALSE /\ releasing = {} /\ used = {}

\* Mutant: an access to a document in memory goes unnoticed.
UseUnseen ==
  /\ loading' = (loading \/ ~loaded)
  /\ used' = IF loaded THEN used ELSE releasing
  /\ UNCHANGED <<loaded, releasing>>

\* Any access: getDocument, applyUpdate, mirrorSnapshot, a read.
Use ==
  /\ loading' = (loading \/ ~loaded)
  /\ used' = releasing
  /\ UNCHANGED <<loaded, releasing>>

LoadDone == loading /\ loading' = FALSE /\ loaded' = TRUE /\ UNCHANGED <<releasing, used>>

LoadFails == loading /\ loading' = FALSE /\ UNCHANGED <<loaded, releasing, used>>

StartRelease(r) ==
  /\ r \in Releases \ releasing
  /\ releasing' = releasing \cup {r}
  /\ UNCHANGED <<loaded, loading, used>>

\* Counting accesses starts again with the next document: releases that saw
\* none may come to believe in one.
Forget == \E more \in SUBSET releasing' : used' = (used \cap releasing') \cup more

\* releaseDocument returns true.
Drop(r) ==
  /\ r \in releasing \ used /\ ~loading
  /\ loaded' = FALSE
  /\ releasing' = releasing \ {r}
  /\ Forget
  /\ UNCHANGED loading

\* Mutant: what a release saw outlives it.
KeepSeen(r) ==
  /\ r \in releasing /\ (r \in used \/ loading)
  /\ releasing' = releasing \ {r}
  /\ UNCHANGED <<loaded, loading, used>>

\* releaseDocument returns false.
Keep(r) ==
  /\ r \in releasing /\ (r \in used \/ loading)
  /\ releasing' = releasing \ {r} /\ used' = used \ {r}
  /\ UNCHANGED <<loaded, loading>>

\* purgeDocument drops the document whoever uses it; a load goes on.
Discard ==
  /\ loaded' = FALSE
  /\ UNCHANGED <<loading, releasing>>
  /\ Forget

\* The process starts again.
Restart == loaded' = FALSE /\ loading' = FALSE /\ releasing' = {} /\ used' = {}

Next ==
  \/ Use \/ LoadDone \/ LoadFails \/ Discard \/ Restart
  \/ \E r \in Releases : StartRelease(r) \/ Drop(r) \/ Keep(r)

Spec == Init /\ [][Next]_vars
=============================================================================
