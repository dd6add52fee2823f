------------------------------ MODULE YjsMemory ------------------------------
(* YjsDocuments implements DocumentMemory. *)
EXTENDS YjsDocuments

\* A release has seen an access when the generation is not the one it began with.
Memory == INSTANCE DocumentMemory WITH
  Releases  <- Tasks,
  loading   <- loading # "no",
  releasing <- {t \in Tasks : task[t].at = "releasing"},
  used      <- {t \in Tasks : task[t].at = "releasing" /\ task[t].seen # gen}

\* However loads, debounced writes, releases, purges and crashes interleave, a
\* release drops the document exactly when nobody used it in the meantime: the
\* generation counter, which starts again with every document, never makes a
\* release take a used document for an idle one (releaseDocument 167-172).
ImplementsMemory == Memory!Spec
=============================================================================
