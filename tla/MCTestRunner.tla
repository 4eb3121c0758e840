---------------------------- MODULE MCTestRunner ----------------------------
(* Small instances of TestRunner for TLC. *)
EXTENDS TestRunner

\* All pages of a module and three tests of the kinds that differ most for the
\* queue, and pages for each of the other kinds between two of these.
CoreKinds == {"sync", "asyncExpect", "asyncThrows", "guarded", "listTwice"}

MCPages ==
  {<<"module", a, b, c>> : a, b, c \in CoreKinds}
    \union {<<"module", k, "async", "asyncExpect">> : k \in Kinds}
    \union {<<"sync", "module", k, "sync">> : k \in Kinds}
    \union {<<"module", k, "module", "asyncExpect">> : k \in Kinds}

MCBatchPages ==
  {<<"module", k, "async">> : k \in Kinds}
    \union {<<"module", "guarded", "hang", "guarded">>}
=============================================================================
