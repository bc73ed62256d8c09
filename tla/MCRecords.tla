----------------------------- MODULE MCRecords -----------------------------
(***************************************************************************)
(* TLC instances of RecordLog.                                             *)
(***************************************************************************)
EXTENDS RecordRefinement, TLC

CONSTANTS c1, c2, c3, c4, k1

FourCalls == {c1, c2, c3, c4}
OneKey    == {k1}

\* A key value, or a note without a key; the update of one to the other.
TwoInputs == {<<"kv", k1>>, <<"note", None>>}

\* One call by name, two by key or that delete, and a compaction.
FourKinds == (c1 :> {"write", "update"}) @@ (c4 :> {"compact"})
             @@ [c \in {c2, c3} |-> {"put", "delete"}]

Symmetric == Permutations({c2, c3})
=============================================================================
