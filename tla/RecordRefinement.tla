-------------------------- MODULE RecordRefinement --------------------------
(***************************************************************************)
(* The files of a workspace implement the store of its records: a call     *)
(* decides when it loads the log and takes effect when it appends to the   *)
(* log or replaces it.                                                     *)
(***************************************************************************)
EXTENDS RecordLog

\* What a compaction is going to put into the log.
Viewed(c) == [id \in Calls |->
    LET lines == {i \in DOMAIN call[c].view : call[c].view[i].id = id} IN
    IF lines = {} THEN None ELSE call[c].view[CHOOSE i \in lines : TRUE].rec]

\* What call c has decided on, read off its position.
Plan(c) ==
    LET plan(p, d) == [phase |-> p, change |-> d] IN
    CASE call[c].pc \in {"idle", "load", "open"} -> plan("undecided", <<>>)
      [] call[c].pc = "append"                  -> plan("decided", [i \in {call[c].id} |-> call[c].rec])
      [] call[c].pc \in {"file", "replace"}     -> plan("decided", Viewed(c))
      [] OTHER                                  -> plan("ended", <<>>)

Store == INSTANCE RecordStore WITH
    store <- [id \in Calls |-> Stored(id)],
    plan  <- [c \in Calls |-> Plan(c)]

(***************************************************************************)
(* No call invents, halves or repeats a change: each takes effect at most  *)
(* once, at one point, as it had decided on one reading.  A compaction     *)
(* puts back exactly what it had read, and so drops what others have       *)
(* appended since (storage.ts:923).                                        *)
(***************************************************************************)
ImplementsStore == Store!Spec

=============================================================================
