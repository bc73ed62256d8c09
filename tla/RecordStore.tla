---------------------------- MODULE RecordStore ----------------------------
(***************************************************************************)
(* What a workspace of cumulus-db promises about its records: every call   *)
(* decides from one reading of the store what it will change, and changes  *)
(* it at most once and all at a time.  The files behind it do not show.    *)
(***************************************************************************)
CONSTANTS Calls,      \* the calls; a call that creates a record names it
          Keys,       \* the keys of key-value records
          None        \* no record, no key

VARIABLES store,      \* the record of every name, or None
          plan        \* per call: undecided, decided on a change, or ended

vars == <<store, plan>>

\* A call brings a type, a key or none, and a metadata field of its own; an
\* update keeps the fields that are there.
Brought(c, old) == [type : {"kv", "note"}, key : Keys \cup {None}, parts : {old \cup {c}}]

Undecided  == [phase |-> "undecided", change |-> <<>>]
Decided(d) == [phase |-> "decided", change |-> d]
Ended      == [phase |-> "ended", change |-> <<>>]

Init ==
    /\ store = [id \in Calls |-> None]
    /\ plan = [c \in Calls |-> Undecided]

\* A change of one record.
Only(id, r) == [i \in {id} |-> r]

\* One of the changes that call c may decide on, given the store it reads.
Decisions(c) ==
    LET live == {id \in Calls : store[id] # None} IN
    {Only(c, r) : r \in Brought(c, {})}
    \cup (UNION {{Only(id, r) : r \in Brought(c, store[id].parts)} : id \in live})
    \cup {Only(id, None) : id \in live}
    \cup {store}

Decide(c) ==
    /\ plan[c] = Undecided
    /\ \E d \in Decisions(c) : plan' = [plan EXCEPT ![c] = Decided(d)]
    /\ UNCHANGED store

Apply(c) ==
    /\ plan[c].phase = "decided"
    /\ store' = [id \in Calls |-> IF id \in DOMAIN plan[c].change THEN plan[c].change[id]
                                  ELSE store[id]]
    /\ plan' = [plan EXCEPT ![c] = Ended]

GiveUp(c) ==
    /\ plan' = [plan EXCEPT ![c] = Ended]
    /\ UNCHANGED store

Next == \E c \in Calls : Decide(c) \/ Apply(c) \/ GiveUp(c)

Spec == Init /\ [][Next]_vars

=============================================================================
