----------------------------- MODULE RecordLog -----------------------------
(***************************************************************************)
(* The records of a workspace in the JSONL engine: an operation log that   *)
(* every read replays, segment files that nothing reads, and a manifest    *)
(* with counters that every writer reads and overwrites.  No lock is held: *)
(* the steps of the calls interleave, and a call may stop after any of     *)
(* them because a write throws or the process dies.                        *)
(***************************************************************************)
EXTENDS Integers, Sequences, FiniteSets

CONSTANTS Calls,      \* the calls; a record is named by the call that created it
          Keys,       \* the keys of key-value records
          None,       \* no record, no key
          Kinds,      \* bound: the requests that every call may be
          Inputs,     \* bound: the type and key, or None, of a record input
          Mortal      \* bound: the calls that may stop half way

ASSUME KindsAssumption ==
    Kinds \in [Calls -> SUBSET {"write", "update", "delete", "put", "compact"}]
ASSUME InputsAssumption == Inputs \subseteq {"kv", "note"} \X (Keys \cup {None})

VARIABLES log,        \* the lines of the operation log
          files,      \* the segment files there are
          segs,       \* the lines of each
          manifest,   \* the active segment and the two counters
          call        \* the calls

vars == <<log, files, segs, manifest, call>>

First    == "first"                       \* segment-000001
Segments == Calls \cup {First}            \* and one per compaction
\* A record: whether it is a key value or of any other type, its key, and the
\* calls whose metadata fields it holds.
Records  == [type : {"kv", "note"}, key : Keys \cup {None}, parts : SUBSET Calls]
Lines    == [id : Calls, rec : Records \cup {None}]   \* rec = None: record_delete
Manifests == [active : Segments, records : Nat, deleted : Nat]

ASSUME NoneAssumption == None \notin Calls \cup Keys \cup Records

CallPcs == {"idle", "load", "open", "append", "active", "segment", "file",
            "replace", "read", "write", "done", "missing", "stopped"}

\* What a call keeps: the record it is about and the one it will write, the
\* segment it appends to, the lines of a compaction, the manifest to write.
CallStates == [pc : CallPcs, kind : {"write", "update", "delete", "compact"},
               id : Calls, rec : Records \cup {None},
               seg : Segments, view : Seq(Lines), copy : Manifests]

TypeOK ==
    /\ log \in Seq(Lines)
    /\ files \subseteq Segments /\ segs \in [Segments -> SUBSET Lines]
    /\ manifest \in Manifests
    /\ call \in [Calls -> CallStates]

\* A call that holds nothing, before its request and after its end.
At(pc, c) == [pc |-> pc, kind |-> "write", id |-> c, rec |-> None, seg |-> First,
              view |-> <<>>, copy |-> [active |-> First, records |-> 0, deleted |-> 0]]

Init ==
    /\ log = <<>>
    /\ files = {First} /\ segs = [s \in Segments |-> {}]
    /\ manifest = [active |-> First, records |-> 0, deleted |-> 0]
    /\ call = [c \in Calls |-> At("idle", c)]

-----------------------------------------------------------------------------
(* What loadRecords makes of a log l.                                      *)

\* The lines about id, and the last of them.
About(l, id) == {i \in DOMAIN l : l[i].id = id}
Latest(ns)   == CHOOSE i \in ns : \A j \in ns : j <= i

Replay(l, id) == LET ns == About(l, id) IN IF ns = {} THEN None ELSE l[Latest(ns)].rec
Found(l) == {id \in Calls : Replay(l, id) # None}

\* Where id stands in the order of the map: the first line about it since
\* its last deletion.
Starts(l, id) == {i \in About(l, id) : \A j \in About(l, id) : j >= i => l[j].rec # None}
Earliest(ns) == CHOOSE i \in ns : \A j \in ns : i <= j

\* Mutant: an update moves a record to the end of the map.
LastPlace(l, id) == Latest(Starts(l, id))

Place(l, id) == Earliest(Starts(l, id))

\* The records of the map, one line each, in its order.
Rank(l, id) == Cardinality({j \in Found(l) : Place(l, j) <= Place(l, id)})
View(l) == [n \in 1..Cardinality(Found(l)) |->
               LET id == CHOOSE i \in Found(l) : Rank(l, i) = n
               IN  [id |-> id, rec |-> Replay(l, id)]]

Stored(id) == Replay(log, id)
Live == Found(log)

\* find: the first key value of key k.
Holders(k) == {id \in Live : Stored(id).type = "kv" /\ Stored(id).key = k}
Answer(k)  == IF Holders(k) = {} THEN None
              ELSE CHOOSE id \in Holders(k) : \A j \in Holders(k) : Place(log, id) <= Place(log, j)

-----------------------------------------------------------------------------
(* The requests.                                                           *)

Request(c, kind, id, rec, pc) ==
    /\ call[c].pc = "idle"
    /\ call' = [call EXCEPT ![c].pc = pc, ![c].kind = kind, ![c].id = id, ![c].rec = rec]
    /\ UNCHANGED <<log, files, segs, manifest>>

Input(c, t, k) == [type |-> t, key |-> k, parts |-> {c}]

WriteRecord(c, t, k) == Request(c, "write", c, Input(c, t, k), "open")

\* An update by name: it sets the type, and the key if it brings one.
UpdateRecord(c, id, t, k) == Request(c, "update", id, Input(c, t, k), "load")

DeleteRecord(c, id) == Request(c, "delete", id, None, "load")

\* A put updates the record that answers for its key, or writes a new one.
PutKeyValue(c, k) ==
    IF Answer(k) = None THEN WriteRecord(c, "kv", k) ELSE UpdateRecord(c, Answer(k), "kv", k)

Compact(c) ==
    /\ call[c].pc = "idle"
    /\ call' = [call EXCEPT ![c].pc = "file", ![c].kind = "compact", ![c].view = View(log)]
    /\ UNCHANGED <<log, files, segs, manifest>>

-----------------------------------------------------------------------------
(* The steps of a call.                                                    *)

\* Mutant: the metadata of the input replaces what is there.
Overwritten(c, old) ==
    [call[c].rec EXCEPT !.key = IF call[c].rec.key = None THEN old.key ELSE @]

\* The record of an update: what is there, overwritten field by field.
Merged(c, old) ==
    [type  |-> call[c].rec.type,
     key   |-> IF call[c].rec.key = None THEN old.key ELSE call[c].rec.key,
     parts |-> old.parts \cup call[c].rec.parts]

\* Mutant: an update of a record that is gone writes it again.
UpsertMissing(c) ==
    /\ call[c].pc = "load" /\ Stored(call[c].id) = None
    /\ call' = [call EXCEPT ![c].pc = "append"]
    /\ UNCHANGED <<log, files, segs, manifest>>

LoadMissing(c) ==
    /\ call[c].pc = "load" /\ Stored(call[c].id) = None
    /\ call' = [call EXCEPT ![c] = At("missing", c)]
    /\ UNCHANGED <<log, files, segs, manifest>>

LoadFound(c) ==
    /\ call[c].pc = "load" /\ Stored(call[c].id) # None
    /\ call' = [call EXCEPT ![c].pc = "append",
                            ![c].rec = IF call[c].kind = "delete" THEN None
                                       ELSE Merged(c, Stored(call[c].id))]
    /\ UNCHANGED <<log, files, segs, manifest>>

\* A write learns the active segment before it appends, an update after.
FindSegment(c) ==
    /\ call[c].pc \in {"open", "active"}
    /\ call' = [call EXCEPT ![c].seg = manifest.active,
                            ![c].pc = IF @ = "open" THEN "append" ELSE "segment"]
    /\ UNCHANGED <<log, files, segs, manifest>>

Line(c) == [id |-> call[c].id, rec |-> call[c].rec]

AppendOperation(c) ==
    /\ call[c].pc = "append"
    /\ log' = Append(log, Line(c))
    /\ call' = [call EXCEPT ![c].pc = CASE call[c].kind = "write"  -> "segment"
                                        [] call[c].kind = "update" -> "active"
                                        [] OTHER                   -> "read"]
    /\ UNCHANGED <<files, segs, manifest>>

AppendSegment(c) ==
    /\ call[c].pc = "segment"
    /\ files' = files \cup {call[c].seg}
    /\ segs' = [segs EXCEPT ![call[c].seg] = @ \cup {Line(c)}]
    /\ call' = [call EXCEPT ![c].pc = "read"]
    /\ UNCHANGED <<log, manifest>>

\* Mutant: the new segment is left to the first append.
NoCompactSegment(c) ==
    /\ call[c].pc = "file"
    /\ call' = [call EXCEPT ![c].pc = "replace"]
    /\ UNCHANGED <<log, files, segs, manifest>>

CompactSegment(c) ==
    /\ call[c].pc = "file"
    /\ files' = files \cup {c}
    /\ segs' = [segs EXCEPT ![c] = {call[c].view[i] : i \in DOMAIN call[c].view}]
    /\ call' = [call EXCEPT ![c].pc = "replace"]
    /\ UNCHANGED <<log, manifest>>

ReplaceLog(c) ==
    /\ call[c].pc = "replace"
    /\ log' = call[c].view
    /\ call' = [call EXCEPT ![c].pc = "read"]
    /\ UNCHANGED <<files, segs, manifest>>

Counted(c) ==
    CASE call[c].kind = "write"   -> [manifest EXCEPT !.records = @ + 1]
      [] call[c].kind = "update"  -> manifest
      [] call[c].kind = "delete"  -> [manifest EXCEPT !.deleted = @ + 1]
      [] call[c].kind = "compact" -> [manifest EXCEPT !.active = c,
                                                      !.records = Len(call[c].view)]

ReadManifest(c) ==
    /\ call[c].pc = "read"
    /\ call' = [call EXCEPT ![c] = [At("write", c) EXCEPT !.copy = Counted(c)]]
    /\ UNCHANGED <<log, files, segs, manifest>>

WriteManifest(c) ==
    /\ call[c].pc = "write"
    /\ manifest' = call[c].copy
    /\ call' = [call EXCEPT ![c] = At("done", c)]
    /\ UNCHANGED <<log, files, segs>>

\* A write throws, or the process dies.
Stop(c) ==
    /\ c \in Mortal /\ call[c].pc \notin {"idle", "done", "missing", "stopped"}
    /\ call' = [call EXCEPT ![c] = At("stopped", c)]
    /\ UNCHANGED <<log, files, segs, manifest>>

-----------------------------------------------------------------------------
Arrive(c) ==
    \/ "write" \in Kinds[c] /\ \E in \in Inputs : WriteRecord(c, in[1], in[2])
    \/ "update" \in Kinds[c] /\ \E id \in Calls, in \in Inputs : UpdateRecord(c, id, in[1], in[2])
    \/ "delete" \in Kinds[c] /\ \E id \in Calls : DeleteRecord(c, id)
    \/ "put" \in Kinds[c] /\ \E k \in Keys : PutKeyValue(c, k)
    \/ "compact" \in Kinds[c] /\ Compact(c)

Next ==
    \E c \in Calls :
        \/ Arrive(c)
        \/ LoadMissing(c) \/ LoadFound(c) \/ FindSegment(c)
        \/ AppendOperation(c) \/ AppendSegment(c)
        \/ CompactSegment(c) \/ ReplaceLog(c)
        \/ ReadManifest(c) \/ WriteManifest(c)
        \/ Stop(c)

Spec == Init /\ [][Next]_vars

-----------------------------------------------------------------------------
(***************************************************************************)
(* Properties                                                              *)
(***************************************************************************)

\* Call c may still write record id into the log.
Brings(c, id) ==
    \/ call[c].pc \in {"idle", "open"} /\ c = id
    \/ call[c].pc = "append" /\ call[c].id = id /\ call[c].rec # None
    \/ call[c].pc \in {"file", "replace"} /\ \E i \in DOMAIN call[c].view : call[c].view[i].id = id

\* Call c has appended its line.
Logged(c) == call[c].pc \notin {"idle", "load", "open", "missing"} /\ call[c].pc # "append"

\* Record id is deleted and no call holds it.
Gone(id) == Stored(id) = None /\ \A c \in Calls : ~Brings(c, id)

\* deleteRecord: a deleted record comes back only out of the memory of a call
\* that read it before, an update or a compaction; when there is none, it is
\* gone for good, whatever later calls, compactions and deaths do.
DeletionSettles == [][\A id \in Calls : Gone(id) => Gone(id)']_vars

\* getKeyValue: two puts of a new key leave two records; which one answers is
\* decided once.  An append changes the answer only by taking the answering
\* record away from the key, or by giving an older record the key.
AnswerIsStable ==
    [][\A c \in Calls : AppendOperation(c) =>
         \A k \in Keys : LET a == Answer(k)  b == Answer(k)' IN
            a # None /\ b # a /\ a \in Holders(k)' => b \in Live \ Holders(k)]_vars

\* writeRecord and compact write the log before the segment and the segment
\* before the manifest or after the log: whatever step a call stops at, the
\* active segment exists, and a segment has no line that the log never had.
SegmentsTrail ==
    /\ manifest.active \in files
    /\ \A s \in Segments : \A l \in segs[s] : l.rec # None /\ \A c \in l.rec.parts : Logged(c)

=============================================================================
