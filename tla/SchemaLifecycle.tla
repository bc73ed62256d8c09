--------------------------- MODULE SchemaLifecycle ---------------------------
(***************************************************************************)
(* The schema lifecycle of one workspace of the JSONL engine (cumulus-db,  *)
(* storage.ts): plans, approvals, applies, reverts and snapshots on the    *)
(* one system-state document.  Every operation reads the whole document    *)
(* and later writes the whole document back; apply and revert do so under  *)
(* a lock file, the others do not.                                         *)
(*                                                                         *)
(* An id is the operation that issued it: plan p, approval a and version v *)
(* are made by the operations of these names.  live and lastApplied are    *)
(* always written together and are one field here; a schema stands for its *)
(* hash.  A request refused before it has read or locked anything changes  *)
(* nothing and is no step.                                                 *)
(***************************************************************************)
EXTENDS Naturals, Sequences

CONSTANTS
    Planners, Approvers, Appliers, Reverters,   \* operations, by kind
    Others,     \* grants, claims and manual snapshots
    Schemas,    \* schemas that can be desired
    Drops,      \* pairs <<live, desired>> whose difference is destructive
    Risky,      \* pairs from medium risk on, whose apply takes a snapshot
    First,      \* the operation that applied the first version
    Start,      \* the schema it applied
    Crashes,    \* may the process die between two steps?
    None

Locked   == Appliers \union Reverters
Unlocked == Planners \union Approvers \union Others
Ops      == Locked \union Unlocked

ASSUME OpsAssumption ==
    /\ Locked \intersect Unlocked = {} /\ Planners \intersect Approvers = {}
    /\ (Planners \union Approvers) \intersect Others = {}
    /\ Appliers \intersect Reverters = {}
    /\ First \notin Ops /\ None \notin Ops \union {First}
ASSUME SchemasAssumption ==
    /\ Start \in Schemas /\ None \notin Schemas
    /\ Drops \subseteq Risky /\ Risky \subseteq Schemas \X Schemas
ASSUME CrashesAssumption == Crashes \in BOOLEAN

VARIABLES
    doc,      \* the system-state document
    lock,     \* the lock file: its owner, or None
    snaps,    \* the snapshot files: the schema each of them holds
    lapsed,   \* approvals whose five minutes are over
    at,       \* where each operation stands
    job,      \* what it was asked to do
    copy      \* the document as it has it in memory

files == <<doc, lock, snaps>>
vars == <<files, lapsed, at, job, copy>>

Plans     == [want : Schemas, base : Schemas, status : {"planned", "applied"}]
Approvals == [kind : {"plan", "version", "snapshot"}, id : Ops \union {First},
              used : BOOLEAN]
ASSUME PlansAssumption == None \notin Plans
ASSUME ApprovalsAssumption == None \notin Approvals

Versions  == [by : Ops \union {First}, hash : Schemas,
              base : Schemas \union {None}, approval : Approvers \union {None}]

Documents == [live : Schemas,
              plans : [Planners -> Plans \union {None}],
              approvals : [Approvers -> Approvals \union {None}],
              snapshots : SUBSET Ops,
              versions : Seq(Versions)]

Phases == {"idle", "read", "saved", "locked", "snapshot", "write", "written",
           "release", "done", "refused", "dead"}

\* The document after the first apply, which only adds collections.
Init ==
    /\ doc = [live |-> Start,
              plans |-> [p \in Planners |-> None],
              approvals |-> [a \in Approvers |-> None],
              snapshots |-> {},
              versions |-> << [by |-> First, hash |-> Start, base |-> None,
                               approval |-> None] >>]
    /\ lock = None
    /\ snaps = [o \in Ops |-> None]
    /\ lapsed = {}
    /\ at = [o \in Ops |-> "idle"]
    /\ job = [o \in Ops |-> None]
    /\ copy = [o \in Ops |-> None]

Goes(o, phase) == at' = [at EXCEPT ![o] = phase]
Reads(o)       == copy' = [copy EXCEPT ![o] = doc]

\* The operation has no further use for its copy.
Writes(o, d) ==
    /\ doc' = d
    /\ copy' = [copy EXCEPT ![o] = None]

-----------------------------------------------------------------------------
(***************************************************************************)
(* Operations without the lock                                             *)
(***************************************************************************)
Planned(d, p, s) ==
    [d EXCEPT !.plans[p] = [want |-> s, base |-> d.live, status |-> "planned"]]

ReadForPlan(p, s) ==
    /\ at[p] = "idle"
    /\ Reads(p) /\ Goes(p, "read")
    /\ job' = [job EXCEPT ![p] = s]
    /\ UNCHANGED <<files, lapsed>>

\* planSchema
PlanSchema(p) ==
    /\ at[p] = "read"
    /\ Writes(p, Planned(copy[p], p, job[p]))
    /\ Goes(p, "done")
    /\ UNCHANGED <<lock, snaps, lapsed, job>>

\* What an approval may be asked for: a plan, a version or a snapshot that the
\* document knows.
Approvable(d) ==
    {[kind |-> "plan", id |-> p, used |-> FALSE] :
        p \in {q \in Planners : d.plans[q] # None}}
    \union {[kind |-> "version", id |-> d.versions[i].by, used |-> FALSE] :
        i \in DOMAIN d.versions}
    \union {[kind |-> "snapshot", id |-> o, used |-> FALSE] : o \in d.snapshots}

ReadForApproval(a) ==
    /\ at[a] = "idle"
    /\ \E x \in Approvable(doc) : job' = [job EXCEPT ![a] = x]
    /\ Reads(a) /\ Goes(a, "read")
    /\ UNCHANGED <<files, lapsed>>

\* createSchemaApproval, createRevertApproval
CreateApproval(a) ==
    /\ at[a] = "read"
    /\ Writes(a, [copy[a] EXCEPT !.approvals[a] = job[a]])
    /\ Goes(a, "done")
    /\ UNCHANGED <<lock, snaps, lapsed, job>>

\* expiresAt
Lapse(a) ==
    /\ at[a] = "done" /\ a \notin lapsed
    /\ lapsed' = lapsed \union {a}
    /\ UNCHANGED <<files, at, job, copy>>

ReadForOther(o) ==
    /\ at[o] = "idle"
    /\ Reads(o) /\ Goes(o, "read")
    /\ UNCHANGED <<files, lapsed, job>>

\* createSystemSnapshot: the file first, its entry in the document afterwards.
SaveSnapshot(o) ==
    /\ at[o] = "read"
    /\ snaps' = [snaps EXCEPT ![o] = copy[o].live]
    /\ Goes(o, "saved")
    /\ UNCHANGED <<doc, lock, lapsed, job, copy>>

\* Org claim, grants and agent disable write other fields of the document, a
\* manual snapshot its list of snapshots.
WriteOther(o) ==
    /\ at[o] \in {"read", "saved"}
    /\ Writes(o, [copy[o] EXCEPT
                    !.snapshots = IF at[o] = "saved" THEN @ \union {o} ELSE @])
    /\ Goes(o, "done")
    /\ UNCHANGED <<lock, snaps, lapsed, job>>

-----------------------------------------------------------------------------
(***************************************************************************)
(* applySchemaPlan and revertSchema, under the lock file                   *)
(***************************************************************************)
\* Mutant: the lock file is opened without the exclusive flag.
OverLock(o) == lock' = o

\* open(lockPath, 'wx')
TakeLock(o) == lock = None /\ lock' = o

\* An approval token is known once the request that made it was answered.
Tokens == {a \in Approvers : at[a] = "done"} \union {None}

StartApply(o) ==
    /\ at[o] = "idle"
    /\ \E p \in {q \in Planners : at[q] = "done"}, a \in Tokens :
         job' = [job EXCEPT ![o] = [kind |-> "plan", id |-> p, approval |-> a]]
    /\ TakeLock(o) /\ Goes(o, "locked")
    /\ UNCHANGED <<doc, snaps, lapsed, copy>>

\* The ids a revert may name: versions that an answer returned, and snapshots.
RevertTargets ==
    [kind : {"version"}, id : {First} \union {o \in Locked : at[o] = "done"}]
    \union [kind : {"snapshot"}, id : {o \in Ops : snaps[o] # None}]

StartRevert(o) ==
    /\ at[o] = "idle"
    /\ \E x \in RevertTargets, a \in Tokens \ {None} :
         job' = [job EXCEPT ![o] = [kind |-> x.kind, id |-> x.id, approval |-> a]]
    /\ TakeLock(o) /\ Goes(o, "locked")
    /\ UNCHANGED <<doc, snaps, lapsed, copy>>

\* Mutant: the EEXIST error passes through finally as well.
BusyUnlinks(o) == lock # None /\ lock' = None

Busy(o) == lock # None /\ lock' = lock

\* "schema operation already in progress": the client may try again.
RefuseBusy(o) ==
    /\ at[o] = "idle"
    /\ Busy(o)
    /\ UNCHANGED <<doc, snaps, lapsed, at, job, copy>>

\* Mutant: any unused approval will do, whatever it was given for.
ApprovedAny(d, j) ==
    /\ j.approval # None /\ j.approval \notin lapsed
    /\ d.approvals[j.approval] # None /\ ~d.approvals[j.approval].used

\* consumePlanApproval, consumeRevertApproval: bound to its target, unused,
\* not expired.
Approved(d, j) ==
    /\ j.approval # None /\ j.approval \notin lapsed
    /\ d.approvals[j.approval] = [kind |-> j.kind, id |-> j.id, used |-> FALSE]

Consumed(d, a) == [d EXCEPT !.approvals[a].used = TRUE]

Within(d, j, pairs) ==
    j.kind = "plan" => <<d.plans[j.id].base, d.plans[j.id].want>> \in pairs

NeedsApproval(d, j) == Within(d, j, Drops)
NeedsSnapshot(d, j) == Within(d, j, Risky)

\* Mutant: the plan is not compared with the live schema.
AnyBase(d, p) == d.plans[p] # None /\ d.plans[p].status = "planned"

\* The plan is pending and was made against what is live now.
Fresh(d, p) ==
    /\ d.plans[p] # None
    /\ d.plans[p].status = "planned"
    /\ d.plans[p].base = d.live

\* A revert goes to a version of the document or to a snapshot file.
Exists(d, j) ==
    CASE j.kind = "plan"     -> Fresh(d, j.id)
      [] j.kind = "version"  -> \E i \in DOMAIN d.versions : d.versions[i].by = j.id
      [] j.kind = "snapshot" -> snaps[j.id] # None

Target(d, j) ==
    CASE j.kind = "plan"     -> d.plans[j.id].want
      [] j.kind = "version"  ->
           d.versions[CHOOSE i \in DOMAIN d.versions : d.versions[i].by = j.id].hash
      [] j.kind = "snapshot" -> snaps[j.id]

Allowed(d, j) == Exists(d, j) /\ (NeedsApproval(d, j) => Approved(d, j))

\* Mutant: a refused request leaves the lock file behind.
RefusesLocked(o) == Goes(o, "refused")

Refuses(o) == Goes(o, "release")

\* The checks run on the document as it was read; an error goes to finally.
ReadLocked(o) ==
    /\ at[o] = "locked"
    /\ \/ Allowed(doc, job[o]) /\ Reads(o) /\ Goes(o, "snapshot")
       \/ ~Allowed(doc, job[o]) /\ Refuses(o) /\ UNCHANGED copy
    /\ UNCHANGED <<files, lapsed, job>>

\* Every revert writes a snapshot, an apply from medium risk on.
WriteSnapshot(o) ==
    /\ at[o] = "snapshot"
    /\ \/ /\ NeedsSnapshot(copy[o], job[o])
          /\ snaps' = [snaps EXCEPT ![o] = copy[o].live]
       \/ ~NeedsSnapshot(copy[o], job[o]) /\ UNCHANGED snaps
    /\ Goes(o, "write")
    /\ UNCHANGED <<doc, lock, lapsed, job, copy>>

\* The version as it is pushed; the hash of a plan covers its base.
Version(d, o) ==
    [by |-> o, hash |-> Target(d, job[o]),
     base |-> IF job[o].kind = "plan" THEN d.plans[job[o].id].base ELSE None,
     approval |-> IF NeedsApproval(d, job[o]) THEN job[o].approval ELSE None]

\* A plan that was applied is closed, a revert touches no plan.
Closed(d, j) ==
    IF j.kind = "plan" THEN [d EXCEPT !.plans[j.id].status = "applied"] ELSE d

Switched(d, o) ==
    LET e == IF NeedsApproval(d, job[o]) THEN Consumed(d, job[o].approval) ELSE d
    IN  [Closed(e, job[o]) EXCEPT
           !.live = Target(d, job[o]),
           !.snapshots = IF NeedsSnapshot(d, job[o]) THEN @ \union {o} ELSE @,
           !.versions = Append(@, Version(d, o))]

WriteState(o) ==
    /\ at[o] = "write"
    /\ Writes(o, Switched(copy[o], o))
    /\ Goes(o, "written")
    /\ UNCHANGED <<lock, snaps, lapsed, job>>

\* finally: unlink, whoever owns the file; then the request is answered.
Release(o) ==
    /\ at[o] \in {"written", "release"}
    /\ lock' = None
    /\ Goes(o, IF at[o] = "written" THEN "done" ELSE "refused")
    /\ UNCHANGED <<doc, snaps, lapsed, job, copy>>

Switch(o) == ReadLocked(o) \/ WriteSnapshot(o) \/ WriteState(o) \/ Release(o)

Switching(o) == at[o] \in {"locked", "snapshot", "write", "written", "release"}

\* The lock file of a dead process stays.  (An operation without the lock that
\* dies is one that never writes.)
Crash(o) ==
    /\ Crashes /\ Switching(o)
    /\ Goes(o, "dead")
    /\ copy' = [copy EXCEPT ![o] = None]
    /\ UNCHANGED <<files, lapsed, job>>

Next ==
    \/ \E p \in Planners : PlanSchema(p) \/ \E s \in Schemas : ReadForPlan(p, s)
    \/ \E a \in Approvers : ReadForApproval(a) \/ CreateApproval(a) \/ Lapse(a)
    \/ \E o \in Others : ReadForOther(o) \/ SaveSnapshot(o) \/ WriteOther(o)
    \/ \E o \in Appliers : StartApply(o)
    \/ \E o \in Reverters : StartRevert(o)
    \/ \E o \in Locked : RefuseBusy(o) \/ Switch(o) \/ Crash(o)

Spec == Init /\ [][Next]_vars

-----------------------------------------------------------------------------
(***************************************************************************)
(* Properties                                                              *)
(***************************************************************************)

\* Type correctness.
TypeOK ==
    /\ doc \in Documents
    /\ lock \in Locked \union {None}
    /\ snaps \in [Ops -> Schemas \union {None}]
    /\ lapsed \subseteq Approvers
    /\ at \in [Ops -> Phases]
    /\ copy \in [Ops -> Documents \union {None}]

\* applySchemaPlan, the stale check: in the history the document tells, each
\* applied version was planned against the schema right before it, and the
\* last version is the live schema, whatever writers overwrote one another.
HistoryIsSound ==
    LET vs == doc.versions IN
      /\ doc.live = vs[Len(vs)].hash
      /\ \A i \in 2 .. Len(vs) :
           vs[i].base # None => vs[i].base = vs[i - 1].hash

\* The i-th version of d is what its approval was given for: the approved plan,
\* or the version or the snapshot file (out of s) that was approved to go back to.
SpentFor(d, s, i) ==
    LET v == d.versions[i]
        x == d.approvals[v.approval]
    IN  /\ x.used
        /\ \/ /\ x.kind = "plan" /\ v.base # None
              /\ d.plans[x.id].base = v.base /\ d.plans[x.id].want = v.hash
           \/ /\ x.kind = "version" /\ v.base = None
              /\ \E k \in 1 .. i - 1 :
                   d.versions[k].by = x.id /\ d.versions[k].hash = v.hash
           \/ /\ x.kind = "snapshot" /\ v.base = None
              /\ s[x.id] = v.hash

\* Approvals: every destructive change and every revert in the history spent
\* an approval that was given for just this change, and no two of them spent
\* the same one, although a writer without the lock may bring it back unused.
ChangesApproved ==
    LET vs == doc.versions IN
      /\ \A i \in 2 .. Len(vs) :
           \/ vs[i].base # None /\ <<vs[i].base, vs[i].hash>> \notin Drops
           \/ vs[i].approval # None /\ SpentFor(doc, snaps, i)
      /\ \A i, k \in 2 .. Len(vs) :
           i # k => vs[i].approval = None \/ vs[i].approval # vs[k].approval

\* withSystemLock: one apply or revert at a time, and the lock file is there
\* exactly while it runs; a request refused as busy does not take it away, and
\* only the death of the process leaves it behind.
LockFollowsSwitch ==
    \A o \in Locked :
        /\ Switching(o) => lock = o
        /\ lock = o => Switching(o) \/ at[o] = "dead"

=============================================================================
