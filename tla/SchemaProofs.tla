---------------------------- MODULE SchemaProofs ----------------------------
(***************************************************************************)
(* For any number of operations on one workspace: applies and reverts run  *)
(* one at a time, and the history the document tells is sound although     *)
(* plans, approvals and grants write it back without the lock.             *)
(***************************************************************************)
EXTENDS SchemaLifecycle, TLAPS

USE DEF files

-----------------------------------------------------------------------------
(***************************************************************************)
(* The lock file                                                           *)
(***************************************************************************)
LockInv ==
    /\ at \in [Ops -> Phases]
    /\ LockFollowsSwitch

LEMMA InitLock == Init => LockInv
  BY OpsAssumption
  DEF Init, LockInv, LockFollowsSwitch, Switching, Ops, Locked, Phases

LEMMA StepLock == LockInv /\ [Next]_vars => LockInv'
<1> SUFFICES ASSUME LockInv, [Next]_vars PROVE LockInv'
  OBVIOUS
<1> USE OpsAssumption
    DEF LockInv, LockFollowsSwitch, Switching, Goes, Phases
<1>1. /\ Locked \subseteq Ops /\ None \notin Locked
      /\ Unlocked \subseteq Ops /\ Locked \intersect Unlocked = {}
      /\ Appliers \subseteq Locked /\ Reverters \subseteq Locked
      /\ Planners \subseteq Unlocked /\ Approvers \subseteq Unlocked
      /\ Others \subseteq Unlocked
  BY DEF Ops, Locked, Unlocked
<1>2. ASSUME NEW p \in Planners,
             PlanSchema(p) \/ \E s \in Schemas : ReadForPlan(p, s)
      PROVE  LockInv'
  BY <1>1, <1>2 DEF PlanSchema, ReadForPlan
<1>3. ASSUME NEW a \in Approvers,
             ReadForApproval(a) \/ CreateApproval(a) \/ Lapse(a)
      PROVE  LockInv'
  BY <1>1, <1>3 DEF ReadForApproval, CreateApproval, Lapse
<1>4. ASSUME NEW o \in Others,
             ReadForOther(o) \/ SaveSnapshot(o) \/ WriteOther(o)
      PROVE  LockInv'
  BY <1>1, <1>4 DEF ReadForOther, SaveSnapshot, WriteOther
<1>5. ASSUME NEW o \in Appliers, StartApply(o) PROVE LockInv'
  BY <1>1, <1>5 DEF StartApply, TakeLock
<1>6. ASSUME NEW o \in Reverters, StartRevert(o) PROVE LockInv'
  BY <1>1, <1>6 DEF StartRevert, TakeLock
<1>7. ASSUME NEW o \in Locked, RefuseBusy(o) \/ Switch(o) \/ Crash(o)
      PROVE  LockInv'
  <2>1. CASE RefuseBusy(o)
    BY <2>1 DEF RefuseBusy, Busy
  <2>2. CASE ReadLocked(o) \/ WriteSnapshot(o) \/ WriteState(o)
    BY <1>1, <2>2 DEF ReadLocked, WriteSnapshot, WriteState, Refuses
  <2>3. CASE Release(o)
    BY <1>1, <2>3 DEF Release
  <2>4. CASE Crash(o)
    BY <1>1, <2>4 DEF Crash
  <2> QED
    BY <1>7, <2>1, <2>2, <2>3, <2>4 DEF Switch
<1>8. CASE UNCHANGED vars
  BY <1>8 DEF vars
<1> QED
  BY <1>2, <1>3, <1>4, <1>5, <1>6, <1>7, <1>8 DEF Next

\* An apply or a revert that runs holds the lock file alone, whatever the
\* others do and wherever processes die, and leaves it behind only by dying.
THEOREM OneSwitch == Spec => []LockFollowsSwitch
<1>1. LockInv => LockFollowsSwitch
  BY DEF LockInv
<1> QED
  BY <1>1, InitLock, StepLock, PTL DEF Spec

-----------------------------------------------------------------------------
(***************************************************************************)
(* The history                                                             *)
(***************************************************************************)
\* What an apply or a revert may have been asked for.
Requests ==
    [kind : {"plan"}, id : Planners, approval : Approvers \union {None}]
    \union [kind : {"version"}, id : Ops \union {First}, approval : Approvers]
    \union [kind : {"snapshot"}, id : Ops, approval : Approvers]

JobsFit ==
    /\ DOMAIN job = Ops
    /\ \A p \in Planners : at[p] = "read" => job[p] \in Schemas
    /\ \A a \in Approvers : at[a] # "idle" =>
         /\ job[a] \in Approvals
         /\ job[a].kind = "plan" => job[a].id \in Planners
         /\ job[a].kind = "snapshot" => job[a].id \in Ops
    /\ \A o \in Locked : at[o] # "idle" => job[o] \in Requests

\* A document that tells a sound history.
Sound(d) ==
    /\ d \in Documents
    /\ Len(d.versions) > 0
    /\ d.live = d.versions[Len(d.versions)].hash
    /\ \A i \in 2 .. Len(d.versions) :
         d.versions[i].base # None => d.versions[i].base = d.versions[i - 1].hash

\* What ReadLocked found is still there in the copy: the target, and the
\* approval where one is needed.
Checked(o) ==
    /\ Exists(copy[o], job[o])
    /\ NeedsApproval(copy[o], job[o]) =>
         /\ job[o].approval # None
         /\ copy[o].approvals[job[o].approval] \in Approvals

HistoryInv ==
    /\ TypeOK /\ JobsFit
    /\ Sound(doc)
    /\ \A o \in Ops : at[o] \in {"read", "saved", "snapshot", "write"} => Sound(copy[o])
    /\ \A o \in Locked : at[o] \in {"snapshot", "write"} => Checked(o)

\* Kinds of operations.
LEMMA Kinds ==
    /\ Locked \subseteq Ops /\ None \notin Ops \union {First}
    /\ Unlocked \subseteq Ops /\ Locked \intersect Unlocked = {}
    /\ Appliers \subseteq Locked /\ Reverters \subseteq Locked
    /\ Planners \subseteq Unlocked /\ Approvers \subseteq Unlocked
    /\ Others \subseteq Unlocked
    /\ Planners \intersect Approvers = {} /\ Planners \intersect Others = {}
    /\ Approvers \intersect Others = {}
  BY OpsAssumption DEF Ops, Locked, Unlocked

\* An apply or a revert that passed its checks has a target among the schemas.
LEMMA TargetIsSchema ==
    ASSUME NEW d \in Documents, NEW j \in Requests, Exists(d, j),
           snaps \in [Ops -> Schemas \union {None}]
    PROVE  Target(d, j) \in Schemas
<1>1. CASE j.kind = "plan"
  <2>1. j.id \in Planners
    BY <1>1 DEF Requests
  <2>2. d.plans[j.id] \in Plans
    BY <1>1, <2>1 DEF Exists, Fresh, Documents
  <2> QED
    BY <1>1, <2>2 DEF Target, Plans
<1>2. CASE j.kind = "version"
  <2>1. \E i \in DOMAIN d.versions : d.versions[i].by = j.id
    BY <1>2 DEF Exists
  <2>2. PICK k \in DOMAIN d.versions : k = CHOOSE i \in DOMAIN d.versions : d.versions[i].by = j.id
    BY <2>1
  <2>3. d.versions[k] \in Versions
    BY DEF Documents
  <2> QED
    BY <1>2, <2>2, <2>3 DEF Target, Versions
<1>3. CASE j.kind = "snapshot"
  <2>1. j.id \in Ops
    BY <1>3 DEF Requests
  <2> QED
    BY <1>3, <2>1 DEF Target, Exists
<1> QED
  BY <1>1, <1>2, <1>3 DEF Requests

\* The write of an apply or a revert extends the history by one sound step.
LEMMA SwitchedSound ==
    ASSUME NEW o \in Locked, NEW d, Sound(d), job[o] \in Requests,
           Exists(d, job[o]),
           NeedsApproval(d, job[o]) =>
             /\ job[o].approval # None
             /\ d.approvals[job[o].approval] \in Approvals,
           snaps \in [Ops -> Schemas \union {None}]
    PROVE  LET g == Switched(d, o)
               e == IF NeedsApproval(d, job[o])
                    THEN Consumed(d, job[o].approval) ELSE d
           IN  /\ Sound(g)
               /\ g.versions = Append(d.versions, Version(d, o))
               /\ Version(d, o) \in Versions
               /\ g.approvals = e.approvals
<1> DEFINE j == job[o]
           e == IF NeedsApproval(d, j) THEN Consumed(d, j.approval) ELSE d
           f == Closed(e, j)
           v == Version(d, o)
<1>1. d \in Documents /\ d.versions \in Seq(Versions)
  BY DEF Sound, Documents
<1>2. Target(d, j) \in Schemas
  BY <1>1, TargetIsSchema
<1>3. j.kind = "plan" => /\ j.id \in Planners /\ d.plans[j.id] \in Plans
                         /\ d.plans[j.id].base = d.live
  BY <1>1 DEF Exists, Fresh, Documents, Requests
<1>4. NeedsApproval(d, j) => /\ j.approval \in Approvers
                             /\ d.approvals[j.approval] \in Approvals
  BY <1>1 DEF Requests, Documents
<1>5. e \in Documents /\ e.versions = d.versions /\ e.plans = d.plans
  <2>1. CASE NeedsApproval(d, j)
    <3> DEFINE x == d.approvals[j.approval]
               as == [d.approvals EXCEPT ![j.approval] = [x EXCEPT !.used = TRUE]]
    <3>1. [x EXCEPT !.used = TRUE] \in Approvals
      BY <1>4, <2>1 DEF Approvals
    <3>2. as \in [Approvers -> Approvals \union {None}]
      BY <1>1, <3>1 DEF Documents
    <3>3. e = [d EXCEPT !.approvals = as]
      BY <2>1 DEF Consumed
    <3> HIDE DEF as, e
    <3> QED
      BY <1>1, <3>2, <3>3 DEF Documents
  <2>2. CASE ~NeedsApproval(d, j)
    BY <1>1, <2>2
  <2> QED
    BY <2>1, <2>2
<1>6. f \in Documents /\ f.versions = d.versions /\ f.approvals = e.approvals
  <2> HIDE DEF e
  <2>1. CASE j.kind = "plan"
    <3> DEFINE x == e.plans[j.id]
               ps == [e.plans EXCEPT ![j.id] = [x EXCEPT !.status = "applied"]]
    <3>1. [x EXCEPT !.status = "applied"] \in Plans
      BY <1>3, <1>5, <2>1 DEF Plans
    <3>2. ps \in [Planners -> Plans \union {None}]
      BY <1>5, <3>1 DEF Documents
    <3>3. f = [e EXCEPT !.plans = ps]
      BY <2>1 DEF Closed
    <3> HIDE DEF ps, f
    <3> QED
      BY <1>5, <3>2, <3>3 DEF Documents
  <2>2. CASE j.kind # "plan"
    BY <1>5, <2>2 DEF Closed
  <2> QED
    BY <2>1, <2>2
<1>7. v \in Versions
  <2>1. v.by \in Ops \union {First} /\ v.hash \in Schemas
    BY <1>2, Kinds DEF Version
  <2>2. v.base \in Schemas \union {None}
    BY <1>3 DEF Version, Plans
  <2>3. v.approval \in Approvers \union {None}
    BY <1>4, Kinds DEF Version
  <2> QED
    BY <2>1, <2>2, <2>3 DEF Version, Versions
<1>8. v.hash = Target(d, j) /\ (v.base # None => v.base = d.live)
  BY <1>3 DEF Version
<1> DEFINE t == Target(d, j)
           w == Append(f.versions, v)
           z == IF NeedsSnapshot(d, j) THEN f.snapshots \union {o} ELSE f.snapshots
           g == Switched(d, o)
<1>9. g = [f EXCEPT !.live = t, !.snapshots = z, !.versions = w]
  BY DEF Switched
<1> HIDE DEF e, f, v, j, g
<1>10. /\ g \in Documents /\ g.live = Target(d, j)
       /\ g.versions = Append(d.versions, v) /\ g.approvals = e.approvals
  <2>1. w \in Seq(Versions) /\ w = Append(d.versions, v)
    BY <1>1, <1>6, <1>7
  <2>2. t \in Schemas /\ z \in SUBSET Ops
    BY <1>2, <1>6, Kinds DEF Documents
  <2> HIDE DEF w, t, z
  <2>3. g \in Documents /\ g.live = t /\ g.versions = w /\ g.approvals = f.approvals
    BY <1>6, <1>9, <2>1, <2>2 DEF Documents
  <2> QED
    BY <1>6, <2>1, <2>3 DEF t
<1>11. /\ Len(g.versions) = Len(d.versions) + 1
       /\ g.versions[Len(g.versions)] = v
       /\ \A i \in 1 .. Len(d.versions) : g.versions[i] = d.versions[i]
  BY <1>1, <1>7, <1>10
<1>12. ASSUME NEW i \in 2 .. Len(g.versions), g.versions[i].base # None
       PROVE  g.versions[i].base = g.versions[i - 1].hash
  <2>1. Len(d.versions) \in Nat /\ Len(d.versions) > 0
    BY <1>1 DEF Sound
  <2>2. CASE i = Len(g.versions)
    <3>1. i - 1 = Len(d.versions) /\ g.versions[i] = v
      BY <1>11, <2>1, <2>2
    <3>2. g.versions[i - 1] = d.versions[Len(d.versions)]
      BY <1>11, <2>1, <3>1
    <3> QED
      BY <1>8, <1>12, <3>1, <3>2 DEF Sound
  <2>3. CASE i # Len(g.versions)
    <3>1. i \in 2 .. Len(d.versions) /\ i - 1 \in 1 .. Len(d.versions) /\ i \in 1 .. Len(d.versions)
      BY <1>11, <2>1, <2>3
    <3>2. g.versions[i] = d.versions[i] /\ g.versions[i - 1] = d.versions[i - 1]
      BY <1>11, <3>1
    <3>3. \A n \in 2 .. Len(d.versions) :
            d.versions[n].base # None => d.versions[n].base = d.versions[n - 1].hash
      BY <1>1 DEF Sound
    <3>4. d.versions[i].base = d.versions[i - 1].hash
      BY <1>12, <3>1, <3>2, <3>3
    <3> QED
      BY <3>2, <3>4
  <2> QED
    BY <2>2, <2>3
<1> QED
  BY <1>7, <1>8, <1>10, <1>11, <1>12 DEF Sound, g, e, v, j

LEMMA InitHistory == Init => HistoryInv
<1> SUFFICES ASSUME Init PROVE HistoryInv
  OBVIOUS
<1> USE OpsAssumption, SchemasAssumption DEF Init
<1> DEFINE v == [by |-> First, hash |-> Start, base |-> None, approval |-> None]
<1>1. v \in Versions
  BY DEF Versions
<1>2. <<v>> \in Seq(Versions) /\ Len(<<v>>) = 1 /\ <<v>>[1] = v
  BY <1>1
<1> DEFINE ps == [p \in Planners |-> None]
           as == [a \in Approvers |-> None]
           vs == <<v>>
<1>3. doc.versions = vs /\ doc.live = v.hash
  OBVIOUS
<1>4. doc \in Documents
  <2>1. /\ ps \in [Planners -> Plans \union {None}]
        /\ as \in [Approvers -> Approvals \union {None}]
        /\ vs \in Seq(Versions)
    BY <1>2
  <2>2. doc = [live |-> Start, plans |-> ps, approvals |-> as,
               snapshots |-> {}, versions |-> vs]
    OBVIOUS
  <2> HIDE DEF ps, as, vs
  <2> QED
    BY <2>1, <2>2 DEF Documents
<1>5. Sound(doc)
  <2>1. Len(doc.versions) = 1 /\ doc.versions[1] = v /\ doc.live = v.hash
    BY <1>2, <1>3
  <2> HIDE DEF v
  <2>2. 2 .. Len(doc.versions) = {}
    BY <2>1
  <2>3. doc.live = doc.versions[Len(doc.versions)].hash
    BY <2>1
  <2> QED
    BY <1>4, <2>1, <2>2, <2>3 DEF Sound
<1>6. TypeOK
  BY <1>4, Kinds DEF TypeOK, Phases
<1>7. JobsFit
  BY Kinds DEF JobsFit
<1> QED
  BY <1>5, <1>6, <1>7, Kinds DEF HistoryInv

\* A writer that changes neither the live schema nor the versions keeps a
\* sound document sound.
LEMMA SameHistory ==
    ASSUME NEW d, NEW e, Sound(d), e \in Documents,
           e.live = d.live, e.versions = d.versions
    PROVE  Sound(e)
  BY DEF Sound

LEMMA KeepsJobs == HistoryInv /\ [Next]_vars => JobsFit'
<1> SUFFICES ASSUME HistoryInv, [Next]_vars PROVE JobsFit'
  OBVIOUS
<1> USE Kinds DEF HistoryInv, TypeOK, JobsFit, Goes, Phases
<1>1. ASSUME NEW p \in Planners,
             PlanSchema(p) \/ \E s \in Schemas : ReadForPlan(p, s)
      PROVE  JobsFit'
  BY <1>1 DEF PlanSchema, ReadForPlan
<1>2. ASSUME NEW a \in Approvers, ReadForApproval(a) PROVE JobsFit'
  <2>1. PICK x \in Approvable(doc) : job' = [job EXCEPT ![a] = x]
    BY <1>2 DEF ReadForApproval
  <2>2. ASSUME NEW i \in DOMAIN doc.versions
        PROVE  doc.versions[i].by \in Ops \union {First}
    <3>1. doc.versions \in Seq(Versions)
      BY DEF Documents
    <3>2. doc.versions[i] \in Versions
      BY <3>1
    <3> QED
      BY <3>2 DEF Versions
  <2>3. /\ x \in Approvals
        /\ x.kind = "plan" => x.id \in Planners
        /\ x.kind = "snapshot" => x.id \in Ops
    <3>1. CASE \E p \in Planners : x = [kind |-> "plan", id |-> p, used |-> FALSE]
      BY <3>1 DEF Approvals
    <3>2. CASE \E i \in DOMAIN doc.versions :
                 x = [kind |-> "version", id |-> doc.versions[i].by, used |-> FALSE]
      BY <2>2, <3>2 DEF Approvals
    <3>3. CASE \E o \in doc.snapshots : x = [kind |-> "snapshot", id |-> o, used |-> FALSE]
      BY <3>3 DEF Approvals, Documents
    <3> QED
      BY <3>1, <3>2, <3>3 DEF Approvable
  <2> QED
    BY <1>2, <2>1, <2>3 DEF ReadForApproval
<1>3. ASSUME NEW a \in Approvers, CreateApproval(a) \/ Lapse(a) PROVE JobsFit'
  <2>1. job' = job /\ \A o \in Ops \ {a} : at'[o] = at[o]
    BY <1>3 DEF CreateApproval, Lapse
  <2>2. at[a] # "idle"
    BY <1>3 DEF CreateApproval, Lapse
  <2> QED
    BY <2>1, <2>2
<1>4. ASSUME NEW o \in Others,
             ReadForOther(o) \/ SaveSnapshot(o) \/ WriteOther(o) PROVE JobsFit'
  BY <1>4 DEF ReadForOther, SaveSnapshot, WriteOther
<1>5. ASSUME NEW o \in Appliers, StartApply(o) PROVE JobsFit'
  <2>1. PICK p \in Planners, a \in Tokens :
          job' = [job EXCEPT ![o] = [kind |-> "plan", id |-> p, approval |-> a]]
    BY <1>5 DEF StartApply
  <2>2. [kind |-> "plan", id |-> p, approval |-> a] \in Requests
    BY DEF Requests, Tokens
  <2> QED
    BY <1>5, <2>1, <2>2 DEF StartApply
<1>6. ASSUME NEW o \in Reverters, StartRevert(o) PROVE JobsFit'
  <2>1. PICK x \in RevertTargets, a \in Tokens \ {None} :
          job' = [job EXCEPT ![o] = [kind |-> x.kind, id |-> x.id, approval |-> a]]
    BY <1>6 DEF StartRevert
  <2>2. [kind |-> x.kind, id |-> x.id, approval |-> a] \in Requests
    BY DEF Requests, Tokens, RevertTargets
  <2> QED
    BY <1>6, <2>1, <2>2 DEF StartRevert
<1>7. ASSUME NEW o \in Locked, RefuseBusy(o) \/ Switch(o) \/ Crash(o)
      PROVE  JobsFit'
  <2>1. /\ job' = job
        /\ at' = at \/ (at[o] # "idle" /\ \A q \in Ops \ {o} : at'[q] = at[q])
    BY <1>7 DEF RefuseBusy, Switch, ReadLocked, WriteSnapshot, WriteState,
                Release, Crash, Switching, Refuses
  <2> QED
    BY <2>1
<1>8. CASE UNCHANGED vars
  BY <1>8 DEF vars
<1> QED
  BY <1>1, <1>2, <1>3, <1>4, <1>5, <1>6, <1>7, <1>8 DEF Next

\* A step that leaves the document alone keeps the types.
LEMMA TypesStay ==
    ASSUME HistoryInv, doc' = doc,
           lock' \in {lock, None} \union Locked,
           snaps' \in [Ops -> Schemas \union {None}],
           lapsed' \subseteq Approvers, at' \in [Ops -> Phases],
           copy' \in [Ops -> Documents \union {None}]
    PROVE  TypeOK'
  BY DEF HistoryInv, TypeOK

\* What a running operation found is not taken away by others.
LEMMA CheckedStays ==
    ASSUME NEW o \in Locked, Checked(o), job[o] \in Requests,
           copy'[o] = copy[o], job'[o] = job[o],
           \A q \in Ops : snaps[q] # None => snaps'[q] # None
    PROVE  Checked(o)'
  BY DEF Checked, Exists, Requests, NeedsApproval, Within

\* One step of one operation: the others keep what they have.
LEMMA OthersStay ==
    ASSUME HistoryInv, [Next]_vars, NEW o \in Ops,
           \A q \in Ops \ {o} : copy'[q] = copy[q] /\ at'[q] = at[q] /\ job'[q] = job[q],
           \A q \in Ops : snaps[q] # None => snaps'[q] # None
    PROVE  /\ \A q \in Ops \ {o} :
                at'[q] \in {"read", "saved", "snapshot", "write"} => Sound(copy'[q])
           /\ \A q \in Locked \ {o} :
                at'[q] \in {"snapshot", "write"} => Checked(q)'
<1>1. ASSUME NEW q \in Locked \ {o}, at'[q] \in {"snapshot", "write"}
      PROVE  Checked(q)'
  <2>1. Checked(q) /\ job[q] \in Requests
    BY <1>1, Kinds DEF HistoryInv, JobsFit
  <2> QED
    BY <1>1, <2>1, CheckedStays, Kinds
<1> QED
  BY <1>1 DEF HistoryInv

LEMMA StepHistory == HistoryInv /\ [Next]_vars => HistoryInv'
<1> SUFFICES ASSUME HistoryInv, [Next]_vars PROVE HistoryInv'
  OBVIOUS
<1>0. JobsFit' /\ DOMAIN job = Ops
  BY KeepsJobs DEF HistoryInv, JobsFit
<1> USE Kinds DEF Goes, Phases
\* Reading, and leaving the document alone.
<1>1. ASSUME NEW o \in Unlocked, Reads(o), Goes(o, "read"), UNCHANGED <<files, lapsed>>,
             \A q \in Ops \ {o} : job'[q] = job[q]
      PROVE  HistoryInv'
  <2>1. TypeOK'
    BY <1>1, TypesStay DEF HistoryInv, TypeOK, Reads
  <2>2. \A q \in Ops \ {o} : copy'[q] = copy[q] /\ at'[q] = at[q] /\ job'[q] = job[q]
    BY <1>1 DEF Reads, HistoryInv, TypeOK
  <2>3. copy'[o] = doc /\ Sound(doc) /\ Sound(doc')
    BY <1>1 DEF Reads, HistoryInv, TypeOK
  <2> QED
    BY <1>0, <1>1, <2>1, <2>2, <2>3, OthersStay DEF HistoryInv
<1>2. ASSUME NEW o \in Unlocked, NEW d, Writes(o, d), Goes(o, "done"), Sound(d),
             UNCHANGED <<lock, snaps, lapsed, job>>
      PROVE  HistoryInv'
  <2>1. doc' \in Documents /\ Sound(doc')
    BY <1>2 DEF Writes, Sound
  <2>2. TypeOK'
    BY <1>2, <2>1 DEF HistoryInv, TypeOK, Writes
  <2>3. \A q \in Ops \ {o} : copy'[q] = copy[q] /\ at'[q] = at[q] /\ job'[q] = job[q]
    BY <1>2 DEF Writes, HistoryInv, TypeOK
  <2>4. at'[o] = "done"
    BY <1>2 DEF HistoryInv, TypeOK
  <2> QED
    BY <1>0, <1>2, <2>1, <2>2, <2>3, <2>4, OthersStay DEF HistoryInv
<1>3. ASSUME NEW p \in Planners, NEW s \in Schemas, ReadForPlan(p, s)
      PROVE  HistoryInv'
  BY <1>0, <1>1, <1>3 DEF ReadForPlan
<1>4. ASSUME NEW p \in Planners, PlanSchema(p) PROVE HistoryInv'
  <2>1. Sound(copy[p]) /\ copy[p] \in Documents /\ job[p] \in Schemas
    BY <1>4 DEF PlanSchema, HistoryInv, JobsFit, Sound
  <2> DEFINE d == copy[p]
             x == [want |-> job[p], base |-> d.live, status |-> "planned"]
             ps == [d.plans EXCEPT ![p] = x]
             e == Planned(d, p, job[p])
  <2>2. x \in Plans
    BY <2>1 DEF Plans, Documents
  <2>3. ps \in [Planners -> Plans \union {None}]
    BY <2>1, <2>2 DEF Documents
  <2>4. e = [d EXCEPT !.plans = ps]
    BY DEF Planned
  <2> HIDE DEF ps, d, e
  <2>5. e \in Documents /\ e.live = d.live /\ e.versions = d.versions
    BY <2>1, <2>3, <2>4 DEF Documents, d
  <2>6. Sound(e)
    BY <2>1, <2>5, SameHistory DEF d
  <2> QED
    BY <1>2, <1>4, <2>6 DEF PlanSchema, d, e
<1>5. ASSUME NEW a \in Approvers, ReadForApproval(a) PROVE HistoryInv'
  BY <1>0, <1>1, <1>5 DEF ReadForApproval
<1>6. ASSUME NEW a \in Approvers, CreateApproval(a) PROVE HistoryInv'
  <2>1. Sound(copy[a]) /\ copy[a] \in Documents /\ job[a] \in Approvals
    BY <1>6 DEF CreateApproval, HistoryInv, JobsFit, Sound
  <2> DEFINE d == copy[a]
             as == [d.approvals EXCEPT ![a] = job[a]]
             e == [d EXCEPT !.approvals[a] = job[a]]
  <2>2. as \in [Approvers -> Approvals \union {None}]
    BY <2>1 DEF Documents
  <2>3. e = [d EXCEPT !.approvals = as]
    OBVIOUS
  <2>4. doc' = e /\ Writes(a, e)
    BY <1>6 DEF CreateApproval, Writes
  <2> HIDE DEF as, d, e
  <2>5. e \in Documents /\ e.live = d.live /\ e.versions = d.versions
    BY <2>1, <2>2, <2>3 DEF Documents, d
  <2>6. Sound(e)
    BY <2>1, <2>5, SameHistory DEF d
  <2> QED
    BY <1>2, <1>6, <2>4, <2>6 DEF CreateApproval
<1>7. ASSUME NEW a \in Approvers, Lapse(a) PROVE HistoryInv'
  <2>1. lapsed' \subseteq Approvers /\ UNCHANGED <<files, at, job, copy>>
    BY <1>7 DEF Lapse, HistoryInv, TypeOK
  <2> QED
    BY <1>0, <2>1 DEF HistoryInv, TypeOK, Checked, Exists, Fresh,
                      NeedsApproval, Within
<1>8. ASSUME NEW o \in Others,
             ReadForOther(o) \/ SaveSnapshot(o) \/ WriteOther(o) PROVE HistoryInv'
  <2>1. CASE ReadForOther(o)
    BY <1>0, <1>1, <2>1 DEF ReadForOther
  <2>2. CASE SaveSnapshot(o)
    <3>1. Sound(copy[o]) /\ copy[o].live \in Schemas
      BY <2>2 DEF SaveSnapshot, HistoryInv, Sound, Documents
    <3>2. /\ snaps' \in [Ops -> Schemas \union {None}]
          /\ \A q \in Ops : snaps[q] # None => snaps'[q] # None
      BY <2>2, <3>1, SchemasAssumption DEF SaveSnapshot, HistoryInv, TypeOK
    <3>3. TypeOK'
      BY <2>2, <3>2, TypesStay DEF SaveSnapshot, HistoryInv, TypeOK
    <3>4. \A q \in Ops : copy'[q] = copy[q] /\ job'[q] = job[q] /\ (q # o => at'[q] = at[q])
      BY <2>2 DEF SaveSnapshot, HistoryInv, TypeOK
    <3>5. Sound(doc') /\ Sound(copy'[o])
      BY <2>2, <3>1, <3>4 DEF SaveSnapshot, HistoryInv
    <3> QED
      BY <1>0, <3>2, <3>3, <3>4, <3>5, OthersStay DEF HistoryInv
  <2>3. CASE WriteOther(o)
    <3> DEFINE d == copy[o]
               z == IF at[o] = "saved" THEN d.snapshots \union {o} ELSE d.snapshots
               e == [d EXCEPT !.snapshots = IF at[o] = "saved" THEN @ \union {o} ELSE @]
    <3>1. Sound(d) /\ d \in Documents
      BY <2>3 DEF WriteOther, HistoryInv, Sound
    <3>2. z \in SUBSET Ops
      BY <3>1 DEF Documents
    <3>3. e = [d EXCEPT !.snapshots = z]
      OBVIOUS
    <3>4. Writes(o, e)
      BY <2>3 DEF WriteOther
    <3> HIDE DEF z, d, e
    <3>5. e \in Documents /\ e.live = d.live /\ e.versions = d.versions
      BY <3>1, <3>2, <3>3 DEF Documents
    <3>6. Sound(e)
      BY <3>1, <3>5, SameHistory
    <3> QED
      BY <1>2, <2>3, <3>4, <3>6 DEF WriteOther
  <2> QED
    BY <1>8, <2>1, <2>2, <2>3
<1>9. ASSUME NEW o \in Locked, NEW phase \in {"locked", "release", "done", "refused", "dead"},
             doc' = doc, snaps' = snaps, lapsed' = lapsed,
             lock' \in {lock, None, o}, Goes(o, phase),
             copy' = copy \/ copy' = [copy EXCEPT ![o] = None],
             \A q \in Ops \ {o} : job'[q] = job[q]
      PROVE  HistoryInv'
  <2>1. TypeOK'
    BY <1>9, TypesStay DEF HistoryInv, TypeOK
  <2>2. \A q \in Ops \ {o} : copy'[q] = copy[q] /\ at'[q] = at[q] /\ job'[q] = job[q]
    BY <1>9 DEF HistoryInv, TypeOK
  <2>3. at'[o] = phase /\ Sound(doc')
    BY <1>9 DEF HistoryInv, TypeOK
  <2> QED
    BY <1>0, <1>9, <2>1, <2>2, <2>3, OthersStay DEF HistoryInv
<1>10. ASSUME NEW o \in Appliers, StartApply(o) PROVE HistoryInv'
  <2>1. \A q \in Ops \ {o} : job'[q] = job[q]
    BY <1>0, <1>10 DEF StartApply
  <2> QED
    BY <1>9, <1>10, <2>1 DEF StartApply, TakeLock
<1>11. ASSUME NEW o \in Reverters, StartRevert(o) PROVE HistoryInv'
  <2>1. \A q \in Ops \ {o} : job'[q] = job[q]
    BY <1>0, <1>11 DEF StartRevert
  <2> QED
    BY <1>9, <1>11, <2>1 DEF StartRevert, TakeLock
<1>12. CASE UNCHANGED vars
  BY <1>0, <1>12 DEF vars, HistoryInv, TypeOK, Checked, Exists, Fresh,
                     NeedsApproval, Within
<1>13. ASSUME NEW o \in Locked, RefuseBusy(o) \/ Crash(o) \/ Release(o)
       PROVE  HistoryInv'
  <2>1. CASE RefuseBusy(o)
    BY <1>12, <2>1 DEF RefuseBusy, Busy, vars
  <2>2. CASE Crash(o)
    BY <1>9, <2>2 DEF Crash
  <2>3. CASE Release(o)
    BY <1>9, <2>3 DEF Release
  <2> QED
    BY <1>13, <2>1, <2>2, <2>3
<1>14. ASSUME NEW o \in Locked, ReadLocked(o) PROVE HistoryInv'
  <2>1. CASE ~Allowed(doc, job[o]) /\ Refuses(o) /\ UNCHANGED copy
    BY <1>9, <1>14, <2>1 DEF ReadLocked, Refuses
  <2>2. CASE Allowed(doc, job[o]) /\ Reads(o) /\ Goes(o, "snapshot")
    <3>1. TypeOK'
      BY <1>14, <2>2, TypesStay DEF ReadLocked, Reads, HistoryInv, TypeOK
    <3>2. \A q \in Ops \ {o} : copy'[q] = copy[q] /\ at'[q] = at[q] /\ job'[q] = job[q]
      BY <1>14, <2>2 DEF ReadLocked, Reads, HistoryInv, TypeOK
    <3>3. copy'[o] = doc /\ job'[o] = job[o] /\ Sound(doc) /\ Sound(doc')
      BY <1>14, <2>2 DEF ReadLocked, Reads, HistoryInv, TypeOK
    <3>4. job[o] \in Requests
      BY <1>14 DEF ReadLocked, HistoryInv, JobsFit
    <3>5. Checked(o)'
      <4>1. Exists(copy[o], job[o])'
        BY <1>14, <2>2, <3>3 DEF ReadLocked, Allowed, Exists
      <4>2. ASSUME NeedsApproval(doc, job[o])
            PROVE  /\ job[o].approval # None
                   /\ doc.approvals[job[o].approval] \in Approvals
        <5>1. /\ job[o].approval # None
              /\ doc.approvals[job[o].approval] =
                   [kind |-> job[o].kind, id |-> job[o].id, used |-> FALSE]
          BY <2>2, <4>2 DEF Allowed, Approved
        <5>2. /\ job[o].kind \in {"plan", "version", "snapshot"}
              /\ job[o].id \in Ops \union {First}
          BY <3>4 DEF Requests
        <5> QED
          BY <5>1, <5>2 DEF Approvals
      <4> QED
        BY <3>3, <4>1, <4>2 DEF Checked, NeedsApproval, Within
    <3> QED
      BY <1>0, <1>14, <3>1, <3>2, <3>3, <3>5, OthersStay DEF ReadLocked, HistoryInv
  <2> QED
    BY <1>14, <2>1, <2>2 DEF ReadLocked
<1>15. ASSUME NEW o \in Locked, WriteSnapshot(o) PROVE HistoryInv'
  <2>1. Sound(copy[o]) /\ Checked(o) /\ job[o] \in Requests /\ copy[o].live \in Schemas
    BY <1>15 DEF WriteSnapshot, HistoryInv, JobsFit, Sound, Documents
  <2>2. /\ snaps' \in [Ops -> Schemas \union {None}]
        /\ \A q \in Ops : snaps[q] # None => snaps'[q] # None
    BY <1>15, <2>1, SchemasAssumption DEF WriteSnapshot, HistoryInv, TypeOK
  <2>3. TypeOK'
    BY <1>15, <2>2, TypesStay DEF WriteSnapshot, HistoryInv, TypeOK
  <2>4. \A q \in Ops : copy'[q] = copy[q] /\ job'[q] = job[q] /\ (q # o => at'[q] = at[q])
    BY <1>15 DEF WriteSnapshot, HistoryInv, TypeOK
  <2>5. Checked(o)'
    BY <2>1, <2>2, <2>4, CheckedStays
  <2>6. Sound(doc') /\ Sound(copy'[o])
    BY <1>15, <2>1, <2>4 DEF WriteSnapshot, HistoryInv
  <2> QED
    BY <1>0, <2>2, <2>3, <2>4, <2>5, <2>6, OthersStay DEF HistoryInv
<1>16. ASSUME NEW o \in Locked, WriteState(o) PROVE HistoryInv'
  <2>1. /\ Sound(copy[o]) /\ Checked(o) /\ job[o] \in Requests
        /\ snaps \in [Ops -> Schemas \union {None}]
    BY <1>16 DEF WriteState, HistoryInv, JobsFit, TypeOK
  <2>2. Sound(Switched(copy[o], o))
    BY <2>1, SwitchedSound DEF Checked
  <2>3. doc' \in Documents /\ Sound(doc')
    BY <1>16, <2>2 DEF WriteState, Writes, Sound
  <2>4. TypeOK'
    BY <1>16, <2>3 DEF WriteState, Writes, HistoryInv, TypeOK
  <2>5. \A q \in Ops \ {o} : copy'[q] = copy[q] /\ at'[q] = at[q] /\ job'[q] = job[q]
    BY <1>16 DEF WriteState, Writes, HistoryInv, TypeOK
  <2>6. at'[o] = "written" /\ snaps' = snaps
    BY <1>16 DEF WriteState, HistoryInv, TypeOK
  <2> QED
    BY <1>0, <2>3, <2>4, <2>5, <2>6, OthersStay DEF HistoryInv
<1> QED
  BY <1>3, <1>4, <1>5, <1>6, <1>7, <1>8, <1>10, <1>11, <1>12, <1>13, <1>14,
     <1>15, <1>16 DEF Next, Switch

\* Type correctness.
THEOREM TypeCorrect == Spec => []TypeOK
<1>1. HistoryInv => TypeOK
  BY DEF HistoryInv
<1> QED
  BY <1>1, InitHistory, StepHistory, PTL DEF Spec

\* Whatever plans, approvals and grants overwrite, the history that the
\* document tells ends in the live schema, and each applied version was
\* planned against the one right before it.
THEOREM History == Spec => []HistoryIsSound
<1>1. HistoryInv => HistoryIsSound
  BY DEF HistoryInv, Sound, HistoryIsSound
<1> QED
  BY <1>1, InitHistory, StepHistory, PTL DEF Spec

-----------------------------------------------------------------------------
(***************************************************************************)
(* The approvals                                                           *)
(***************************************************************************)
\* Approvals whose token is known to somebody.
Issued == {a \in Approvers : at[a] = "done"}

UsedIn(d, a) == d.approvals[a] \in Approvals /\ d.approvals[a].used

\* In the history of d, destructive changes and reverts used approvals out of
\* A, each another one.
Spent(d, A) ==
    LET vs == d.versions IN
      /\ \A i \in 2 .. Len(vs) :
           \/ vs[i].base # None /\ <<vs[i].base, vs[i].hash>> \notin Drops
           \/ vs[i].approval # None
      /\ \A i \in 1 .. Len(vs) :
           vs[i].approval # None => vs[i].approval \in A /\ UsedIn(d, vs[i].approval)
      /\ \A i, k \in 1 .. Len(vs) :
           i # k => vs[i].approval = None \/ vs[i].approval # vs[k].approval

\* The approval an operation is about to use is unused in its copy.
ToSpend(o) ==
    NeedsApproval(copy[o], job[o]) => ~UsedIn(copy[o], job[o].approval)

ApprovalInv ==
    /\ HistoryInv
    /\ Spent(doc, Issued)
    /\ \A o \in Ops : at[o] \in {"read", "saved", "snapshot", "write"} =>
         Spent(copy[o], Issued)
    /\ \A o \in Locked : at[o] \in {"snapshot", "write"} => ToSpend(o)
    /\ \A o \in Locked : at[o] # "idle" => job[o].approval \in Issued \union {None}

LEMMA InitSpent == Init => ApprovalInv
<1> SUFFICES ASSUME Init PROVE ApprovalInv
  OBVIOUS
<1> DEFINE v == [by |-> First, hash |-> Start, base |-> None, approval |-> None]
<1>1. doc.versions = <<v>> /\ v.approval = None
  BY DEF Init
<1>2. Len(doc.versions) = 1 /\ doc.versions[1].approval = None
  BY <1>1
<1>3. 2 .. Len(doc.versions) = {} /\ 1 .. Len(doc.versions) = {1}
  BY <1>2
<1>4. Spent(doc, Issued)
  BY <1>2, <1>3 DEF Spent
<1>5. \A o \in Ops : at[o] = "idle"
  BY DEF Init
<1> QED
  BY <1>4, <1>5, InitHistory, Kinds DEF ApprovalInv

LEMMA SpentGrows ==
    ASSUME NEW d, NEW A, NEW B, Spent(d, A), A \subseteq B
    PROVE  Spent(d, B)
  BY DEF Spent

\* Another document with the same history, which has not lost a used approval.
LEMMA SpentCopies ==
    ASSUME NEW d, NEW e, NEW A, Spent(d, A), e.versions = d.versions,
           \A a \in A : UsedIn(d, a) => UsedIn(e, a)
    PROVE  Spent(e, A)
  BY DEF Spent

\* The version that is pushed spends an approval that none before it spent.
LEMMA SwitchedSpent ==
    ASSUME NEW o \in Locked, NEW d, NEW A, A \subseteq Approvers,
           Sound(d), Spent(d, A), job[o] \in Requests, Exists(d, job[o]),
           job[o].approval \in A \union {None},
           NeedsApproval(d, job[o]) =>
             /\ job[o].approval # None
             /\ d.approvals[job[o].approval] \in Approvals
             /\ ~UsedIn(d, job[o].approval),
           snaps \in [Ops -> Schemas \union {None}]
    PROVE  Spent(Switched(d, o), A)
<1> DEFINE j == job[o]
           v == Version(d, o)
           e == IF NeedsApproval(d, j) THEN Consumed(d, j.approval) ELSE d
           g == Switched(d, o)
<1>1. d \in Documents /\ d.versions \in Seq(Versions)
  BY DEF Sound, Documents
<1>2. /\ g.versions = Append(d.versions, v) /\ v \in Versions
      /\ g.approvals = e.approvals
  BY SwitchedSound
<1> DEFINE c == j.approval
<1>3. NeedsApproval(d, j) => /\ c \in A /\ d.approvals[c] \in Approvals
                             /\ g.approvals = [d.approvals EXCEPT ![c].used = TRUE]
  <2>1. Consumed(d, c).approvals = [d.approvals EXCEPT ![c].used = TRUE]
    BY <1>1 DEF Consumed, Documents
  <2> QED
    BY <1>2, <2>1
<1>4. ~NeedsApproval(d, j) => g.approvals = d.approvals
  BY <1>2
<1>5. d.approvals \in [Approvers -> Approvals \union {None}]
  BY <1>1 DEF Documents
<1>6. NeedsApproval(d, j) => UsedIn(g, c)
  <2> HAVE NeedsApproval(d, j)
  <2>1. c \in Approvers /\ d.approvals[c] \in Approvals
    BY <1>3
  <2>2. g.approvals[c] = [d.approvals[c] EXCEPT !.used = TRUE]
    BY <1>3, <1>5, <2>1
  <2> HIDE DEF g, c
  <2> QED
    BY <2>1, <2>2 DEF UsedIn, Approvals
<1>7. \A a \in Approvers : UsedIn(d, a) => UsedIn(g, a)
  BY <1>3, <1>4, <1>5, <1>6 DEF UsedIn
<1>8. v.approval = IF NeedsApproval(d, j) THEN c ELSE None
  BY DEF Version
<1>9. ~NeedsApproval(d, j) =>
        v.base # None /\ <<v.base, v.hash>> \notin Drops
  <2>1. CASE j.kind = "plan"
    <3>1. j.id \in Planners /\ d.plans[j.id] \in Plans
      BY <1>1, <2>1 DEF Exists, Fresh, Documents, Requests
    <3>2. v.base = d.plans[j.id].base /\ v.hash = d.plans[j.id].want
      BY <2>1 DEF Version, Target
    <3> QED
      BY <2>1, <3>1, <3>2, SchemasAssumption DEF Plans, NeedsApproval, Within
  <2>2. CASE j.kind # "plan"
    BY <2>2 DEF NeedsApproval, Within
  <2> QED
    BY <2>1, <2>2
<1> HIDE DEF j, v, e, g, c
<1>10. LET n == Len(d.versions) IN
         /\ n \in Nat /\ Len(g.versions) = n + 1 /\ g.versions[n + 1] = v
         /\ \A i \in 1 .. n : g.versions[i] = d.versions[i]
  BY <1>1, <1>2
<1>11. ASSUME NEW i \in 2 .. Len(g.versions)
       PROVE  \/ /\ g.versions[i].base # None
                 /\ <<g.versions[i].base, g.versions[i].hash>> \notin Drops
              \/ g.versions[i].approval # None
  <2>1. CASE i = Len(d.versions) + 1
    BY <1>3, <1>8, <1>9, <1>10, <2>1, Kinds
  <2>2. CASE i \in 2 .. Len(d.versions)
    BY <1>10, <2>2 DEF Spent
  <2> QED
    BY <1>10, <2>1, <2>2
<1>12. ASSUME NEW i \in 1 .. Len(g.versions), g.versions[i].approval # None
       PROVE  g.versions[i].approval \in A /\ UsedIn(g, g.versions[i].approval)
  <2>1. CASE i = Len(d.versions) + 1
    BY <1>3, <1>6, <1>8, <1>10, <1>12, <2>1
  <2>2. CASE i \in 1 .. Len(d.versions)
    BY <1>7, <1>10, <1>12, <2>2 DEF Spent
  <2> QED
    BY <1>10, <2>1, <2>2
<1>13. ASSUME NEW i \in 1 .. Len(g.versions), NEW k \in 1 .. Len(g.versions),
              i # k, g.versions[i].approval # None
       PROVE  g.versions[i].approval # g.versions[k].approval
  <2>1. \A m \in 1 .. Len(d.versions) : d.versions[m].approval # None => d.versions[m].approval # v.approval
    BY <1>8 DEF Spent, c, j
  <2>2. CASE i \in 1 .. Len(d.versions) /\ k \in 1 .. Len(d.versions)
    BY <1>10, <1>13, <2>2 DEF Spent
  <2>3. CASE i \in 1 .. Len(d.versions) /\ k = Len(d.versions) + 1
    BY <1>10, <1>13, <2>1, <2>3
  <2>4. CASE i = Len(d.versions) + 1 /\ k \in 1 .. Len(d.versions)
    BY <1>10, <1>13, <2>1, <2>4
  <2> QED
    BY <1>10, <1>13, <2>2, <2>3, <2>4
<1> QED
  BY <1>11, <1>12, <1>13 DEF Spent, g

\* One step of one operation that leaves the document alone and checks
\* nothing, and gives an apply or a revert an issued approval if it starts.
LEMMA SpentStays ==
    ASSUME ApprovalInv, HistoryInv', NEW o \in Ops, doc' = doc,
           \A q \in Ops \ {o} : copy'[q] = copy[q] /\ at'[q] = at[q] /\ job'[q] = job[q],
           Issued \subseteq Issued',
           at'[o] \in {"read", "saved", "snapshot", "write"} => Spent(copy'[o], Issued),
           o \in Locked /\ at'[o] \in {"snapshot", "write"} => ToSpend(o)',
           o \in Locked /\ at'[o] # "idle" => job'[o].approval \in Issued \union {None}
    PROVE  ApprovalInv'
<1>1. Spent(doc', Issued')
  BY SpentGrows DEF ApprovalInv
<1>2. ASSUME NEW q \in Ops, at'[q] \in {"read", "saved", "snapshot", "write"}
      PROVE  Spent(copy'[q], Issued')
  BY <1>2, SpentGrows DEF ApprovalInv
<1>3. ASSUME NEW q \in Locked, at'[q] \in {"snapshot", "write"} PROVE ToSpend(q)'
  BY <1>3, Kinds DEF ApprovalInv, ToSpend, NeedsApproval, Within, UsedIn
<1>4. ASSUME NEW q \in Locked, at'[q] # "idle"
      PROVE  job'[q].approval \in Issued' \union {None}
  BY <1>4, Kinds DEF ApprovalInv
<1> QED
  BY <1>1, <1>2, <1>3, <1>4 DEF ApprovalInv

\* One step that writes the document and ends the operation's copy.
LEMMA SpentWritten ==
    ASSUME ApprovalInv, HistoryInv', NEW o \in Ops, Spent(doc', Issued'),
           \A q \in Ops \ {o} : copy'[q] = copy[q] /\ at'[q] = at[q],
           job' = job, at[o] # "idle", at'[o] \in {"done", "written"},
           Issued \subseteq Issued'
    PROVE  ApprovalInv'
<1>1. ASSUME NEW q \in Ops, at'[q] \in {"read", "saved", "snapshot", "write"}
      PROVE  Spent(copy'[q], Issued')
  BY <1>1, SpentGrows DEF ApprovalInv
<1>2. ASSUME NEW q \in Locked, at'[q] \in {"snapshot", "write"} PROVE ToSpend(q)'
  BY <1>2, Kinds DEF ApprovalInv, ToSpend, NeedsApproval, Within, UsedIn
<1>3. ASSUME NEW q \in Locked, at'[q] # "idle"
      PROVE  job'[q].approval \in Issued' \union {None}
  BY <1>3, Kinds DEF ApprovalInv
<1> QED
  BY <1>1, <1>2, <1>3 DEF ApprovalInv

\* An approval that was issued stays issued.
LEMMA IssuedStays == HistoryInv /\ [Next]_vars => Issued \subseteq Issued'
<1> SUFFICES ASSUME HistoryInv, [Next]_vars, NEW a \in Issued PROVE a \in Issued'
  BY DEF Issued
<1> USE Kinds DEF Goes
<1>1. a \in Approvers /\ at[a] = "done" /\ at \in [Ops -> Phases]
  BY DEF Issued, HistoryInv, TypeOK
<1>2. CASE UNCHANGED vars
  BY <1>1, <1>2 DEF vars, Issued
<1>3. ASSUME NEW p \in Planners,
             PlanSchema(p) \/ \E s \in Schemas : ReadForPlan(p, s)
      PROVE  a \in Issued'
  BY <1>1, <1>3 DEF PlanSchema, ReadForPlan, Issued
<1>4. ASSUME NEW b \in Approvers, ReadForApproval(b) \/ CreateApproval(b) \/ Lapse(b)
      PROVE  a \in Issued'
  <2>1. at' = at \/ (at[b] # "done" /\ \A q \in Ops \ {b} : at'[q] = at[q])
    BY <1>1, <1>4 DEF ReadForApproval, CreateApproval, Lapse
  <2> QED
    BY <1>1, <2>1 DEF Issued
<1>5. ASSUME NEW o \in Others,
             ReadForOther(o) \/ SaveSnapshot(o) \/ WriteOther(o)
      PROVE  a \in Issued'
  <2>1. \A q \in Ops \ {o} : at'[q] = at[q]
    BY <1>1, <1>5 DEF ReadForOther, SaveSnapshot, WriteOther
  <2> QED
    BY <1>1, <2>1 DEF Issued
<1>6. ASSUME NEW o \in Locked,
             \/ StartApply(o) \/ StartRevert(o) \/ RefuseBusy(o)
             \/ Switch(o) \/ Crash(o)
      PROVE  a \in Issued'
  <2>1. \A q \in Ops \ {o} : at'[q] = at[q]
    BY <1>1, <1>6 DEF StartApply, StartRevert, RefuseBusy, Switch, ReadLocked,
                      WriteSnapshot, WriteState, Release, Crash, Refuses
  <2> QED
    BY <1>1, <2>1 DEF Issued
<1> QED
  BY <1>2, <1>3, <1>4, <1>5, <1>6 DEF Next

LEMMA StepSpent == ApprovalInv /\ [Next]_vars => ApprovalInv'
<1> SUFFICES ASSUME ApprovalInv, [Next]_vars PROVE ApprovalInv'
  OBVIOUS
<1>0. /\ HistoryInv /\ HistoryInv' /\ Issued \subseteq Issued'
      /\ at \in [Ops -> Phases] /\ copy \in [Ops -> Documents \union {None}]
      /\ DOMAIN job = Ops
  BY StepHistory, IssuedStays DEF ApprovalInv, HistoryInv, TypeOK, JobsFit
<1> USE Kinds DEF Goes
<1>1. ASSUME NEW o \in Unlocked, Reads(o), Goes(o, "read"), UNCHANGED <<files, lapsed>>,
             \A q \in Ops \ {o} : job'[q] = job[q]
      PROVE  ApprovalInv'
  <2>1. copy'[o] = doc /\ Spent(doc, Issued)
    BY <1>0, <1>1 DEF Reads, ApprovalInv
  <2>2. \A q \in Ops \ {o} : copy'[q] = copy[q] /\ at'[q] = at[q] /\ job'[q] = job[q]
    BY <1>0, <1>1 DEF Reads
  <2> QED
    BY <1>0, <1>1, <2>1, <2>2, SpentStays
<1>2. ASSUME NEW o \in Unlocked, NEW d, Writes(o, d), Goes(o, "done"),
             at[o] # "idle", Spent(d, Issued), UNCHANGED <<lock, snaps, lapsed, job>>
      PROVE  ApprovalInv'
  <2>1. Spent(doc', Issued')
    BY <1>0, <1>2, SpentGrows DEF Writes
  <2>2. /\ \A q \in Ops \ {o} : copy'[q] = copy[q] /\ at'[q] = at[q]
        /\ at'[o] = "done"
    BY <1>0, <1>2 DEF Writes
  <2> QED
    BY <1>0, <1>2, <2>1, <2>2, SpentWritten
<1>3. ASSUME NEW p \in Planners, NEW s \in Schemas, ReadForPlan(p, s)
      PROVE  ApprovalInv'
  BY <1>0, <1>1, <1>3 DEF ReadForPlan
<1>4. ASSUME NEW p \in Planners, PlanSchema(p) PROVE ApprovalInv'
  <2> DEFINE d == copy[p]
             e == Planned(d, p, job[p])
  <2>1. Spent(d, Issued) /\ d \in Documents
    BY <1>0, <1>4 DEF PlanSchema, ApprovalInv, HistoryInv, Sound
  <2>2. e.versions = d.versions /\ e.approvals = d.approvals
    BY <2>1 DEF Planned, Documents
  <2>3. Spent(e, Issued)
    BY <2>1, <2>2, SpentCopies DEF UsedIn
  <2> QED
    BY <1>2, <1>4, <2>3 DEF PlanSchema
<1>5. ASSUME NEW a \in Approvers, ReadForApproval(a) PROVE ApprovalInv'
  BY <1>0, <1>1, <1>5 DEF ReadForApproval
<1>6. ASSUME NEW a \in Approvers, CreateApproval(a) PROVE ApprovalInv'
  <2> DEFINE d == copy[a]
             e == [d EXCEPT !.approvals[a] = job[a]]
  <2>1. Spent(d, Issued) /\ d \in Documents
    BY <1>0, <1>6 DEF CreateApproval, ApprovalInv, HistoryInv, Sound
  <2>2. e.versions = d.versions /\ \A b \in Approvers \ {a} : e.approvals[b] = d.approvals[b]
    BY <2>1 DEF Documents
  <2>3. a \notin Issued /\ Issued \subseteq Approvers
    BY <1>6 DEF CreateApproval, Issued
  <2>4. Spent(e, Issued)
    <3>1. \A b \in Issued : UsedIn(d, b) => UsedIn(e, b)
      BY <2>2, <2>3 DEF UsedIn
    <3> HIDE DEF d, e
    <3> QED
      BY <2>1, <2>2, <3>1, SpentCopies
  <2>5. Writes(a, e) /\ at[a] # "idle" /\ Goes(a, "done") /\ UNCHANGED <<lock, snaps, lapsed, job>>
    BY <1>6 DEF CreateApproval
  <2> QED
    BY <1>2, <2>4, <2>5
<1>7. ASSUME NEW a \in Approvers, Lapse(a) PROVE ApprovalInv'
  BY <1>0, <1>7, SpentStays DEF Lapse, ApprovalInv, ToSpend, NeedsApproval, Within, UsedIn
<1>8. ASSUME NEW o \in Others, ReadForOther(o) \/ SaveSnapshot(o) \/ WriteOther(o)
      PROVE  ApprovalInv'
  <2>1. CASE ReadForOther(o)
    BY <1>0, <1>1, <2>1 DEF ReadForOther
  <2>2. CASE SaveSnapshot(o)
    <3>1. /\ doc' = doc /\ copy' = copy /\ job' = job /\ o \notin Locked
          /\ \A q \in Ops \ {o} : at'[q] = at[q]
          /\ Spent(copy[o], Issued)
      BY <1>0, <2>2 DEF SaveSnapshot, ApprovalInv
    <3> QED
      BY <1>0, <3>1, SpentStays
  <2>3. CASE WriteOther(o)
    <3> DEFINE d == copy[o]
               e == [d EXCEPT !.snapshots = IF at[o] = "saved" THEN @ \union {o} ELSE @]
    <3>1. Spent(d, Issued) /\ d \in Documents
      BY <1>0, <2>3 DEF WriteOther, ApprovalInv, HistoryInv, Sound
    <3>2. e.versions = d.versions /\ e.approvals = d.approvals
      BY <3>1 DEF Documents
    <3>3. \A a \in Issued : UsedIn(d, a) => UsedIn(e, a)
      BY <3>2 DEF UsedIn
    <3>4. Spent(e, Issued)
      <4> HIDE DEF d, e
      <4> QED
        BY <3>1, <3>2, <3>3, SpentCopies
    <3> QED
      BY <1>2, <2>3, <3>4 DEF WriteOther
  <2> QED
    BY <1>8, <2>1, <2>2, <2>3
<1>9. ASSUME NEW o \in Locked, StartApply(o) \/ StartRevert(o) PROVE ApprovalInv'
  <2>1. /\ doc' = doc /\ copy' = copy /\ at'[o] = "locked"
        /\ \A q \in Ops \ {o} : at'[q] = at[q]
    BY <1>0, <1>9 DEF StartApply, StartRevert
  <2>2. \A q \in Ops \ {o} : job'[q] = job[q]
    BY <1>0, <1>9 DEF StartApply, StartRevert
  <2>3. job'[o].approval \in Issued \union {None}
    <3>1. job'[o].approval \in Tokens
      BY <1>0, <1>9 DEF StartApply, StartRevert
    <3> QED
      BY <3>1 DEF Tokens, Issued
  <2> QED
    BY <1>0, <2>1, <2>2, <2>3, SpentStays
<1>10. CASE UNCHANGED vars
  BY <1>0, <1>10 DEF vars, ApprovalInv, ToSpend, NeedsApproval, Within, UsedIn, Issued
<1>11. ASSUME NEW o \in Locked, RefuseBusy(o) \/ Crash(o) \/ Release(o)
       PROVE  ApprovalInv'
  <2>1. CASE RefuseBusy(o)
    BY <1>10, <2>1 DEF RefuseBusy, Busy, vars
  <2>2. CASE Crash(o) \/ Release(o)
    <3>1. /\ doc' = doc /\ job' = job /\ at[o] # "idle"
          /\ at'[o] \in {"dead", "done", "refused"}
          /\ \A q \in Ops \ {o} : at'[q] = at[q] /\ copy'[q] = copy[q]
      BY <1>0, <2>2 DEF Crash, Release, Switching
    <3> QED
      BY <1>0, <3>1, SpentStays DEF ApprovalInv
  <2> QED
    BY <1>11, <2>1, <2>2
<1>12. ASSUME NEW o \in Locked, ReadLocked(o) PROVE ApprovalInv'
  <2>1. /\ doc' = doc /\ job' = job /\ at[o] # "idle"
        /\ \A q \in Ops \ {o} : at'[q] = at[q] /\ copy'[q] = copy[q]
    BY <1>0, <1>12 DEF ReadLocked, Reads, Refuses
  <2>2. CASE ~Allowed(doc, job[o]) /\ Refuses(o)
    BY <1>0, <2>1, <2>2, SpentStays DEF Refuses, ApprovalInv
  <2>3. CASE Allowed(doc, job[o]) /\ Reads(o) /\ Goes(o, "snapshot")
    <3>1. copy'[o] = doc /\ Spent(doc, Issued)
      BY <1>0, <2>3 DEF Reads, ApprovalInv
    <3>2. NeedsApproval(doc, job[o]) => ~UsedIn(doc, job[o].approval)
      BY <2>3 DEF Allowed, Approved, UsedIn
    <3>3. ToSpend(o)'
      BY <2>1, <3>1, <3>2 DEF ToSpend, NeedsApproval, Within, UsedIn
    <3> QED
      BY <1>0, <2>1, <3>1, <3>3, SpentStays DEF ApprovalInv
  <2> QED
    BY <1>12, <2>2, <2>3 DEF ReadLocked
<1>13. ASSUME NEW o \in Locked, WriteSnapshot(o) PROVE ApprovalInv'
  <2>1. /\ doc' = doc /\ job' = job /\ copy' = copy /\ at[o] = "snapshot"
        /\ at'[o] = "write" /\ \A q \in Ops \ {o} : at'[q] = at[q]
    BY <1>0, <1>13 DEF WriteSnapshot
  <2>2. ToSpend(o)' /\ Spent(copy[o], Issued)
    BY <2>1 DEF ApprovalInv, ToSpend, NeedsApproval, Within, UsedIn
  <2> QED
    BY <1>0, <2>1, <2>2, SpentStays DEF ApprovalInv
<1>14. ASSUME NEW o \in Locked, WriteState(o) PROVE ApprovalInv'
  <2>1. /\ Sound(copy[o]) /\ Checked(o) /\ job[o] \in Requests
        /\ snaps \in [Ops -> Schemas \union {None}]
        /\ Spent(copy[o], Issued) /\ ToSpend(o)
        /\ job[o].approval \in Issued \union {None}
    BY <1>14 DEF WriteState, ApprovalInv, HistoryInv, JobsFit, TypeOK
  <2>2. Spent(Switched(copy[o], o), Issued)
    BY <2>1, SwitchedSpent DEF Checked, ToSpend, Issued
  <2>3. Spent(doc', Issued')
    BY <1>0, <1>14, <2>2, SpentGrows DEF WriteState, Writes
  <2>4. /\ \A q \in Ops \ {o} : copy'[q] = copy[q] /\ at'[q] = at[q]
        /\ job' = job /\ at[o] # "idle" /\ at'[o] = "written"
    BY <1>0, <1>14 DEF WriteState, Writes
  <2> QED
    BY <1>0, <2>3, <2>4, SpentWritten
<1> QED
  BY <1>3, <1>4, <1>5, <1>6, <1>7, <1>8, <1>9, <1>10, <1>11, <1>12, <1>13,
     <1>14 DEF Next, Switch

-----------------------------------------------------------------------------
(***************************************************************************)
(* What the approvals were given for                                       *)
(***************************************************************************)
\* The i-th version of d spent an approval for itself, and what the approval
\* names is in the document or among the snapshot files s.
Given(d, s, i) ==
    LET x == d.approvals[d.versions[i].approval] IN
      /\ SpentFor(d, s, i)
      /\ x \in Approvals
      /\ x.kind = "plan" => x.id \in Planners /\ d.plans[x.id] # None
      /\ x.kind = "snapshot" => x.id \in Ops /\ s[x.id] # None

\* Approvals and plans are in a document when the operations that make them are
\* done (f says where they stand), and what was spent was given for the change.
Bound(d, f, s) ==
    /\ \A a \in Approvers : d.approvals[a] # None => f[a] = "done"
    /\ \A p \in Planners : d.plans[p] # None => f[p] = "done"
    /\ \A i \in 1 .. Len(d.versions) :
         d.versions[i].approval # None =>
           d.versions[i].approval \in Approvers /\ Given(d, s, i)

\* A snapshot file is written once.
WrittenOnce ==
    \A o \in Ops : snaps[o] # None => at[o] \notin {"idle", "read", "locked", "snapshot"}

\* The approval an operation is about to use was given for it.
Fits(o) ==
    NeedsApproval(copy[o], job[o]) =>
      LET x == copy[o].approvals[job[o].approval]
      IN  x.kind = job[o].kind /\ x.id = job[o].id

BoundInv ==
    /\ ApprovalInv
    /\ WrittenOnce
    /\ Bound(doc, at, snaps)
    /\ \A o \in Ops : at[o] \in {"read", "saved", "snapshot", "write"} =>
         Bound(copy[o], at, snaps)
    /\ \A o \in Locked : at[o] \in {"snapshot", "write"} => Fits(o)

\* e has the approvals and the plans of d, which may have been used meanwhile.
Keeps(d, e) ==
    /\ \A a \in Approvers : d.approvals[a] # None =>
         /\ e.approvals[a] \in Approvals
         /\ e.approvals[a].kind = d.approvals[a].kind
         /\ e.approvals[a].id = d.approvals[a].id
         /\ d.approvals[a].used => e.approvals[a].used
    /\ \A p \in Planners : d.plans[p] # None =>
         /\ e.plans[p] # None
         /\ e.plans[p].want = d.plans[p].want /\ e.plans[p].base = d.plans[p].base

\* No operation that was done is undone, and no snapshot file changes.
Later(f, g, s, r) ==
    /\ \A q \in Planners \union Approvers : f[q] = "done" => g[q] = "done"
    /\ \A q \in Ops : s[q] # None => r[q] = s[q]

LEMMA GivenKept ==
    ASSUME NEW d, NEW e, NEW s, NEW r, NEW i \in Nat,
           d.versions[i].approval \in Approvers, Given(d, s, i), Keeps(d, e),
           \A k \in 1 .. i : e.versions[k] = d.versions[k], i > 0,
           \A q \in Ops : s[q] # None => r[q] = s[q]
    PROVE  Given(e, r, i)
<1> DEFINE v == d.versions[i]
           x == d.approvals[v.approval]
           y == e.approvals[v.approval]
<1>1. e.versions[i] = v /\ x # None
  BY ApprovalsAssumption DEF Given
<1>2. y \in Approvals /\ y.kind = x.kind /\ y.id = x.id /\ y.used
  BY <1>1 DEF Keeps, Given, SpentFor
<1>3. x.kind = "plan" => /\ x.id \in Planners /\ e.plans[x.id] # None
                         /\ e.plans[x.id].want = d.plans[x.id].want
                         /\ e.plans[x.id].base = d.plans[x.id].base
  BY DEF Given, Keeps
<1>4. x.kind = "snapshot" => x.id \in Ops /\ r[x.id] = s[x.id] /\ r[x.id] # None
  BY DEF Given
<1>5. ASSUME NEW k \in 1 .. i - 1 PROVE e.versions[k] = d.versions[k]
  OBVIOUS
<1>6. SpentFor(d, s, i)
  BY DEF Given
<1> HIDE DEF v, x, y
<1>7. SpentFor(e, r, i)
  <2>1. CASE /\ x.kind = "plan" /\ v.base # None
             /\ d.plans[x.id].base = v.base /\ d.plans[x.id].want = v.hash
    BY <1>1, <1>2, <1>3, <2>1 DEF SpentFor, y
  <2>2. CASE /\ x.kind = "version" /\ v.base = None
             /\ \E k \in 1 .. i - 1 : d.versions[k].by = x.id /\ d.versions[k].hash = v.hash
    BY <1>1, <1>2, <1>5, <2>2 DEF SpentFor, y
  <2>3. CASE x.kind = "snapshot" /\ v.base = None /\ s[x.id] = v.hash
    BY <1>1, <1>2, <1>4, <2>3 DEF SpentFor, y
  <2> QED
    BY <1>6, <2>1, <2>2, <2>3 DEF SpentFor, x, v
<1> QED
  BY <1>1, <1>2, <1>3, <1>4, <1>7 DEF Given, y

\* A document that keeps what d has, later.
LEMMA BoundKept ==
    ASSUME NEW d, NEW e, NEW f, NEW g, NEW s, NEW r,
           d.versions \in Seq(Versions), e.versions = d.versions,
           Bound(d, f, s), Keeps(d, e), Later(f, g, s, r),
           \A a \in Approvers : e.approvals[a] # None => d.approvals[a] # None \/ g[a] = "done",
           \A p \in Planners : e.plans[p] # None => d.plans[p] # None \/ g[p] = "done"
    PROVE  Bound(e, g, r)
<1>1. /\ \A a \in Approvers : e.approvals[a] # None => g[a] = "done"
      /\ \A p \in Planners : e.plans[p] # None => g[p] = "done"
  BY DEF Bound, Later
<1>2. ASSUME NEW i \in 1 .. Len(e.versions), e.versions[i].approval # None
      PROVE  e.versions[i].approval \in Approvers /\ Given(e, r, i)
  <2>1. i \in Nat /\ i > 0 /\ d.versions[i].approval \in Approvers /\ Given(d, s, i)
    BY <1>2 DEF Bound
  <2> QED
    BY <2>1, GivenKept DEF Later
<1> QED
  BY <1>1, <1>2 DEF Bound

LEMMA KeepsItself == ASSUME NEW d \in Documents PROVE Keeps(d, d)
  BY DEF Keeps, Documents

LEMMA BoundLater ==
    ASSUME NEW d \in Documents, NEW f, NEW g, NEW s, NEW r,
           Bound(d, f, s), Later(f, g, s, r)
    PROVE  Bound(d, g, r)
<1>1. d.versions \in Seq(Versions)
  BY DEF Documents
<1> QED
  BY <1>1, KeepsItself, BoundKept

\* The write of an apply or a revert keeps every approval and every plan, ...
LEMMA SwitchedKeeps ==
    ASSUME NEW o \in Locked, NEW d \in Documents, job[o] \in Requests,
           Exists(d, job[o]),
           NeedsApproval(d, job[o]) =>
             /\ job[o].approval # None
             /\ d.approvals[job[o].approval] \in Approvals
    PROVE  LET g == Switched(d, o) IN
             /\ Keeps(d, g)
             /\ \A a \in Approvers : g.approvals[a] # None => d.approvals[a] # None
             /\ \A p \in Planners : g.plans[p] # None => d.plans[p] # None
             /\ NeedsApproval(d, job[o]) => g.approvals[job[o].approval].used
<1> DEFINE j == job[o]
           c == j.approval
           e == IF NeedsApproval(d, j) THEN Consumed(d, c) ELSE d
           f == Closed(e, j)
           g == Switched(d, o)
<1>1. /\ d.approvals \in [Approvers -> Approvals \union {None}]
      /\ d.plans \in [Planners -> Plans \union {None}]
  BY DEF Documents
<1>2. NeedsApproval(d, j) => c \in Approvers /\ d.approvals[c] \in Approvals
  BY DEF Requests
<1>3. j.kind = "plan" => j.id \in Planners /\ d.plans[j.id] \in Plans /\ d.plans[j.id] # None
  BY <1>1 DEF Exists, Fresh, Requests
<1>4. /\ e.plans = d.plans
      /\ e.approvals = IF NeedsApproval(d, j)
                       THEN [d.approvals EXCEPT ![c] = [@ EXCEPT !.used = TRUE]]
                       ELSE d.approvals
  BY DEF Consumed, Documents
<1> HIDE DEF e
<1>5. /\ f.approvals = e.approvals
      /\ f.plans = IF j.kind = "plan"
                   THEN [e.plans EXCEPT ![j.id] = [@ EXCEPT !.status = "applied"]]
                   ELSE e.plans
  <2>1. e \in Documents
    <3>1. CASE NeedsApproval(d, j)
      <4> DEFINE as == [d.approvals EXCEPT ![c] = [@ EXCEPT !.used = TRUE]]
      <4>1. as \in [Approvers -> Approvals \union {None}]
        BY <1>1, <1>2, <3>1 DEF Approvals
      <4>2. e = [d EXCEPT !.approvals = as]
        BY <3>1 DEF e, Consumed
      <4> HIDE DEF as
      <4> QED
        BY <4>1, <4>2 DEF Documents
    <3>2. CASE ~NeedsApproval(d, j)
      BY <3>2 DEF e
    <3> QED
      BY <3>1, <3>2
  <2> QED
    BY <2>1 DEF Closed, Documents
<1>6. g.approvals = f.approvals /\ g.plans = f.plans
  BY DEF Switched, e
<1> HIDE DEF f, g
<1>7. ASSUME NEW a \in Approvers, d.approvals[a] # None
      PROVE  /\ g.approvals[a] \in Approvals
             /\ g.approvals[a].kind = d.approvals[a].kind
             /\ g.approvals[a].id = d.approvals[a].id
             /\ d.approvals[a].used => g.approvals[a].used
  <2>1. d.approvals[a] \in Approvals
    BY <1>1, <1>7
  <2>2. \/ g.approvals[a] = d.approvals[a]
        \/ g.approvals[a] = [d.approvals[a] EXCEPT !.used = TRUE]
    <3> HIDE DEF c, j
    <3>1. CASE NeedsApproval(d, j) /\ a = c
      BY <1>1, <1>4, <1>5, <1>6, <3>1
    <3>2. CASE ~(NeedsApproval(d, j) /\ a = c)
      BY <1>1, <1>4, <1>5, <1>6, <3>2
    <3> QED
      BY <3>1, <3>2
  <2> HIDE DEF c, j
  <2> QED
    BY <2>1, <2>2 DEF Approvals
<1>8. ASSUME NEW p \in Planners, d.plans[p] # None
      PROVE  /\ g.plans[p] # None
             /\ g.plans[p].want = d.plans[p].want /\ g.plans[p].base = d.plans[p].base
  <2>1. d.plans[p] \in Plans
    BY <1>1, <1>8
  <2> QED
    BY <1>1, <1>4, <1>5, <1>6, <1>8, <2>1, PlansAssumption DEF Plans
<1>9. ASSUME NEW a \in Approvers, g.approvals[a] # None PROVE d.approvals[a] # None
  BY <1>1, <1>2, <1>4, <1>5, <1>6, <1>9, ApprovalsAssumption
<1>10. ASSUME NEW p \in Planners, g.plans[p] # None PROVE d.plans[p] # None
  BY <1>1, <1>3, <1>4, <1>5, <1>6, <1>10
<1>11. NeedsApproval(d, j) => g.approvals[c].used
  <2>1. CASE NeedsApproval(d, j)
    <3>1. g.approvals[c] = [d.approvals[c] EXCEPT !.used = TRUE]
      BY <1>1, <1>2, <1>4, <1>5, <1>6, <2>1
    <3> HIDE DEF c, j
    <3> QED
      BY <1>2, <2>1, <3>1 DEF Approvals
  <2> QED
    BY <2>1
<1> QED
  BY <1>7, <1>8, <1>9, <1>10, <1>11 DEF Keeps, g

\* ... and the version that is pushed is the one its approval was given for.
LEMMA SwitchedBound ==
    ASSUME NEW o \in Locked, NEW d, NEW f, Sound(d), Bound(d, f, snaps),
           job[o] \in Requests, Exists(d, job[o]),
           NeedsApproval(d, job[o]) =>
             /\ job[o].approval # None
             /\ d.approvals[job[o].approval] \in Approvals
             /\ d.approvals[job[o].approval].kind = job[o].kind
             /\ d.approvals[job[o].approval].id = job[o].id,
           snaps \in [Ops -> Schemas \union {None}]
    PROVE  Bound(Switched(d, o), f, snaps)
<1> DEFINE j == job[o]
           v == Version(d, o)
           g == Switched(d, o)
<1>1. d \in Documents /\ d.versions \in Seq(Versions)
  BY DEF Sound, Documents
<1>2. g.versions = Append(d.versions, v) /\ v \in Versions /\ g \in Documents
  BY SwitchedSound DEF Sound
<1>3. /\ Keeps(d, g)
      /\ \A a \in Approvers : g.approvals[a] # None => d.approvals[a] # None
      /\ \A p \in Planners : g.plans[p] # None => d.plans[p] # None
      /\ NeedsApproval(d, j) => g.approvals[j.approval].used
  BY <1>1, SwitchedKeeps
<1>4. v.approval = IF NeedsApproval(d, j) THEN j.approval ELSE None
  BY DEF Version
<1>5. /\ v.hash = Target(d, j)
      /\ v.base = IF j.kind = "plan" THEN d.plans[j.id].base ELSE None
  BY DEF Version
<1>6. j \in Requests /\ Exists(d, j)
  OBVIOUS
<1>7. NeedsApproval(d, j) => /\ j.approval \in Approvers
                             /\ d.approvals[j.approval] # None
                             /\ d.approvals[j.approval].kind = j.kind
                             /\ d.approvals[j.approval].id = j.id
  BY ApprovalsAssumption DEF Requests
<1> HIDE DEF j, v, g
<1>8. LET n == Len(d.versions) IN
         /\ n \in Nat /\ Len(g.versions) = n + 1 /\ g.versions[n + 1] = v
         /\ \A i \in 1 .. n : g.versions[i] = d.versions[i]
  BY <1>1, <1>2
<1>9. ASSUME NEW i \in 1 .. Len(d.versions), g.versions[i].approval # None
      PROVE  g.versions[i].approval \in Approvers /\ Given(g, snaps, i)
  <2>1. g.versions[i] = d.versions[i] /\ i \in Nat /\ i > 0
    BY <1>8
  <2>2. d.versions[i].approval \in Approvers /\ Given(d, snaps, i)
    BY <1>9, <2>1 DEF Bound
  <2>3. \A k \in 1 .. i : g.versions[k] = d.versions[k]
    BY <1>8
  <2> QED
    BY <1>3, <2>1, <2>2, <2>3, GivenKept
<1> DEFINE n == Len(d.versions) + 1
           y == g.approvals[v.approval]
<1>10. ASSUME v.approval # None
       PROVE  v.approval \in Approvers /\ Given(g, snaps, n)
  <2>1. /\ v.approval = j.approval /\ j.approval \in Approvers
        /\ NeedsApproval(d, j)
    BY <1>4, <1>7, <1>10
  <2>2. y \in Approvals /\ y.used /\ y.kind = j.kind /\ y.id = j.id
    BY <1>3, <1>7, <2>1 DEF Keeps
  <2>3. CASE j.kind = "plan"
    <3>1. j.id \in Planners /\ d.plans[j.id] # None
      BY <1>6, <2>3 DEF Requests, Exists, Fresh
    <3>2. d.plans[j.id] \in Plans
      BY <1>1, <3>1 DEF Documents
    <3>3. v.base = d.plans[j.id].base /\ v.hash = d.plans[j.id].want /\ v.base # None
      BY <1>5, <2>3, <3>2, SchemasAssumption DEF Target, Plans
    <3>4. /\ g.plans[j.id] # None /\ g.plans[j.id].base = v.base
          /\ g.plans[j.id].want = v.hash
      BY <1>3, <3>1, <3>3 DEF Keeps
    <3>5. g.versions[n] = v
      BY <1>8
    <3> HIDE DEF n
    <3> QED
      BY <2>1, <2>2, <2>3, <3>1, <3>3, <3>4, <3>5 DEF Given, SpentFor
  <2>4. CASE j.kind = "version"
    <3>1. \E i \in DOMAIN d.versions : d.versions[i].by = j.id
      BY <1>6, <2>4 DEF Exists
    <3>2. PICK k \in DOMAIN d.versions :
            /\ d.versions[k].by = j.id
            /\ k = CHOOSE i \in DOMAIN d.versions : d.versions[i].by = j.id
      BY <3>1
    <3>3. v.hash = d.versions[k].hash /\ v.base = None
      BY <1>5, <2>4, <3>2 DEF Target
    <3>4. k \in 1 .. n - 1 /\ g.versions[k] = d.versions[k] /\ g.versions[n] = v
      <4>1. DOMAIN d.versions = 1 .. Len(d.versions) /\ Len(d.versions) \in Nat
        BY <1>1
      <4>2. k \in 1 .. Len(d.versions)
        BY <3>2, <4>1
      <4> QED
        BY <1>8, <4>1, <4>2
    <3> HIDE DEF n
    <3>5. SpentFor(g, snaps, n)
      BY <2>1, <2>2, <2>4, <3>2, <3>3, <3>4 DEF SpentFor
    <3> QED
      BY <2>1, <2>2, <2>4, <3>4, <3>5 DEF Given
  <2>5. CASE j.kind = "snapshot"
    <3>1. j.id \in Ops /\ snaps[j.id] # None /\ v.hash = snaps[j.id] /\ v.base = None
      BY <1>5, <1>6, <2>5 DEF Requests, Exists, Target
    <3>2. g.versions[n] = v
      BY <1>8
    <3> HIDE DEF n
    <3> QED
      BY <2>1, <2>2, <2>5, <3>1, <3>2 DEF Given, SpentFor
  <2> QED
    BY <1>6, <2>1, <2>3, <2>4, <2>5 DEF Requests
<1>11. ASSUME NEW i \in 1 .. Len(g.versions), g.versions[i].approval # None
       PROVE  g.versions[i].approval \in Approvers /\ Given(g, snaps, i)
  <2>1. CASE i = n
    BY <1>8, <1>10, <1>11, <2>1
  <2>2. CASE i \in 1 .. Len(d.versions)
    BY <1>9, <1>11, <2>2
  <2> QED
    BY <1>8, <2>1, <2>2
<1> QED
  BY <1>3, <1>11 DEF Bound, g

LEMMA InitBound == Init => BoundInv
<1> SUFFICES ASSUME Init PROVE BoundInv
  OBVIOUS
<1> DEFINE v == [by |-> First, hash |-> Start, base |-> None, approval |-> None]
<1>1. Len(doc.versions) = 1 /\ doc.versions[1].approval = None
  <2>1. doc.versions = <<v>> /\ v.approval = None
    BY DEF Init
  <2> QED
    BY <2>1
<1>2. Bound(doc, at, snaps)
  <2>1. \A i \in 1 .. Len(doc.versions) : doc.versions[i].approval = None
    BY <1>1
  <2>2. /\ \A a \in Approvers : doc.approvals[a] = None
        /\ \A p \in Planners : doc.plans[p] = None
    BY DEF Init
  <2> QED
    BY <2>1, <2>2 DEF Bound
<1>3. \A o \in Ops : at[o] = "idle" /\ snaps[o] = None
  BY DEF Init
<1> QED
  BY <1>2, <1>3, InitSpent, Kinds DEF BoundInv, WrittenOnce

\* What was done stays done, and snapshot files stay as they were written.
LEMMA StepLater ==
    BoundInv /\ [Next]_vars => WrittenOnce' /\ Later(at, at', snaps, snaps')
<1> SUFFICES ASSUME BoundInv, [Next]_vars
             PROVE  WrittenOnce' /\ Later(at, at', snaps, snaps')
  OBVIOUS
<1>0. /\ at \in [Ops -> Phases] /\ snaps \in [Ops -> Schemas \union {None}] /\ WrittenOnce
  BY DEF BoundInv, ApprovalInv, HistoryInv, TypeOK
<1> USE Kinds DEF Goes
\* One operation goes on from where it was not done.
<1>1. ASSUME NEW o \in Ops, snaps' = snaps, \A q \in Ops \ {o} : at'[q] = at[q],
             at'[o] \in {"idle", "read", "locked", "snapshot"} => snaps[o] = None,
             o \in Unlocked => at[o] # "done"
      PROVE  WrittenOnce' /\ Later(at, at', snaps, snaps')
  <2>1. \A q \in Planners \union Approvers : q \in Ops /\ (q = o => o \in Unlocked)
    OBVIOUS
  <2> QED
    BY <1>0, <1>1, <2>1 DEF WrittenOnce, Later
<1>2. ASSUME NEW o \in Ops, at[o] \in {"read", "snapshot"}, at'[o] \in {"saved", "write"},
             \A q \in Ops \ {o} : at'[q] = at[q] /\ snaps'[q] = snaps[q]
      PROVE  WrittenOnce' /\ Later(at, at', snaps, snaps')
  BY <1>0, <1>2 DEF WrittenOnce, Later
<1>3. CASE UNCHANGED vars
  BY <1>0, <1>3 DEF vars, WrittenOnce, Later
<1>4. ASSUME NEW p \in Planners,
             PlanSchema(p) \/ \E s \in Schemas : ReadForPlan(p, s)
      PROVE  WrittenOnce' /\ Later(at, at', snaps, snaps')
  <2>1. /\ snaps' = snaps /\ at[p] # "done" /\ \A q \in Ops \ {p} : at'[q] = at[q]
        /\ at'[p] \in {"idle", "read", "locked", "snapshot"} => at[p] = "idle"
    BY <1>0, <1>4 DEF PlanSchema, ReadForPlan
  <2> QED
    BY <1>0, <1>1, <2>1 DEF WrittenOnce
<1>5. ASSUME NEW a \in Approvers, ReadForApproval(a) \/ CreateApproval(a) \/ Lapse(a)
      PROVE  WrittenOnce' /\ Later(at, at', snaps, snaps')
  <2>1. CASE ReadForApproval(a) \/ CreateApproval(a)
    <3>1. /\ snaps' = snaps /\ at[a] # "done" /\ \A q \in Ops \ {a} : at'[q] = at[q]
          /\ at'[a] \in {"idle", "read", "locked", "snapshot"} => at[a] = "idle"
      BY <1>0, <2>1 DEF ReadForApproval, CreateApproval
    <3> QED
      BY <1>0, <1>1, <3>1 DEF WrittenOnce
  <2>2. CASE Lapse(a)
    BY <1>0, <2>2 DEF Lapse, WrittenOnce, Later
  <2> QED
    BY <1>5, <2>1, <2>2
<1>6. ASSUME NEW o \in Others, ReadForOther(o) \/ SaveSnapshot(o) \/ WriteOther(o)
      PROVE  WrittenOnce' /\ Later(at, at', snaps, snaps')
  <2>1. CASE ReadForOther(o) \/ WriteOther(o)
    <3>1. /\ snaps' = snaps /\ at[o] # "done" /\ \A q \in Ops \ {o} : at'[q] = at[q]
          /\ at'[o] \in {"idle", "read", "locked", "snapshot"} => at[o] = "idle"
      BY <1>0, <2>1 DEF ReadForOther, WriteOther
    <3> QED
      BY <1>0, <1>1, <3>1 DEF WrittenOnce
  <2>2. CASE SaveSnapshot(o)
    BY <1>0, <1>2, <2>2 DEF SaveSnapshot
  <2> QED
    BY <1>6, <2>1, <2>2
<1>7. ASSUME NEW o \in Locked,
             StartApply(o) \/ StartRevert(o) \/ ReadLocked(o) \/ WriteState(o)
               \/ Release(o) \/ Crash(o)
      PROVE  WrittenOnce' /\ Later(at, at', snaps, snaps')
  <2>1. /\ snaps' = snaps /\ \A q \in Ops \ {o} : at'[q] = at[q]
        /\ at'[o] \in {"idle", "read", "locked", "snapshot"} => at[o] \in {"idle", "locked"}
    BY <1>0, <1>7 DEF StartApply, StartRevert, ReadLocked, WriteState, Release, Crash,
                      Refuses
  <2> QED
    BY <1>0, <1>1, <2>1 DEF WrittenOnce
<1>8. ASSUME NEW o \in Locked, WriteSnapshot(o)
      PROVE  WrittenOnce' /\ Later(at, at', snaps, snaps')
  BY <1>0, <1>2, <1>8 DEF WriteSnapshot
<1>9. ASSUME NEW o \in Locked, RefuseBusy(o)
      PROVE  WrittenOnce' /\ Later(at, at', snaps, snaps')
  BY <1>3, <1>9 DEF RefuseBusy, Busy, vars
<1> QED
  BY <1>3, <1>4, <1>5, <1>6, <1>7, <1>8, <1>9 DEF Next, Switch

\* One step of one operation, after which the document and its own copy are
\* bound: the others keep what they have.
LEMMA BoundStays ==
    ASSUME BoundInv, ApprovalInv', WrittenOnce', Later(at, at', snaps, snaps'),
           NEW o \in Ops, Bound(doc', at', snaps'),
           \A q \in Ops \ {o} : copy'[q] = copy[q] /\ at'[q] = at[q] /\ job'[q] = job[q],
           at'[o] \in {"read", "saved", "snapshot", "write"} =>
             Bound(copy'[o], at', snaps'),
           o \in Locked /\ at'[o] \in {"snapshot", "write"} => Fits(o)'
    PROVE  BoundInv'
<1>1. ASSUME NEW q \in Ops \ {o}, at'[q] \in {"read", "saved", "snapshot", "write"}
      PROVE  Bound(copy'[q], at', snaps')
  <2>1. Bound(copy[q], at, snaps) /\ copy[q] \in Documents
    BY <1>1 DEF BoundInv, ApprovalInv, HistoryInv, Sound
  <2> QED
    BY <1>1, <2>1, BoundLater
<1>2. ASSUME NEW q \in Locked \ {o}, at'[q] \in {"snapshot", "write"} PROVE Fits(q)'
  BY <1>2, Kinds DEF BoundInv, Fits, NeedsApproval, Within
<1> QED
  BY <1>1, <1>2 DEF BoundInv

LEMMA StepBound == BoundInv /\ [Next]_vars => BoundInv'
<1> SUFFICES ASSUME BoundInv, [Next]_vars PROVE BoundInv'
  OBVIOUS
<1>0. /\ ApprovalInv /\ ApprovalInv' /\ WrittenOnce' /\ Later(at, at', snaps, snaps')
      /\ at \in [Ops -> Phases] /\ copy \in [Ops -> Documents \union {None}]
      /\ snaps \in [Ops -> Schemas \union {None}] /\ DOMAIN job = Ops
      /\ doc \in Documents
  BY StepSpent, StepLater DEF BoundInv, ApprovalInv, HistoryInv, TypeOK, JobsFit
<1>1. Bound(doc, at', snaps')
  BY <1>0, BoundLater DEF BoundInv
<1> USE Kinds DEF Goes
<1>2. ASSUME NEW o \in Ops, at[o] \in {"read", "saved", "snapshot", "write"}
      PROVE  /\ Bound(copy[o], at, snaps) /\ Bound(copy[o], at', snaps')
             /\ copy[o] \in Documents /\ copy[o].versions \in Seq(Versions)
  <2>1. copy[o] \in Documents /\ Bound(copy[o], at, snaps)
    BY <1>0, <1>2 DEF BoundInv, ApprovalInv, HistoryInv, Sound
  <2> QED
    BY <1>0, <2>1, BoundLater DEF Documents
<1>3. ASSUME NEW o \in Unlocked, Reads(o), Goes(o, "read"), UNCHANGED <<files, lapsed>>,
             \A q \in Ops \ {o} : job'[q] = job[q]
      PROVE  BoundInv'
  <2>1. copy'[o] = doc /\ doc' = doc
    BY <1>0, <1>3 DEF Reads
  <2>2. \A q \in Ops \ {o} : copy'[q] = copy[q] /\ at'[q] = at[q] /\ job'[q] = job[q]
    BY <1>0, <1>3 DEF Reads
  <2> QED
    BY <1>0, <1>1, <1>3, <2>1, <2>2, BoundStays
<1>4. ASSUME NEW o \in Unlocked, NEW d, Writes(o, d), Goes(o, "done"),
             Bound(d, at', snaps'), UNCHANGED <<lock, snaps, lapsed, job>>
      PROVE  BoundInv'
  <2>1. /\ doc' = d /\ at'[o] = "done"
        /\ \A q \in Ops \ {o} : copy'[q] = copy[q] /\ at'[q] = at[q] /\ job'[q] = job[q]
    BY <1>0, <1>4 DEF Writes
  <2> QED
    BY <1>0, <1>4, <2>1, BoundStays
<1>5. ASSUME NEW p \in Planners, NEW s \in Schemas, ReadForPlan(p, s) PROVE BoundInv'
  BY <1>0, <1>3, <1>5 DEF ReadForPlan
<1>6. ASSUME NEW p \in Planners, PlanSchema(p) PROVE BoundInv'
  <2> DEFINE d == copy[p]
             e == Planned(d, p, job[p])
  <2>1. at[p] = "read" /\ at'[p] = "done" /\ Writes(p, e) /\ Goes(p, "done")
        /\ UNCHANGED <<lock, snaps, lapsed, job>>
    BY <1>0, <1>6 DEF PlanSchema
  <2>2. Bound(d, at, snaps) /\ d \in Documents /\ d.versions \in Seq(Versions)
    BY <1>2, <2>1
  <2>3. d.plans[p] = None
    BY <2>1, <2>2 DEF Bound
  <2>4. /\ e.versions = d.versions /\ e.approvals = d.approvals
        /\ \A q \in Planners \ {p} : e.plans[q] = d.plans[q]
    BY <2>2 DEF Planned, Documents
  <2> HIDE DEF d, e
  <2>5. Keeps(d, e)
    BY <2>2, <2>3, <2>4, KeepsItself DEF Keeps
  <2>6. Bound(e, at', snaps')
    BY <1>0, <2>1, <2>2, <2>4, <2>5, BoundKept
  <2> QED
    BY <1>4, <2>1, <2>6
<1>7. ASSUME NEW a \in Approvers, ReadForApproval(a) PROVE BoundInv'
  BY <1>0, <1>3, <1>7 DEF ReadForApproval
<1>8. ASSUME NEW a \in Approvers, CreateApproval(a) PROVE BoundInv'
  <2> DEFINE d == copy[a]
             e == [d EXCEPT !.approvals[a] = job[a]]
  <2>1. at[a] = "read" /\ at'[a] = "done" /\ Writes(a, e) /\ Goes(a, "done")
        /\ UNCHANGED <<lock, snaps, lapsed, job>>
    BY <1>0, <1>8 DEF CreateApproval
  <2>2. Bound(d, at, snaps) /\ d \in Documents /\ d.versions \in Seq(Versions)
    BY <1>2, <2>1
  <2>3. d.approvals[a] = None
    BY <2>1, <2>2 DEF Bound
  <2>4. /\ e.versions = d.versions /\ e.plans = d.plans
        /\ \A b \in Approvers \ {a} : e.approvals[b] = d.approvals[b]
    BY <2>2 DEF Documents
  <2> HIDE DEF d, e
  <2>5. Keeps(d, e)
    BY <2>2, <2>3, <2>4, KeepsItself DEF Keeps
  <2>6. Bound(e, at', snaps')
    BY <1>0, <2>1, <2>2, <2>4, <2>5, BoundKept
  <2> QED
    BY <1>4, <2>1, <2>6
<1>9. CASE at' = at /\ UNCHANGED <<doc, snaps, copy, job>>
  BY <1>0, <1>1, <1>2, <1>9 DEF BoundInv, Fits, NeedsApproval, Within
<1>10. ASSUME NEW o \in Others, ReadForOther(o) \/ SaveSnapshot(o) \/ WriteOther(o)
       PROVE  BoundInv'
  <2>1. CASE ReadForOther(o)
    BY <1>0, <1>3, <2>1 DEF ReadForOther
  <2>2. CASE SaveSnapshot(o)
    <3>1. /\ doc' = doc /\ copy' = copy /\ job' = job /\ o \notin Locked /\ at[o] = "read"
          /\ \A q \in Ops \ {o} : at'[q] = at[q]
      BY <1>0, <2>2 DEF SaveSnapshot
    <3>2. Bound(copy'[o], at', snaps')
      BY <1>2, <3>1
    <3> QED
      BY <1>0, <1>1, <3>1, <3>2, BoundStays
  <2>3. CASE WriteOther(o)
    <3> DEFINE d == copy[o]
               e == [d EXCEPT !.snapshots = IF at[o] = "saved" THEN @ \union {o} ELSE @]
    <3>1. /\ Bound(d, at, snaps) /\ d \in Documents /\ d.versions \in Seq(Versions)
          /\ Writes(o, e) /\ Goes(o, "done") /\ UNCHANGED <<lock, snaps, lapsed, job>>
      BY <1>2, <2>3 DEF WriteOther
    <3>2. e.versions = d.versions /\ e.approvals = d.approvals /\ e.plans = d.plans
      BY <3>1 DEF Documents
    <3> HIDE DEF d, e
    <3>3. Keeps(d, e)
      BY <3>1, <3>2, KeepsItself DEF Keeps
    <3>4. Bound(e, at', snaps')
      BY <1>0, <3>1, <3>2, <3>3, BoundKept
    <3> QED
      BY <1>4, <3>1, <3>4
  <2> QED
    BY <1>10, <2>1, <2>2, <2>3
<1>11. ASSUME NEW o \in Locked, StartApply(o) \/ StartRevert(o) \/ Crash(o) \/ Release(o)
       PROVE  BoundInv'
  <2>1. /\ doc' = doc /\ at'[o] \in {"locked", "dead", "done", "refused"}
        /\ \A q \in Ops \ {o} : copy'[q] = copy[q] /\ at'[q] = at[q] /\ job'[q] = job[q]
    BY <1>0, <1>11 DEF StartApply, StartRevert, Crash, Release
  <2> QED
    BY <1>0, <1>1, <2>1, BoundStays
<1>12. ASSUME NEW o \in Locked, ReadLocked(o) PROVE BoundInv'
  <2>1. /\ doc' = doc /\ job' = job
        /\ \A q \in Ops \ {o} : at'[q] = at[q] /\ copy'[q] = copy[q]
    BY <1>0, <1>12 DEF ReadLocked, Reads, Refuses
  <2>2. CASE ~Allowed(doc, job[o]) /\ Refuses(o)
    BY <1>0, <1>1, <2>1, <2>2, BoundStays DEF Refuses
  <2>3. CASE Allowed(doc, job[o]) /\ Reads(o) /\ Goes(o, "snapshot")
    <3>1. copy'[o] = doc
      BY <1>0, <2>3 DEF Reads
    <3>2. NeedsApproval(doc, job[o]) =>
            /\ doc.approvals[job[o].approval].kind = job[o].kind
            /\ doc.approvals[job[o].approval].id = job[o].id
      BY <2>3 DEF Allowed, Approved
    <3>3. Fits(o)'
      BY <2>1, <3>1, <3>2 DEF Fits, NeedsApproval, Within
    <3> QED
      BY <1>0, <1>1, <2>1, <3>1, <3>3, BoundStays
  <2> QED
    BY <1>12, <2>2, <2>3 DEF ReadLocked
<1>13. ASSUME NEW o \in Locked, WriteSnapshot(o) PROVE BoundInv'
  <2>1. /\ doc' = doc /\ job' = job /\ copy' = copy /\ at[o] = "snapshot"
        /\ \A q \in Ops \ {o} : at'[q] = at[q]
    BY <1>0, <1>13 DEF WriteSnapshot
  <2>2. Fits(o)' /\ Bound(copy'[o], at', snaps')
    BY <1>2, <2>1 DEF BoundInv, Fits, NeedsApproval, Within
  <2> QED
    BY <1>0, <1>1, <2>1, <2>2, BoundStays
<1>14. ASSUME NEW o \in Locked, WriteState(o) PROVE BoundInv'
  <2>1. /\ Sound(copy[o]) /\ Checked(o) /\ job[o] \in Requests /\ Fits(o)
        /\ Bound(copy[o], at', snaps') /\ snaps' = snaps
    BY <1>2, <1>14 DEF WriteState, BoundInv, ApprovalInv, HistoryInv, JobsFit
  <2>2. Bound(Switched(copy[o], o), at', snaps')
    BY <1>0, <2>1, SwitchedBound DEF Checked, Fits
  <2>3. /\ doc' = Switched(copy[o], o) /\ at'[o] = "written"
        /\ \A q \in Ops \ {o} : copy'[q] = copy[q] /\ at'[q] = at[q] /\ job'[q] = job[q]
    BY <1>0, <1>14 DEF WriteState, Writes
  <2> QED
    BY <1>0, <2>2, <2>3, BoundStays
<1>15. ASSUME NEW a \in Approvers, Lapse(a) PROVE BoundInv'
  BY <1>9, <1>15 DEF Lapse
<1>16. ASSUME NEW o \in Locked, RefuseBusy(o) PROVE BoundInv'
  BY <1>9, <1>16 DEF RefuseBusy, Busy
<1>17. CASE UNCHANGED vars
  BY <1>9, <1>17 DEF vars
<1> QED
  BY <1>5, <1>6, <1>7, <1>8, <1>10, <1>11, <1>12, <1>13, <1>14, <1>15, <1>16,
     <1>17 DEF Next, Switch

\* Every destructive change and every revert of the history spent an approval
\* that was given for just this change, and no two of them the same one,
\* although writers without the lock may bring a used approval back.
THEOREM EachApproved == Spec => []ChangesApproved
<1>1. BoundInv => ChangesApproved
  <2> SUFFICES ASSUME BoundInv PROVE ChangesApproved
    OBVIOUS
  <2>1. /\ Spent(doc, Issued) /\ Bound(doc, at, snaps)
        /\ Len(doc.versions) \in Nat
    BY DEF BoundInv, ApprovalInv, HistoryInv, Sound, Documents
  <2> QED
    BY <2>1 DEF Spent, Bound, Given, ChangesApproved
<1> QED
  BY <1>1, InitBound, StepBound, PTL DEF Spec

=============================================================================
