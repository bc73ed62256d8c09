---------------------------- MODULE SignupProofs ----------------------------
(***************************************************************************)
(* Theorems about the signups of one slot, for every set of jobs and of    *)
(* pollers:                                                                *)
(*   - all jobs that complete agree on one account (CompletedJobsAgree);   *)
(*   - the user's limit is a ceiling, but for the undone dispatches of     *)
(*     administrators (CeilingHolds);                                      *)
(*   - the course of a job: nothing is provisioned behind a job that has   *)
(*     ended, and an ended job stays ended (ProvisionInFlight,             *)
(*     EndedStaysEnded);                                                   *)
(*   - the slot of a signup that is over was kept or given back as the     *)
(*     signup handed out a credential or not (SlotSettled);                *)
(*   - a delivery ends the deliveries of a credential (OncePerPoller).     *)
(***************************************************************************)
EXTENDS SignupJob, FiniteSetTheorems, TLAPS

\* The unique index.
OneAccount == \A a, b \in accounts : a = b

\* A workflow past its insert, and a completed job, resolve to an account.
TargetExists ==
    \A j \in Jobs :
        wf[j] \in {"credit", "mint", "stash", "complete"} \/ row[j] = "complete"
            => target[j] \in accounts

AgreeInv == TypeOK /\ OneAccount /\ TargetExists

-----------------------------------------------------------------------------
LEMMA InitTypes == Init => TypeOK
  BY DEF Init, TypeOK, CallPhases, WfPhases, Statuses

\* The dispatching call moves through its phases.
LEMMA DispatchKeepsTypes ==
    ASSUME TypeOK, NEW j \in Jobs, Look(j) \/ Kick(j) \/ CrashCall(j)
    PROVE  TypeOK'
<1> USE DEF TypeOK, CallGoes, slot, flow, consent, handover, CallPhases,
            WfPhases, Steps, Statuses
<1>1. CASE LookForAccount(j) \/ JoinInFlight(j) \/ NoneInFlight(j)
  BY <1>1 DEF LookForAccount, JoinInFlight, NoneInFlight
<1>2. CASE CheckUserLimit(j)
  BY <1>2 DEF CheckUserLimit
<1>3. CASE ClaimQuota(j)
  BY <1>3 DEF ClaimQuota
<1>4. CASE InsertJob(j) \/ StartThrows(j)
  BY <1>4 DEF InsertJob, StartThrows
<1>5. CASE StartWorkflow(j)
  BY <1>5 DEF StartWorkflow
<1>6. CASE UndoClaim(j)
  BY <1>6 DEF UndoClaim, Refunded
<1>7. CASE UndoCount(j)
  BY <1>7 DEF UndoCount, Uncounted
<1>8. CASE CrashCall(j)
  BY <1>8 DEF CrashCall
<1> QED
  BY <1>1, <1>2, <1>3, <1>4, <1>5, <1>6, <1>7, <1>8 DEF Look, Kick

\* A step that returns leaves the cursor in its range.
LEMMA ReturnsTyped ==
    ASSUME TypeOK, NEW j \in Jobs, NEW step \in WfPhases, NEW next \in WfPhases,
           Returns(j, step, next)
    PROVE  wf' \in [Jobs -> WfPhases] /\ tries' \in [Jobs -> Nat]
  BY DEF TypeOK, Returns, Goes

\* The workflow moves through its steps.
LEMMA RunKeepsTypes ==
    ASSUME TypeOK, NEW j \in Jobs,
           Run(j) \/ Timeout(j) \/ StepThrows(j) \/ FailureFails(j)
    PROVE  TypeOK'
<1> DEFINE Why == [Jobs -> {"none", "threw", "email_timeout"}]
<1>1. \A s \in {"none", "hook", "wait", "stash", "giveback", "done", "dead",
                "signup", "mark", "handle", "insert", "credit", "mint",
                "complete", "fail"} : s \in WfPhases
  BY DEF WfPhases, Steps
<1>2. ASSUME NEW s \in WfPhases, Goes(j, s) PROVE wf' \in [Jobs -> WfPhases]
  BY <1>2 DEF Goes, TypeOK
<1>3. ASSUME NEW e \in {"threw", "email_timeout"}, FailsWith(j, e)
      PROVE  wf' \in [Jobs -> WfPhases] /\ why' \in Why
  BY <1>1, <1>3 DEF FailsWith, Goes, TypeOK
<1>4. CASE ProviderSignup(j)
  <2>1. wf' \in [Jobs -> WfPhases] /\ tries' \in [Jobs -> Nat] /\ why' \in Why
    BY <1>1, <1>3, <1>4, ReturnsTyped DEF ProviderSignup, TypeOK
  <2>2. link' \in [Jobs -> {"none", "sent", "confirmed"}]
    BY <1>4 DEF ProviderSignup, TypeOK
  <2> QED
    BY <1>4, <2>1, <2>2 DEF ProviderSignup, TypeOK, dispatch, slot, handover
<1>5. CASE MarkAwaitingEmail(j) \/ HandleEmail(j) \/ CompleteSignupJob(j)
  <2>1. wf' \in [Jobs -> WfPhases] /\ tries' \in [Jobs -> Nat]
    BY <1>1, <1>5, ReturnsTyped
    DEF MarkAwaitingEmail, HandleEmail, CompleteSignupJob
  <2> QED
    BY <1>5, <2>1
    DEF MarkAwaitingEmail, HandleEmail, CompleteSignupJob, TypeOK, dispatch,
        slot, consent, handover, Statuses
<1>6. CASE CreateHook(j) \/ MintKey(j)
  <2>1. wf' \in [Jobs -> WfPhases]
    BY <1>1, <1>2, <1>6 DEF CreateHook, MintKey
  <2> QED
    BY <1>6, <2>1 DEF CreateHook, MintKey, TypeOK, dispatch, slot, consent, handover
<1>7. CASE InsertAccountRecord(j)
  <2>1. wf' \in [Jobs -> WfPhases] /\ tries' \in [Jobs -> Nat]
    <3>1. \E next \in {"mint", "credit", "complete"} : Returns(j, "insert", next)
      BY <1>7 DEF InsertAccountRecord, InsertOrDedup
    <3> QED
      BY <1>1, <3>1, ReturnsTyped
  <2>2. target' \in [Jobs -> Jobs \union {None}] /\ accounts' \subseteq Jobs
    BY <1>7 DEF InsertAccountRecord, InsertOrDedup, TypeOK
  <2> QED
    BY <1>7, <2>1, <2>2
    DEF InsertAccountRecord, TypeOK, dispatch, slot, consent, handover
<1>8. CASE RefundDedup(j) \/ RefundFailed(j)
  <2>1. wf' \in [Jobs -> WfPhases] /\ tries' \in [Jobs -> Nat]
    BY <1>1, <1>8, ReturnsTyped DEF RefundDedup, RefundFailed
  <2> QED
    BY <1>8, <2>1
    DEF RefundDedup, RefundFailed, Refunded, TypeOK, dispatch, consent, handover
<1>9. CASE StashCredential(j)
  <2>1. wf' \in [Jobs -> WfPhases] /\ tries' \in [Jobs -> Nat]
    <3>1. CASE Returns(j, "mint", "complete")
      BY <1>1, <3>1, ReturnsTyped
    <3>2. CASE Goes(j, "mint") /\ tries' = [tries EXCEPT ![j] = @ + 1]
      BY <1>1, <1>2, <3>2 DEF TypeOK
    <3> QED
      BY <1>9, <3>1, <3>2 DEF StashCredential
  <2> QED
    BY <1>9, <2>1 DEF StashCredential, TypeOK, dispatch, slot, consent
<1>10. CASE FailSignupJob(j)
  <2>1. wf' \in [Jobs -> WfPhases] /\ tries' \in [Jobs -> Nat]
    BY <1>1, <1>2, <1>10, ReturnsTyped DEF FailSignupJob, FailedRow, TypeOK
  <2> QED
    BY <1>10, <2>1
    DEF FailSignupJob, FailedRow, TypeOK, dispatch, slot, consent, handover, Statuses
<1>11. CASE Timeout(j) \/ StepThrows(j) \/ FailureFails(j)
  <2>1. wf' \in [Jobs -> WfPhases] /\ why' \in Why
    BY <1>1, <1>2, <1>3, <1>11 DEF Timeout, StepThrows, FailureFails, TypeOK
  <2> QED
    BY <1>11, <2>1
    DEF Timeout, StepThrows, FailureFails, TypeOK, dispatch, slot, consent, handover
<1> QED
  BY <1>4, <1>5, <1>6, <1>7, <1>8, <1>9, <1>10, <1>11 DEF Run

\* The user, the clock and the webhook.
LEMMA ConsentKeepsTypes ==
    ASSUME TypeOK, NEW j \in Jobs,
           ReadLink(j) \/ ConfirmLink(j) \/ ReceiveMail(j) \/ ResumeHook(j)
           \/ CrashClick(j) \/ Expire(j)
    PROVE  TypeOK'
<1> USE DEF TypeOK, dispatch, slot, flow, handover
<1>1. CASE ReadLink(j) \/ ConfirmLink(j) \/ ReceiveMail(j)
  BY <1>1 DEF ReadLink, ConfirmLink, ReceiveMail, Arrived
<1>2. CASE ResumeHook(j)
  BY <1>2 DEF ResumeHook, Handled, WfPhases, Steps
<1>3. CASE CrashClick(j) \/ Expire(j)
  BY <1>3 DEF CrashClick, Handled, Expire
<1> QED
  BY <1>1, <1>2, <1>3

\* The pollers and the collector.
LEMMA HandoverKeepsTypes ==
    ASSUME TypeOK,
           Scrub \/ \E p \in Pollers : Deliver(p) \/ \E j \in Jobs : PollJob(p, j)
    PROVE  TypeOK'
<1> USE DEF TypeOK, dispatch, slot, flow, consent
<1>1. CASE Scrub
  BY <1>1 DEF Scrub
<1>2. ASSUME NEW p \in Pollers, Deliver(p) PROVE TypeOK'
  BY <1>2 DEF Deliver
<1>3. ASSUME NEW p \in Pollers, NEW j \in Jobs, PollJob(p, j) PROVE TypeOK'
  BY <1>3 DEF PollJob
<1> QED
  BY <1>1, <1>2, <1>3

LEMMA StepKeepsTypes == TypeOK /\ [Next]_vars => TypeOK'
<1> SUFFICES ASSUME TypeOK, [Next]_vars PROVE TypeOK'
  OBVIOUS
<1>1. CASE UNCHANGED vars
  BY <1>1 DEF TypeOK, vars, dispatch, slot, flow, consent, handover
<1>2. CASE Next
  BY <1>2, DispatchKeepsTypes, RunKeepsTypes, ConsentKeepsTypes,
     HandoverKeepsTypes
  DEF Next
<1> QED
  BY <1>1, <1>2

(***************************************************************************)
(* The rows, the runs and the hand-over keep their domains; the user's     *)
(* counter never falls below zero.                                         *)
(***************************************************************************)
THEOREM TypeCorrect == Spec => []TypeOK
  BY InitTypes, StepKeepsTypes, PTL DEF Spec

-----------------------------------------------------------------------------
(***************************************************************************)
(* Agreement.  An account is never removed and only one is ever inserted,  *)
(* so it is enough that a run that leaves its insert step has its target   *)
(* among the accounts, and keeps it until the row says "complete".         *)
(***************************************************************************)

LEMMA InitAgreeInv == Init => AgreeInv
  BY InitTypes DEF Init, AgreeInv, OneAccount, TargetExists

\* A step that neither inserts an account nor brings a job nearer to
\* completion.
LEMMA AgreeFrame ==
    ASSUME AgreeInv, TypeOK', accounts' = accounts, target' = target,
           \A i \in Jobs :
               /\ wf'[i] \in {"credit", "mint", "stash", "complete"} =>
                      wf[i] \in {"credit", "mint", "stash", "complete"}
               /\ row'[i] = "complete" =>
                      \/ row[i] = "complete"
                      \/ wf[i] = "complete"
    PROVE  AgreeInv'
  BY DEF AgreeInv, OneAccount, TargetExists

LEMMA InsertKeepsAgreeInv ==
    ASSUME AgreeInv, TypeOK', NEW j \in Jobs, InsertAccountRecord(j)
    PROVE  AgreeInv'
<1> USE DEF AgreeInv, TypeOK
<1>1. OneAccount' /\ accounts \subseteq accounts' /\ target'[j] \in accounts'
  BY DEF InsertAccountRecord, InsertOrDedup, OneAccount
<1>2. \A i \in Jobs \ {j} : target'[i] = target[i] /\ wf'[i] = wf[i]
  BY DEF InsertAccountRecord, InsertOrDedup, Returns, Goes
<1>3. row' = row
  BY DEF InsertAccountRecord
<1> QED
  BY <1>1, <1>2, <1>3 DEF TargetExists

LEMMA RunKeepsAgreeInv ==
    ASSUME AgreeInv, NEW j \in Jobs,
           Run(j) \/ Timeout(j) \/ StepThrows(j) \/ FailureFails(j)
    PROVE  AgreeInv'
<1>1. TypeOK'
  BY RunKeepsTypes DEF AgreeInv
<1> USE DEF AgreeInv, TypeOK
<1>2. CASE ProviderSignup(j)
  BY <1>1, <1>2, AgreeFrame DEF ProviderSignup, Returns, FailsWith, Goes
<1>3. CASE MarkAwaitingEmail(j) \/ HandleEmail(j) \/ CreateHook(j)
  BY <1>1, <1>3, AgreeFrame
  DEF MarkAwaitingEmail, HandleEmail, CreateHook, Returns, Goes
<1>4. CASE InsertAccountRecord(j)
  BY <1>1, <1>4, InsertKeepsAgreeInv
<1>5. CASE RefundDedup(j) \/ MintKey(j) \/ StashCredential(j)
  BY <1>1, <1>5, AgreeFrame
  DEF RefundDedup, MintKey, StashCredential, Returns, Goes
<1>6. CASE CompleteSignupJob(j)
  BY <1>1, <1>6, AgreeFrame DEF CompleteSignupJob, Returns, Goes
<1>7. CASE FailSignupJob(j) \/ RefundFailed(j)
  BY <1>1, <1>7, AgreeFrame
  DEF FailSignupJob, FailedRow, RefundFailed, Returns, Goes
<1>8. CASE Timeout(j) \/ StepThrows(j) \/ FailureFails(j)
  BY <1>1, <1>8, AgreeFrame
  DEF Timeout, StepThrows, FailureFails, FailsWith, Goes
<1> QED
  BY <1>2, <1>3, <1>4, <1>5, <1>6, <1>7, <1>8 DEF Run

LEMMA OthersKeepAgreeInv ==
    ASSUME AgreeInv,
           \/ \E j \in Jobs :
               \/ Look(j) \/ Kick(j) \/ CrashCall(j)
               \/ ReadLink(j) \/ ConfirmLink(j) \/ ReceiveMail(j) \/ ResumeHook(j)
               \/ CrashClick(j) \/ Expire(j)
           \/ Scrub
           \/ \E p \in Pollers : Deliver(p) \/ \E j \in Jobs : PollJob(p, j)
    PROVE  AgreeInv'
<1>1. TypeOK'
  BY DispatchKeepsTypes, ConsentKeepsTypes, HandoverKeepsTypes DEF AgreeInv
<1>2. /\ accounts' = accounts /\ target' = target
      /\ \A i \in Jobs :
             /\ wf'[i] = wf[i] \/ wf'[i] \in {"signup", "handle"}
             /\ row'[i] = row[i] \/ row'[i] \in {"pending", "failed"}
  <2> USE DEF AgreeInv, TypeOK, flow, consent, handover
  <2>1. CASE \E j \in Jobs : Look(j) \/ CrashCall(j)
    BY <2>1 DEF Look, LookForAccount, JoinInFlight, NoneInFlight, CrashCall
  <2>2. CASE \E j \in Jobs : Kick(j)
    BY <2>2
    DEF Kick, CheckUserLimit, ClaimQuota, InsertJob, StartWorkflow, StartThrows,
        UndoClaim, UndoCount
  <2>3. CASE \E j \in Jobs : ReadLink(j) \/ ConfirmLink(j) \/ ReceiveMail(j) \/ ResumeHook(j)
                            \/ CrashClick(j) \/ Expire(j)
    BY <2>3 DEF ReadLink, ConfirmLink, ReceiveMail, ResumeHook, CrashClick, Expire
  <2>4. CASE Scrub \/ \E p \in Pollers : Deliver(p) \/ \E j \in Jobs : PollJob(p, j)
    BY <2>4 DEF Scrub, Deliver, PollJob
  <2> QED
    BY <2>1, <2>2, <2>3, <2>4
<1> QED
  BY <1>1, <1>2, AgreeFrame

(***************************************************************************)
(* Whatever the dedup checks of the intents missed, and whatever steps     *)
(* failed or ran again, two jobs of the slot that complete resolve to the  *)
(* same account, and that account exists.                                  *)
(***************************************************************************)
THEOREM Agreement == Spec => []CompletedJobsAgree
<1>1. AgreeInv /\ [Next]_vars => AgreeInv'
  <2> SUFFICES ASSUME AgreeInv, [Next]_vars PROVE AgreeInv'
    OBVIOUS
  <2>1. CASE UNCHANGED vars
    BY <2>1
    DEF vars, dispatch, slot, flow, consent, handover, AgreeInv, TypeOK, OneAccount,
        TargetExists
  <2>2. CASE Next
    BY <2>2, RunKeepsAgreeInv, OthersKeepAgreeInv DEF Next
  <2> QED
    BY <2>1, <2>2
<1>2. AgreeInv => CompletedJobsAgree
  BY DEF AgreeInv, OneAccount, TargetExists, CompletedJobsAgree
<1> QED
  BY InitAgreeInv, <1>1, <1>2, PTL DEF Spec

-----------------------------------------------------------------------------
(***************************************************************************)
(* The ceiling.  The dispatches that passed the limit and were not undone  *)
(* outnumber the counter, and the limit, by no more than the starts of     *)
(* administrators that were undone: each of those took a count that was    *)
(* given to somebody else.                                                 *)
(***************************************************************************)
Counted == {j \in Jobs \ Admins :
                call[j] \in {"counted", "claimed", "inserted", "undo", "uncount",
                             "accepted", "dead"}}

\* However many dispatches may come, finitely many are counted or undone.
CeilingInv == /\ TypeOK
              /\ IsFiniteSet(Counted) /\ IsFiniteSet(AdminUndone)
              /\ Cardinality(Counted) <= count + Cardinality(AdminUndone)
              /\ Cardinality(Counted) <= UserLimit + Cardinality(AdminUndone)

LEMMA CountsAreNumbers ==
    CeilingInv => Cardinality(Counted) \in Nat /\ Cardinality(AdminUndone) \in Nat
  BY FS_CardinalityType DEF CeilingInv

\* A step that admits nobody and takes nothing from the counter.
LEMMA CeilingFrame ==
    ASSUME CeilingInv, TypeOK', count' >= count, Counted' \subseteq Counted,
           AdminUndone' = AdminUndone
    PROVE  CeilingInv'
<1>1. /\ IsFiniteSet(Counted')
      /\ Cardinality(Counted') \in Nat
      /\ Cardinality(Counted') <= Cardinality(Counted)
  BY FS_Subset, FS_CardinalityType DEF CeilingInv
<1> QED
  BY <1>1, CountsAreNumbers, RulesAssumption DEF CeilingInv, TypeOK

LEMMA CheckKeepsCeiling ==
    ASSUME CeilingInv, TypeOK', NEW j \in Jobs, CheckUserLimit(j)
    PROVE  CeilingInv'
<1> USE DEF CeilingInv, TypeOK
<1>0. AdminUndone' = AdminUndone
  BY JobsAssumption DEF CheckUserLimit, Kicks, CallGoes, AdminUndone
<1>1. CASE j \in Admins \/ OverLimit
  <2>1. Counted' \subseteq Counted /\ count' >= count
    BY <1>1 DEF CheckUserLimit, CallGoes, Counted
  <2> QED
    BY <1>0, <2>1, CeilingFrame
<1>2. CASE j \notin Admins /\ ~OverLimit
  <2>1. j \notin Counted /\ Counted' = Counted \union {j} /\ count' = count + 1
    BY <1>2 DEF CheckUserLimit, Kicks, CallGoes, Counted
  <2>2. IsFiniteSet(Counted') /\ Cardinality(Counted') = Cardinality(Counted) + 1
    BY <2>1, FS_AddElement
  <2>3. count + 1 <= UserLimit
    BY <1>2, RulesAssumption DEF OverLimit
  <2> QED
    BY <1>0, <2>1, <2>2, <2>3, CountsAreNumbers, RulesAssumption
<1> QED
  BY <1>1, <1>2

LEMMA UndoKeepsCeiling ==
    ASSUME CeilingInv, TypeOK', NEW j \in Jobs, UndoCount(j)
    PROVE  CeilingInv'
<1> USE DEF CeilingInv, TypeOK
<1>1. count' \in Nat /\ count' >= count - 1
  BY DEF UndoCount, Uncounted
<1>2. CASE j \in Admins
  <2>1. /\ Counted' = Counted
        /\ j \notin AdminUndone /\ AdminUndone' = AdminUndone \union {j}
    BY <1>2, JobsAssumption DEF UndoCount, CallGoes, Counted, AdminUndone
  <2>2. /\ IsFiniteSet(AdminUndone')
        /\ Cardinality(AdminUndone') = Cardinality(AdminUndone) + 1
    BY <2>1, FS_AddElement
  <2> QED
    BY <1>1, <2>1, <2>2, CountsAreNumbers, RulesAssumption
<1>3. CASE j \notin Admins
  <2>1. /\ j \in Counted /\ Counted' = Counted \ {j}
        /\ AdminUndone' = AdminUndone
    BY <1>3, JobsAssumption DEF UndoCount, CallGoes, Counted, AdminUndone
  <2>2. IsFiniteSet(Counted') /\ Cardinality(Counted') = Cardinality(Counted) - 1
    BY <2>1, FS_RemoveElement
  <2> QED
    BY <1>1, <2>1, <2>2, CountsAreNumbers, RulesAssumption
<1> QED
  BY <1>2, <1>3

\* Every other step of every actor.
LEMMA OthersKeepCeiling ==
    ASSUME CeilingInv, TypeOK', Next,
           ~ \E j \in Jobs : CheckUserLimit(j) \/ UndoCount(j)
    PROVE  CeilingInv'
<1> USE DEF CeilingInv, TypeOK, dispatch
<1> USE JobsAssumption DEF AdminUndone
<1> SUFFICES /\ count' >= count /\ Counted' \subseteq Counted
             /\ AdminUndone' = AdminUndone
  BY CeilingFrame
<1>1. CASE \E j \in Jobs : Look(j) \/ Kick(j) \/ CrashCall(j)
  <2>1. PICK j \in Jobs : Look(j) \/ Kick(j) \/ CrashCall(j)
    BY <1>1
  <2>2. CASE LookForAccount(j) \/ JoinInFlight(j) \/ NoneInFlight(j)
    BY <2>2 DEF LookForAccount, JoinInFlight, NoneInFlight, CallGoes, Counted
  <2>3. CASE ClaimQuota(j)
    BY <2>3 DEF ClaimQuota, CallGoes, Counted
  <2>4. CASE InsertJob(j) \/ StartWorkflow(j) \/ StartThrows(j)
    BY <2>4 DEF InsertJob, StartWorkflow, StartThrows, CallGoes, Counted
  <2>5. CASE UndoClaim(j) \/ CrashCall(j)
    BY <2>5 DEF UndoClaim, CrashCall, CallGoes, Counted
  <2> QED
    BY <2>1, <2>2, <2>3, <2>4, <2>5 DEF Look, Kick
<1>2. CASE UNCHANGED dispatch
  BY <1>2 DEF Counted
<1>3. CASE \E j \in Jobs : Run(j) \/ Timeout(j) \/ StepThrows(j) \/ FailureFails(j)
  <2>1. UNCHANGED dispatch
    BY <1>3
    DEF Run, ProviderSignup, MarkAwaitingEmail, CreateHook, HandleEmail,
        InsertAccountRecord, RefundDedup, MintKey, StashCredential,
        CompleteSignupJob, FailSignupJob, RefundFailed, Timeout, StepThrows,
        FailureFails
  <2> QED
    BY <1>2, <2>1
<1>4. CASE \/ \E j \in Jobs : ReadLink(j) \/ ConfirmLink(j) \/ ReceiveMail(j) \/ ResumeHook(j)
                             \/ CrashClick(j) \/ Expire(j)
           \/ Scrub
           \/ \E p \in Pollers : Deliver(p) \/ \E j \in Jobs : PollJob(p, j)
  <2>1. UNCHANGED dispatch
    BY <1>4
    DEF ReadLink, ConfirmLink, ReceiveMail, ResumeHook, CrashClick, Expire, Scrub, Deliver,
        PollJob
  <2> QED
    BY <1>2, <2>1
<1> QED
  BY <1>1, <1>3, <1>4 DEF Next

(***************************************************************************)
(* Dispatches cannot race past the user's limit: whatever is refused,      *)
(* undone or left behind by a dead handler, no more signups are accepted   *)
(* than the limit allows, and one more for every administrator's start     *)
(* that was undone.                                                        *)
(***************************************************************************)
THEOREM Ceiling == Spec => []CeilingHolds
<1>1. Init => CeilingInv
  <2> SUFFICES ASSUME Init PROVE CeilingInv
    OBVIOUS
  <2>1. Counted = {} /\ AdminUndone = {}
    BY JobsAssumption DEF Init, Counted, AdminUndone
  <2> QED
    BY <2>1, InitTypes, FS_EmptySet, RulesAssumption DEF Init, CeilingInv
<1>2. CeilingInv /\ [Next]_vars => CeilingInv'
  <2> SUFFICES ASSUME CeilingInv, [Next]_vars PROVE CeilingInv'
    OBVIOUS
  <2>1. TypeOK'
    BY StepKeepsTypes DEF CeilingInv
  <2>2. CASE UNCHANGED vars
    <3>1. count' = count /\ Counted' = Counted /\ AdminUndone' = AdminUndone
      BY <2>2 DEF vars, dispatch, Counted, AdminUndone
    <3> QED
      BY <2>1, <3>1 DEF CeilingInv
  <2>3. CASE Next
    BY <2>1, <2>3, CheckKeepsCeiling, UndoKeepsCeiling, OthersKeepCeiling
  <2> QED
    BY <2>2, <2>3
<1>3. CeilingInv => CeilingHolds
  <2> DEFINE Accepted == {j \in Jobs \ Admins : call[j] = "accepted"}
  <2> SUFFICES ASSUME CeilingInv
               PROVE  Cardinality(Accepted) <= UserLimit + Cardinality(AdminUndone)
    BY DEF CeilingHolds
  <2>1. Accepted \subseteq Counted
    BY DEF Counted
  <2>2. /\ Cardinality(Accepted) <= Cardinality(Counted)
        /\ Cardinality(Accepted) \in Nat
    BY <2>1, FS_Subset, FS_CardinalityType DEF CeilingInv
  <2> QED
    BY <2>2, CountsAreNumbers, RulesAssumption DEF CeilingInv
<1> QED
  BY <1>1, <1>2, <1>3, PTL DEF Spec

-----------------------------------------------------------------------------
(***************************************************************************)
(* The course of a job: what its row says where its call and its run stand *)
(***************************************************************************)
Early == {"signup", "mark", "hook", "wait", "handle", "insert"}

\* The completing step may run again though it has committed.
Again(j) == "complete" \in Repeats /\ tries[j] > 0

Course(j) ==
    /\ wf[j] # "none" => call[j] = "accepted"
    /\ call[j] \in {"idle", "looked", "clear", "counted", "claimed"} => row[j] = "none"
    /\ call[j] = "inserted" => row[j] = "pending"
    /\ wf[j] \in Early \union {"credit", "mint", "stash"} => InFlight(j)
    /\ wf[j] = "complete" => InFlight(j) \/ (row[j] = "complete" /\ Again(j))
    /\ wf[j] = "fail" /\ row[j] = "complete" => Again(j)
    /\ wf[j] = "giveback" => row[j] = "failed"
Courses == \A j \in Jobs : Course(j)

LEMMA DispatchKeepsCourses ==
    ASSUME TypeOK, Courses, NEW j \in Jobs, Look(j) \/ Kick(j) \/ CrashCall(j)
    PROVE  Courses'
<1> USE DEF TypeOK, Courses, Course, InFlight, CallGoes, flow, Early, Again
<1>1. CASE LookForAccount(j) \/ JoinInFlight(j) \/ NoneInFlight(j)
  BY <1>1 DEF LookForAccount, JoinInFlight, NoneInFlight
<1>2. CASE CheckUserLimit(j) \/ ClaimQuota(j)
  BY <1>2 DEF CheckUserLimit, Kicks, ClaimQuota
<1>3. CASE InsertJob(j) \/ StartThrows(j)
  BY <1>3 DEF InsertJob, StartThrows
<1>4. CASE StartWorkflow(j)
  BY <1>4 DEF StartWorkflow
<1>5. CASE UndoClaim(j) \/ UndoCount(j) \/ CrashCall(j)
  BY <1>5 DEF UndoClaim, UndoCount, CrashCall
<1> QED
  BY <1>1, <1>2, <1>3, <1>4, <1>5 DEF Look, Kick

\* A step of one job's run leaves the course of the others alone.
LEMMA CoursesFrame ==
    ASSUME Courses, NEW j \in Jobs, call' = call, Course(j)',
           \A i \in Jobs \ {j} :
               wf'[i] = wf[i] /\ row'[i] = row[i] /\ tries'[i] = tries[i]
    PROVE  Courses'
  BY DEF Courses, Course, InFlight, Again

LEMMA RunKeepsCourses ==
    ASSUME TypeOK, Courses, NEW j \in Jobs,
           Run(j) \/ Timeout(j) \/ StepThrows(j) \/ FailureFails(j)
    PROVE  Courses'
<1> USE DEF TypeOK, Course, InFlight, Goes, Returns, FailsWith, dispatch, Early, Again
<1>0. Course(j)
  BY DEF Courses
<1>1. CASE ProviderSignup(j)
  BY <1>0, <1>1, CoursesFrame DEF ProviderSignup
<1>2. CASE MarkAwaitingEmail(j) \/ CreateHook(j) \/ HandleEmail(j)
  BY <1>0, <1>2, CoursesFrame DEF MarkAwaitingEmail, CreateHook, HandleEmail
<1>3. CASE InsertAccountRecord(j)
  BY <1>0, <1>3, CoursesFrame DEF InsertAccountRecord, InsertOrDedup
<1>4. CASE RefundDedup(j) \/ MintKey(j) \/ StashCredential(j)
  BY <1>0, <1>4, CoursesFrame DEF RefundDedup, MintKey, StashCredential
<1>5. CASE CompleteSignupJob(j)
  BY <1>0, <1>5, CoursesFrame DEF CompleteSignupJob
<1>6. CASE FailSignupJob(j) \/ RefundFailed(j)
  BY <1>0, <1>6, CoursesFrame DEF FailSignupJob, FailedRow, RefundFailed
<1>7. CASE Timeout(j) \/ FailureFails(j)
  BY <1>0, <1>7, CoursesFrame DEF Timeout, FailureFails
<1>8. CASE StepThrows(j)
  <2>1. wf[j] \in Early \union {"mint", "stash", "complete"}
    BY <1>8, RulesAssumption DEF StepThrows, Steps, WfPhases
  <2>2. row' = row /\ call' = call /\ tries' = tries /\ wf' = [wf EXCEPT ![j] = "fail"]
    BY <1>8 DEF StepThrows
  <2> QED
    BY <1>0, <2>1, <2>2, CoursesFrame
<1> QED
  BY <1>1, <1>2, <1>3, <1>4, <1>5, <1>6, <1>7, <1>8 DEF Run

LEMMA OthersKeepCourses ==
    ASSUME TypeOK, Courses,
           \/ \E j \in Jobs :
               \/ ReadLink(j) \/ ConfirmLink(j) \/ ReceiveMail(j) \/ ResumeHook(j)
               \/ CrashClick(j) \/ Expire(j)
           \/ Scrub
           \/ \E p \in Pollers : Deliver(p) \/ \E j \in Jobs : PollJob(p, j)
    PROVE  Courses'
<1>1. /\ call' = call /\ row' = row /\ tries' = tries
      /\ \A i \in Jobs : wf'[i] = wf[i] \/ (wf[i] = "wait" /\ wf'[i] = "handle")
  BY DEF ReadLink, ConfirmLink, ReceiveMail, ResumeHook, HookOpen, CrashClick, Expire, Scrub, Deliver,
         PollJob, dispatch, flow, TypeOK
<1> QED
  BY <1>1 DEF Courses, Course, InFlight, Early, Again

LEMMA CoursesInvariance == Spec => [](TypeOK /\ Courses)
<1>1. Init => Courses
  BY DEF Init, Courses, Course, Early
<1>2. TypeOK /\ Courses /\ [Next]_vars => Courses'
  <2> SUFFICES ASSUME TypeOK, Courses, [Next]_vars PROVE Courses'
    OBVIOUS
  <2>1. CASE UNCHANGED vars
    BY <2>1 DEF vars, dispatch, slot, flow, Courses, Course, InFlight, Again
  <2>2. CASE Next
    BY <2>2, DispatchKeepsCourses, RunKeepsCourses, OthersKeepCourses DEF Next
  <2> QED
    BY <2>1, <2>2
<1> QED
  BY <1>1, <1>2, TypeCorrect, PTL DEF Spec

(***************************************************************************)
(* An account is made only for a job that is in flight, whatever fails,    *)
(* repeats, expires or is clicked late (insertAccountRecord).              *)
(***************************************************************************)
THEOREM Provisions == Spec => ProvisionInFlight
<1>1. Courses /\ [Next]_vars => [\A j \in Jobs : j \in accounts' \ accounts => InFlight(j)]_vars
  <2> SUFFICES ASSUME Courses, Next, NEW j \in Jobs, j \in accounts' \ accounts
               PROVE  InFlight(j)
    OBVIOUS
  <2>1. accounts' # accounts
    OBVIOUS
  <2>2. PICK i \in Jobs : InsertAccountRecord(i)
    <3>1. ASSUME NEW i \in Jobs, Look(i) \/ Kick(i) \/ CrashCall(i) PROVE accounts' = accounts
      BY <3>1
      DEF Look, LookForAccount, JoinInFlight, NoneInFlight, Kick, CheckUserLimit, ClaimQuota,
          InsertJob, StartWorkflow, StartThrows, UndoClaim, UndoCount, CrashCall
    <3>2. ASSUME NEW i \in Jobs, Run(i) \/ Timeout(i) \/ StepThrows(i) \/ FailureFails(i),
                 ~InsertAccountRecord(i)
          PROVE  accounts' = accounts
      BY <3>2
      DEF Run, ProviderSignup, MarkAwaitingEmail, CreateHook, HandleEmail, RefundDedup, MintKey,
          StashCredential, CompleteSignupJob, FailSignupJob, RefundFailed, Timeout, StepThrows,
          FailureFails
    <3>3. ASSUME \/ \E i \in Jobs : ReadLink(i) \/ ConfirmLink(i) \/ ReceiveMail(i) \/ ResumeHook(i)
                                    \/ CrashClick(i) \/ Expire(i)
                 \/ Scrub
                 \/ \E p \in Pollers : Deliver(p) \/ \E i \in Jobs : PollJob(p, i)
          PROVE  accounts' = accounts
      BY <3>3
      DEF ReadLink, ConfirmLink, ReceiveMail, ResumeHook, CrashClick, Expire, Scrub, Deliver, PollJob
    <3> QED
      BY <2>1, <3>1, <3>2, <3>3 DEF Next
  <2>3. wf[i] = "insert" /\ j = i
    BY <2>1, <2>2 DEF InsertAccountRecord, InsertOrDedup
  <2> QED
    BY <2>3 DEF Courses, Course, Early
<1> QED
  BY <1>1, CoursesInvariance, PTL DEF Spec, ProvisionInFlight

(***************************************************************************)
(* A row that says "failed" says so for good, and one that says "complete" *)
(* changes only to "failed", by the catch block of a run whose completing  *)
(* step had committed, ran again and gave up.                              *)
(***************************************************************************)
THEOREM EndedStays == Spec => EndedStaysEnded
<1>1. TypeOK /\ Courses /\ [Next]_vars =>
        [\A j \in Jobs :
            row[j] \in {"complete", "failed"} => row'[j] = row[j] \/ Uncompletes(j)]_vars
  <2> SUFFICES ASSUME TypeOK, Courses, Next, NEW j \in Jobs, row[j] \in {"complete", "failed"}
               PROVE  row'[j] = row[j] \/ Uncompletes(j)
    OBVIOUS
  <2> USE DEF TypeOK, Courses, Course, InFlight, Early
  <2>1. ASSUME NEW i \in Jobs, Look(i) \/ Kick(i) \/ CrashCall(i) PROVE row'[j] = row[j]
    BY <2>1
    DEF Look, LookForAccount, JoinInFlight, NoneInFlight, Kick, CheckUserLimit, ClaimQuota,
        InsertJob, StartWorkflow, StartThrows, UndoClaim, UndoCount, CrashCall
  <2>2. ASSUME NEW i \in Jobs, Run(i) \/ Timeout(i) \/ StepThrows(i) \/ FailureFails(i)
        PROVE  row'[j] = row[j] \/ Uncompletes(j)
    <3>1. CASE MarkAwaitingEmail(i) \/ CompleteSignupJob(i)
      BY <3>1 DEF MarkAwaitingEmail, CompleteSignupJob
    <3>2. CASE FailSignupJob(i)
      BY <3>2
      DEF FailSignupJob, FailedRow, Returns, Goes, Uncompletes, Recompleted, Again
    <3>3. CASE ~(MarkAwaitingEmail(i) \/ CompleteSignupJob(i) \/ FailSignupJob(i))
      BY <2>2, <3>3
      DEF Run, ProviderSignup, CreateHook, HandleEmail, InsertAccountRecord, RefundDedup, MintKey,
          StashCredential, RefundFailed, Timeout, StepThrows, FailureFails
    <3> QED
      BY <3>1, <3>2, <3>3
  <2>3. ASSUME \/ \E i \in Jobs : \/ ReadLink(i) \/ ConfirmLink(i) \/ ReceiveMail(i)
                                  \/ ResumeHook(i) \/ CrashClick(i) \/ Expire(i)
               \/ Scrub
               \/ \E p \in Pollers : Deliver(p) \/ \E i \in Jobs : PollJob(p, i)
        PROVE  row'[j] = row[j]
    BY <2>3
    DEF ReadLink, ConfirmLink, ReceiveMail, ResumeHook, CrashClick, Expire, Scrub, Deliver,
        PollJob
  <2> QED
    BY <2>1, <2>2, <2>3 DEF Next
<1> QED
  BY <1>1, CoursesInvariance, PTL DEF Spec, EndedStaysEnded

-----------------------------------------------------------------------------
(***************************************************************************)
(* The slot of a signup that is over.  The invariant says where a run of a *)
(* tenant's signup stands: with nothing given back yet, with a credential  *)
(* and the slot kept, or pointed to another job's account with the slot    *)
(* given back.                                                             *)
(***************************************************************************)
\* The job made its account and stashed a credential, and kept its slot.
Own(j) == cred[j] # "none" /\ target[j] = j /\ refunds[j] = 0

\* The job points to an account that it made no key for.
Pointed(j) == target[j] # None /\ j \notin keys

Deduped(j) == /\ cred[j] = "none" /\ Pointed(j) /\ Returned(j)
              /\ refunds[j] <= 1 + tries[j]

\* What a dispatch has behind it where it stands.
Charged(j) ==
    /\ call[j] \in {"idle", "looked", "clear", "counted"} => j \notin paid
    /\ call[j] \in {"claimed", "inserted", "undo", "uncount", "accepted"} =>
           j \in paid \union Admins
    /\ refunds[j] > 0 => j \in paid \union Admins
    /\ wf[j] = "none" /\ refunds[j] > 0 =>
           refunds[j] = 1 /\ call[j] \in {"uncount", "refused", "dead"}
    /\ call[j] = "uncount" \/ (call[j] = "refused" /\ j \in paid) => Returned(j)

\* What a run has behind it where it stands.
Settles(j) ==
    /\ wf[j] \in Early \union {"none", "credit"} => cred[j] = "none" /\ j \notin keys
    /\ wf[j] \in Early \union {"mint", "stash"} => refunds[j] = 0
    /\ wf[j] \in {"mint", "stash"} => target[j] = j
    /\ wf[j] = "credit" => target[j] # None /\ refunds[j] <= tries[j]
    /\ wf[j] = "complete" => Own(j) \/ Deduped(j)
    /\ wf[j] \in {"fail", "giveback", "dead"} => refunds[j] <= tries[j] + Extra(j)
    /\ wf[j] = "done" => /\ (row[j] = "complete" /\ Own(j)) \/ Returned(j)
                         /\ refunds[j] <= 1 + tries[j] + Extra(j)
    /\ refunds[j] > 0 => row[j] # "complete" \/ cred[j] = "none"

Settling == Tenant => \A j \in Jobs : Charged(j) /\ Settles(j)

\* A credential that is held by a poller or was delivered is one of a job that
\* was completed.
Handed ==
    \A j \in Jobs :
        delivered[j] > 0 \/ (\E p \in Pollers : poll[p] = j) =>
            cred[j] # "none" /\ (row[j] = "complete" \/ Recompleted(j))

SettleInv == TypeOK /\ Courses /\ Settling /\ Handed

\* A step of one job's dispatch leaves the others and all runs alone.
LEMMA DispatchFrame ==
    ASSUME SettleInv, NEW j \in Jobs, UNCHANGED <<mode, target, keys, cred, poll,
           delivered, why, tries>>,
           \A i \in Jobs \ {j} :
               /\ call'[i] = call[i] /\ refunds'[i] = refunds[i]
               /\ wf'[i] = wf[i] /\ row'[i] = row[i]
               /\ (i \in paid') = (i \in paid) /\ (i \in lapsed') = (i \in lapsed),
           row[j] \in {"complete", "failed"} => row'[j] = row[j],
           Tenant => Charged(j)' /\ Settles(j)'
    PROVE  Settling' /\ Handed'
<1>1. Settling'
  BY DEF SettleInv, Settling, Tenant, Charged, Settles, Own, Deduped, Pointed, Returned,
         Extra, DedupFailed
<1>2. Handed'
  BY DEF SettleInv, Handed, Recompleted
<1> QED
  BY <1>1, <1>2

LEMMA DispatchKeepsSettling ==
    ASSUME SettleInv, NEW j \in Jobs, Look(j) \/ Kick(j) \/ CrashCall(j)
    PROVE  Settling' /\ Handed'
<1> DEFINE Others == /\ UNCHANGED <<mode, target, keys, cred, poll, delivered, why, tries>>
                     /\ \A i \in Jobs \ {j} :
                          /\ call'[i] = call[i] /\ refunds'[i] = refunds[i]
                          /\ wf'[i] = wf[i] /\ row'[i] = row[i]
                          /\ (i \in paid') = (i \in paid) /\ (i \in lapsed') = (i \in lapsed)
<1>0. Tenant => Charged(j) /\ Settles(j)
  BY DEF SettleInv, Settling
<1>1. Course(j)
  BY DEF SettleInv, Courses
<1>2. ASSUME Others, row[j] \in {"complete", "failed"} => row'[j] = row[j],
             Tenant => Charged(j)' /\ Settles(j)'
      PROVE  Settling' /\ Handed'
  BY <1>2, DispatchFrame
<1> USE <1>2 DEF TypeOK, CallGoes, flow, consent, handover, slot, SettleInv
<1>3. CASE LookForAccount(j) \/ JoinInFlight(j) \/ NoneInFlight(j) \/ CheckUserLimit(j)
  <2>1. /\ Others /\ row' = row /\ refunds' = refunds /\ wf' = wf /\ paid' = paid
        /\ lapsed' = lapsed
        /\ call[j] \in {"idle", "looked", "clear"}
        /\ call'[j] \in {"looked", "found", "joined", "clear", "refused", "counted"}
    BY <1>3 DEF LookForAccount, JoinInFlight, NoneInFlight, CheckUserLimit, Kicks
  <2> QED
    BY <1>0, <1>1, <2>1
    DEF Tenant, Charged, Settles, Course, Own, Deduped, Pointed, Returned, Extra, DedupFailed,
        Early
<1>4. CASE ClaimQuota(j)
  <2>1. /\ Others /\ row' = row /\ refunds' = refunds /\ wf' = wf
        /\ lapsed' = lapsed /\ call[j] = "counted"
        /\ Tenant => \/ call'[j] = "claimed" /\ j \in paid' \union Admins
                     \/ call'[j] = "refused" /\ paid' = paid
    BY <1>4 DEF ClaimQuota
  <2> QED
    BY <1>0, <1>1, <2>1
    DEF Tenant, Charged, Settles, Course, Own, Deduped, Pointed, Returned, Extra, DedupFailed,
        Early
<1>5. CASE InsertJob(j) \/ StartWorkflow(j) \/ StartThrows(j) \/ CrashCall(j) \/ UndoCount(j)
  <2>1. /\ Others /\ refunds' = refunds /\ paid' = paid /\ lapsed' = lapsed
        /\ row'[j] \in {row[j], "pending", "failed"}
        /\ row[j] \in {"complete", "failed"} => row'[j] = row[j]
        /\ \/ wf' = wf
           \/ wf'[j] = "signup" /\ call[j] = "inserted"
        /\ \/ call[j] = "claimed" /\ call'[j] = "inserted"
           \/ call[j] = "inserted" /\ call'[j] \in {"accepted", "undo"}
           \/ call[j] = "uncount" /\ call'[j] = "refused"
           \/ call'[j] = "dead" /\ call[j] # "accepted"
    BY <1>1, <1>5 DEF InsertJob, StartWorkflow, StartThrows, CrashCall, UndoCount, Course
  <2>2. wf[j] = "none"
    BY <1>1, <2>1 DEF Course
  <2> QED
    BY <1>0, <1>1, <2>1, <2>2
    DEF Tenant, Charged, Settles, Course, Own, Deduped, Pointed, Returned, Extra, DedupFailed,
        Early
<1>6. CASE UndoClaim(j)
  <2>1. /\ Others /\ row' = row /\ wf' = wf /\ paid' = paid /\ tries' = tries
        /\ call[j] = "undo" /\ call'[j] = "uncount" /\ wf[j] = "none"
        /\ Tenant => \/ refunds'[j] = refunds[j] + 1 /\ lapsed' = lapsed
                     \/ refunds' = refunds /\ j \in lapsed'
    BY <1>1, <1>6 DEF UndoClaim, Refunded, Course
  <2> QED
    BY <1>0, <1>1, <2>1
    DEF Tenant, Charged, Settles, Course, Own, Deduped, Pointed, Returned, Extra, DedupFailed,
        Early
<1> QED
  BY <1>3, <1>4, <1>5, <1>6 DEF Look, Kick

\* A step of one job's run leaves the others alone.
LEMMA SettlingFrame ==
    ASSUME SettleInv, TypeOK', NEW j \in Jobs, mode' = mode, call' = call, paid' = paid,
           poll' = poll, delivered' = delivered,
           \A i \in Jobs \ {j} :
               /\ wf'[i] = wf[i] /\ cred'[i] = cred[i] /\ refunds'[i] = refunds[i]
               /\ (i \in lapsed') = (i \in lapsed) /\ (i \in keys') = (i \in keys)
               /\ target'[i] = target[i] /\ row'[i] = row[i]
               /\ why'[i] = why[i] /\ tries'[i] = tries[i],
           cred[j] # "none" => cred'[j] # "none",
           row[j] \in {"complete", "failed"} =>
               row'[j] = row[j] \/ (row'[j] = "failed" /\ Again(j)),
           tries'[j] >= tries[j],
           wf[j] # "none" /\ wf'[j] # "none",
           refunds'[j] = refunds[j] \/ wf[j] \in {"credit", "giveback"},
           Tenant => Settles(j)'
    PROVE  Settling' /\ Handed'
<1>1. Handed'
  BY DEF SettleInv, Handed, Recompleted, Again, TypeOK
<1>2. Tenant => Charged(j)'
  <2> SUFFICES ASSUME Tenant PROVE Charged(j)'
    OBVIOUS
  <2>1. Charged(j) /\ call[j] = "accepted"
    BY DEF SettleInv, Settling, Courses, Course
  <2> QED
    BY <2>1 DEF Charged
<1>3. Settling'
  BY <1>2
  DEF SettleInv, Settling, Tenant, Charged, Settles, Own, Deduped, Pointed, Returned, Extra,
      DedupFailed
<1> QED
  BY <1>1, <1>3

LEMMA RunKeepsSettling ==
    ASSUME SettleInv, TypeOK', NEW j \in Jobs,
           Run(j) \/ Timeout(j) \/ StepThrows(j) \/ FailureFails(j)
    PROVE  Settling' /\ Handed'
<1> DEFINE Frame ==
        /\ mode' = mode /\ call' = call /\ paid' = paid
        /\ poll' = poll /\ delivered' = delivered
        /\ \A i \in Jobs \ {j} :
             /\ wf'[i] = wf[i] /\ cred'[i] = cred[i] /\ refunds'[i] = refunds[i]
             /\ (i \in lapsed') = (i \in lapsed) /\ (i \in keys') = (i \in keys)
             /\ target'[i] = target[i] /\ row'[i] = row[i]
             /\ why'[i] = why[i] /\ tries'[i] = tries[i]
        /\ cred[j] # "none" => cred'[j] # "none"
        /\ row[j] \in {"complete", "failed"} =>
               row'[j] = row[j] \/ (row'[j] = "failed" /\ Again(j))
        /\ tries'[j] >= tries[j]
        /\ wf[j] # "none" /\ wf'[j] # "none"
        /\ refunds'[j] = refunds[j] \/ wf[j] \in {"credit", "giveback"}
<1>a. Tenant => Settles(j)
  BY DEF SettleInv, Settling
<1>b. Course(j)
  BY DEF SettleInv, Courses
<1>c. TypeOK
  BY DEF SettleInv
<1>d. ASSUME Frame, Tenant => Settles(j)' PROVE Settling' /\ Handed'
  BY <1>d, SettlingFrame
<1> HIDE DEF Frame
<1> USE DEF Goes, Returns, FailsWith, dispatch, consent, handover, slot
<1>1. CASE ProviderSignup(j)
  <2>1. Frame
    BY <1>b, <1>c, <1>1 DEF ProviderSignup, TypeOK, Frame, Course, InFlight, Early
  <2>2. Tenant => Settles(j)'
    BY <1>a, <1>b, <1>c, <1>1, JobsAssumption
    DEF ProviderSignup, TypeOK, Tenant, Settles, Own, Deduped, Pointed,
        Returned, Extra, DedupFailed, Course, Early
  <2> QED
    BY <1>d, <2>1, <2>2
<1>2. CASE MarkAwaitingEmail(j) \/ CreateHook(j) \/ HandleEmail(j)
  <2>1. Frame
    BY <1>b, <1>c, <1>2 DEF MarkAwaitingEmail, CreateHook, HandleEmail, TypeOK, Frame, Course, InFlight, Early
  <2>2. Tenant => Settles(j)'
    BY <1>a, <1>b, <1>c, <1>2, JobsAssumption
    DEF MarkAwaitingEmail, CreateHook, HandleEmail, TypeOK, Tenant, Settles, Own, Deduped, Pointed,
        Returned, Extra, DedupFailed, Course, Early
  <2> QED
    BY <1>d, <2>1, <2>2
<1>3. CASE InsertAccountRecord(j)
  <2>1. Frame
    BY <1>b, <1>c, <1>3 DEF InsertAccountRecord, InsertOrDedup, TypeOK, Frame, Course, InFlight, Early
  <2>2. Tenant => Settles(j)'
    BY <1>a, <1>b, <1>c, <1>3, JobsAssumption
    DEF InsertAccountRecord, InsertOrDedup, TypeOK, Tenant, Settles, Own, Deduped, Pointed,
        Returned, Extra, DedupFailed, Course, Early
  <2> QED
    BY <1>d, <2>1, <2>2
<1>4. CASE RefundDedup(j)
  <2>1. Frame
    BY <1>b, <1>c, <1>4 DEF RefundDedup, Refunded, TypeOK, Frame, Course, InFlight, Early
  <2>2. Tenant => Settles(j)'
    BY <1>a, <1>b, <1>c, <1>4, JobsAssumption
    DEF RefundDedup, Refunded, TypeOK, Tenant, Settles, Own, Deduped, Pointed,
        Returned, Extra, DedupFailed, Course, Early
  <2> QED
    BY <1>d, <2>1, <2>2
<1>5. CASE MintKey(j)
  <2>1. Frame
    BY <1>b, <1>c, <1>5 DEF MintKey, TypeOK, Frame, Course, InFlight, Early
  <2>2. Tenant => Settles(j)'
    BY <1>a, <1>b, <1>c, <1>5, JobsAssumption
    DEF MintKey, TypeOK, Tenant, Settles, Own, Deduped, Pointed,
        Returned, Extra, DedupFailed, Course, Early
  <2> QED
    BY <1>d, <2>1, <2>2
<1>6. CASE StashCredential(j)
  <2>1. Frame
    BY <1>b, <1>c, <1>6 DEF StashCredential, TypeOK, Frame, Course, InFlight, Early
  <2>2. Tenant => Settles(j)'
    BY <1>a, <1>b, <1>c, <1>6, JobsAssumption
    DEF StashCredential, TypeOK, Tenant, Settles, Own, Deduped, Pointed,
        Returned, Extra, DedupFailed, Course, Early
  <2> QED
    BY <1>d, <2>1, <2>2
<1>7. CASE CompleteSignupJob(j)
  <2>1. Frame
    BY <1>b, <1>c, <1>7 DEF CompleteSignupJob, TypeOK, Frame, Course, InFlight, Early
  <2>2. Tenant => Settles(j)'
    BY <1>a, <1>b, <1>c, <1>7, JobsAssumption
    DEF CompleteSignupJob, TypeOK, Tenant, Settles, Own, Deduped, Pointed,
        Returned, Extra, DedupFailed, Course, Early
  <2> QED
    BY <1>d, <2>1, <2>2
<1>8. CASE FailSignupJob(j)
  <2>1. Frame
    BY <1>b, <1>c, <1>8 DEF FailSignupJob, FailedRow, TypeOK, Frame, Course, InFlight, Early
  <2>2. Tenant => Settles(j)'
    BY <1>a, <1>b, <1>c, <1>8, JobsAssumption
    DEF FailSignupJob, FailedRow, TypeOK, Tenant, Settles, Own, Deduped, Pointed,
        Returned, Extra, DedupFailed, Course, Early
  <2> QED
    BY <1>d, <2>1, <2>2
<1>9. CASE RefundFailed(j)
  <2>1. Frame
    BY <1>b, <1>c, <1>9 DEF RefundFailed, Refunded, TypeOK, Frame, Course, InFlight, Early
  <2>2. Tenant => Settles(j)'
    BY <1>a, <1>b, <1>c, <1>9, JobsAssumption
    DEF RefundFailed, Refunded, TypeOK, Tenant, Settles, Own, Deduped, Pointed,
        Returned, Extra, DedupFailed, Course, Early
  <2> QED
    BY <1>d, <2>1, <2>2
<1>10. CASE Timeout(j) \/ FailureFails(j)
  <2>1. Frame
    BY <1>b, <1>c, <1>10 DEF Timeout, FailureFails, TypeOK, Frame, Course, InFlight, Early
  <2>2. Tenant => Settles(j)'
    BY <1>a, <1>b, <1>c, <1>10, JobsAssumption
    DEF Timeout, FailureFails, TypeOK, Tenant, Settles, Own, Deduped, Pointed,
        Returned, Extra, DedupFailed, Course, Early
  <2> QED
    BY <1>d, <2>1, <2>2
<1>11. CASE StepThrows(j)
  <2>1. wf[j] \in Early \union {"mint", "stash", "complete"}
    BY <1>c, <1>11, RulesAssumption DEF StepThrows, TypeOK, Steps, WfPhases, Early
  <2>2. /\ UNCHANGED <<mode, call, paid, refunds, lapsed, row, target, accounts, keys,
                       tries, cred, poll, delivered>>
        /\ wf' = [wf EXCEPT ![j] = "fail"] /\ why' = [why EXCEPT ![j] = "threw"]
    BY <1>11 DEF StepThrows
  <2>3. Frame
    BY <1>c, <2>1, <2>2 DEF TypeOK, Frame, Early
  <2>4. Tenant => Settles(j)'
    BY <1>a, <1>c, <2>1, <2>2, JobsAssumption
    DEF TypeOK, Tenant, Settles, Own, Deduped, Pointed, Returned, Extra, DedupFailed, Early
  <2> QED
    BY <1>d, <2>3, <2>4
<1> QED
  BY <1>1, <1>2, <1>3, <1>4, <1>5, <1>6, <1>7, <1>8, <1>9, <1>10, <1>11 DEF Run

LEMMA OthersKeepSettling ==
    ASSUME SettleInv, TypeOK',
           \/ \E j \in Jobs :
               \/ ReadLink(j) \/ ConfirmLink(j) \/ ReceiveMail(j) \/ ResumeHook(j)
               \/ CrashClick(j) \/ Expire(j)
           \/ Scrub
           \/ \E p \in Pollers : Deliver(p) \/ \E j \in Jobs : PollJob(p, j)
    PROVE  Settling' /\ Handed'
<1> USE DEF SettleInv, TypeOK
<1>1. /\ UNCHANGED <<mode, call, paid, row, refunds, lapsed, target, keys, why, tries>>
      /\ \A i \in Jobs : wf'[i] = wf[i] \/ (wf[i] = "wait" /\ wf'[i] = "handle")
  BY DEF ReadLink, ConfirmLink, ReceiveMail, ResumeHook, HookOpen, CrashClick, Expire,
         Scrub, Deliver, PollJob, dispatch, slot, flow, consent
<1>2. CASE UNCHANGED handover
  <2>1. Settling'
    BY <1>1, <1>2
    DEF Settling, Charged, Settles, Own, Deduped, Pointed, Returned, Extra, DedupFailed,
        Tenant, Early, handover
  <2> QED
    BY <1>1, <1>2, <2>1 DEF Handed, Recompleted, handover
<1>3. CASE Scrub \/ \E p \in Pollers : Deliver(p) \/ \E j \in Jobs : PollJob(p, j)
  <2>1. /\ \A i \in Jobs : cred'[i] = "none" <=> cred[i] = "none"
        /\ \A i \in Jobs : delivered'[i] > 0 =>
               delivered[i] > 0 \/ \E p \in Pollers : poll[p] = i
        /\ \A p \in Pollers : poll'[p] \in {None, poll[p]} \/ Deliverable(poll'[p])
    BY <1>3, JobsAssumption DEF Scrub, Stale, Deliver, PollJob, Handed
  <2>2. Settling'
    BY <1>1, <1>3, <2>1
    DEF Settling, Charged, Settles, Own, Deduped, Pointed, Returned, Extra, DedupFailed,
        Tenant, Early
  <2>3. Handed'
    BY <1>1, <2>1, JobsAssumption DEF Handed, Recompleted, Deliverable
  <2> QED
    BY <2>2, <2>3
<1> QED
  BY <1>2, <1>3
  DEF ReadLink, ConfirmLink, ReceiveMail, ResumeHook, CrashClick, Expire

(***************************************************************************)
(* The integrator pays for the signups that hand out a credential and for  *)
(* no others, with the exceptions SlotSettled names: whatever fails,       *)
(* repeats, expires or dies, for any number of jobs and administrators.    *)
(***************************************************************************)
THEOREM Settled == Spec => []SlotSettled
<1>1. Init => Settling /\ Handed
  BY JobsAssumption
  DEF Init, Settling, Charged, Settles, Handed, Early, Own, Deduped, Pointed, Returned
<1>2. SettleInv /\ TypeOK' /\ [Next]_vars => Settling' /\ Handed'
  <2> SUFFICES ASSUME SettleInv, TypeOK', [Next]_vars PROVE Settling' /\ Handed'
    OBVIOUS
  <2>1. CASE UNCHANGED vars
    BY <2>1
    DEF vars, dispatch, slot, flow, consent, handover, SettleInv, Settling, Charged, Settles,
        Own, Deduped, Pointed, Returned, Extra, DedupFailed, Handed, Recompleted, Tenant
  <2>2. CASE Next
    BY <2>2, DispatchKeepsSettling, RunKeepsSettling, OthersKeepSettling DEF Next
  <2> QED
    BY <2>1, <2>2
<1>3. SettleInv => SlotSettled
  <2> DEFINE Paid(j) == j \in paid /\ Over(j) => HandsOut(j) \/ Returned(j)
             Refund(j) == refunds[j] > 0 => /\ ~HandsOut(j)
                                            /\ j \in paid \union Admins
                                            /\ delivered[j] > 0 => Recompleted(j)
             Number(j) == refunds[j] <= 1 + tries[j] + Extra(j)
  <2>0. ASSUME Tenant => \A j \in Jobs : Paid(j) /\ Refund(j) /\ Number(j)
        PROVE  SlotSettled
    BY <2>0 DEF SlotSettled
  <2> SUFFICES ASSUME SettleInv, Tenant, NEW j \in Jobs
               PROVE  Paid(j) /\ Refund(j) /\ Number(j)
    BY <2>0
  <2>1. TypeOK /\ Course(j) /\ Charged(j) /\ Settles(j)
    BY DEF SettleInv, Courses, Settling
  <2>2. Paid(j)
    BY <2>1 DEF Over, Charged, Settles, HandsOut, Own
  <2>3. refunds[j] > 0 => ~HandsOut(j) /\ j \in paid \union Admins
    BY <2>1 DEF Charged, Settles, HandsOut
  <2>4. refunds[j] > 0 /\ delivered[j] > 0 => Recompleted(j)
    BY <2>1 DEF SettleInv, Handed, Settles
  <2>5. Number(j)
    <3>1. refunds[j] \in Nat /\ tries[j] \in Nat /\ Extra(j) \in {0, 1}
      BY <2>1 DEF TypeOK, Extra
    <3>2. CASE wf[j] = "none"
      BY <2>1, <3>1, <3>2 DEF Charged
    <3>3. CASE wf[j] # "none"
      BY <2>1, <3>1, <3>3
      DEF Settles, Own, Deduped, TypeOK, WfPhases, Steps, Early
    <3> QED
      BY <3>2, <3>3
  <2> QED
    BY <2>2, <2>3, <2>4, <2>5
<1> QED
  BY <1>1, <1>2, <1>3, CoursesInvariance, PTL DEF Spec, SettleInv

-----------------------------------------------------------------------------
(***************************************************************************)
(* The hand-over                                                           *)
(***************************************************************************)
Late == {"complete", "fail", "giveback", "done", "dead"}

\* A row is complete, held or delivered only once its run is past the stash,
\* so that no credential is stashed behind a delivery.
PastStash ==
    \A j \in Jobs :
        row[j] = "complete" \/ delivered[j] # 0 \/ Holding(j) # {} => wf[j] \in Late

OnceInv == TypeOK /\ Courses /\ PastStash /\ OncePerPoller

LEMMA Holders ==
    ASSUME IsFiniteSet(Pollers), NEW j
    PROVE  /\ IsFiniteSet(Holding(j)) /\ Cardinality(Holding(j)) \in Nat
           /\ Cardinality(Pollers) \in Nat
           /\ Cardinality(Holding(j)) <= Cardinality(Pollers)
<1>1. Holding(j) \subseteq Pollers
  BY DEF Holding
<1> QED
  BY <1>1, FS_Subset, FS_CardinalityType

\* Whoever does not hand out and stashes nothing behind a delivery.
LEMMA OnceFrame ==
    ASSUME OnceInv, poll' = poll, delivered' = delivered,
           \A i \in Jobs : /\ wf[i] \in Late => wf'[i] \in Late
                           /\ row'[i] = "complete" => row[i] = "complete" \/ wf'[i] \in Late
                           /\ cred'[i] = cred[i] \/ wf[i] \notin Late
                              \/ (cred[i] = "pending" /\ cred'[i] = "scrubbed")
    PROVE  PastStash' /\ OncePerPoller'
<1>1. \A i \in Jobs : Holding(i)' = Holding(i)
  BY DEF Holding
<1> QED
  BY <1>1 DEF OnceInv, PastStash, OncePerPoller, TypeOK

LEMMA RunKeepsOnce ==
    ASSUME OnceInv, NEW j \in Jobs,
           Run(j) \/ Timeout(j) \/ StepThrows(j) \/ FailureFails(j)
    PROVE  PastStash' /\ OncePerPoller'
<1> USE DEF OnceInv, TypeOK, Goes, Returns, FailsWith, handover, Late
<1>1. CASE ProviderSignup(j)
  BY <1>1, OnceFrame DEF ProviderSignup
<1>2. CASE MarkAwaitingEmail(j) \/ CreateHook(j) \/ HandleEmail(j)
  BY <1>2, OnceFrame DEF MarkAwaitingEmail, CreateHook, HandleEmail
<1>3. CASE InsertAccountRecord(j)
  BY <1>3, OnceFrame DEF InsertAccountRecord, InsertOrDedup
<1>4. CASE RefundDedup(j) \/ MintKey(j)
  BY <1>4, OnceFrame DEF RefundDedup, MintKey
<1>5. CASE StashCredential(j)
  BY <1>5, OnceFrame DEF StashCredential
<1>6. CASE CompleteSignupJob(j)
  BY <1>6, OnceFrame DEF CompleteSignupJob
<1>7. CASE FailSignupJob(j) \/ RefundFailed(j)
  BY <1>7, OnceFrame DEF FailSignupJob, FailedRow, RefundFailed
<1>8. CASE Timeout(j) \/ StepThrows(j) \/ FailureFails(j)
  BY <1>8, OnceFrame DEF Timeout, StepThrows, FailureFails
<1> QED
  BY <1>1, <1>2, <1>3, <1>4, <1>5, <1>6, <1>7, <1>8 DEF Run

LEMMA DispatchKeepsOnce ==
    ASSUME OnceInv, NEW j \in Jobs, Look(j) \/ Kick(j) \/ CrashCall(j)
    PROVE  PastStash' /\ OncePerPoller'
<1> USE DEF OnceInv, TypeOK, handover, flow, CallGoes
<1>1. CASE Look(j) \/ CrashCall(j)
  BY <1>1, OnceFrame DEF Look, LookForAccount, JoinInFlight, NoneInFlight, CrashCall
<1>2. CASE CheckUserLimit(j) \/ ClaimQuota(j) \/ UndoClaim(j) \/ UndoCount(j)
  BY <1>2, OnceFrame DEF CheckUserLimit, ClaimQuota, UndoClaim, UndoCount
<1>3. CASE InsertJob(j) \/ StartThrows(j)
  BY <1>3, OnceFrame DEF InsertJob, StartThrows
<1>4. CASE StartWorkflow(j)
  <2>1. wf[j] = "none"
    BY <1>4 DEF StartWorkflow, Courses, Course
  <2> QED
    BY <1>4, <2>1, OnceFrame DEF StartWorkflow, Late
<1> QED
  BY <1>1, <1>2, <1>3, <1>4 DEF Kick

LEMMA ConsentKeepsOnce ==
    ASSUME OnceInv,
           \/ Scrub
           \/ \E j \in Jobs : ReadLink(j) \/ ConfirmLink(j) \/ ReceiveMail(j) \/ ResumeHook(j)
                              \/ CrashClick(j) \/ Expire(j)
    PROVE  PastStash' /\ OncePerPoller'
<1> USE DEF OnceInv, TypeOK, handover, flow
<1>1. CASE Scrub
  BY <1>1, OnceFrame DEF Scrub, Stale
<1>2. ASSUME NEW j \in Jobs, ReadLink(j) \/ ConfirmLink(j) \/ ReceiveMail(j) \/ CrashClick(j) \/ Expire(j)
      PROVE  PastStash' /\ OncePerPoller'
  BY <1>2, OnceFrame DEF ReadLink, ConfirmLink, ReceiveMail, CrashClick, Expire
<1>3. ASSUME NEW j \in Jobs, ResumeHook(j) PROVE PastStash' /\ OncePerPoller'
  BY <1>3, OnceFrame DEF ResumeHook, HookOpen, Late
<1> QED
  BY <1>1, <1>2, <1>3

LEMMA PollKeepsOnce ==
    ASSUME IsFiniteSet(Pollers), OnceInv, NEW p \in Pollers, NEW j \in Jobs, PollJob(p, j)
    PROVE  PastStash' /\ OncePerPoller'
<1> USE DEF OnceInv, TypeOK
<1>1. /\ row[j] = "complete" /\ cred[j] = "pending" /\ poll' = [poll EXCEPT ![p] = j]
      /\ poll[p] = None
      /\ wf' = wf /\ row' = row /\ cred' = cred /\ delivered' = delivered
  BY DEF PollJob, Deliverable, flow
<1>2. \A i \in Jobs \ {j} : Holding(i)' = Holding(i)
  BY <1>1, JobsAssumption DEF Holding
<1>3. delivered[j] = 0 /\ wf[j] \in Late
  BY <1>1 DEF OncePerPoller, PastStash
<1>4. PastStash'
  BY <1>1, <1>2, <1>3 DEF PastStash
<1>5. Cardinality(Holding(j)') <= Cardinality(Pollers) /\ Cardinality(Holding(j)') \in Nat
  <2>1. Holding(j)' \subseteq Pollers
    BY DEF Holding
  <2> QED
    BY <2>1, FS_Subset, FS_CardinalityType
<1>6. OncePerPoller'
  BY <1>1, <1>2, <1>3, <1>5 DEF OncePerPoller
<1> QED
  BY <1>4, <1>6

LEMMA DeliverKeepsOnce ==
    ASSUME IsFiniteSet(Pollers), OnceInv, NEW p \in Pollers, Deliver(p)
    PROVE  PastStash' /\ OncePerPoller'
<1> USE DEF OnceInv, TypeOK
<1>0. PICK j \in Jobs : poll[p] = j
  BY DEF Deliver
<1>1. /\ poll' = [poll EXCEPT ![p] = None] /\ wf' = wf /\ row' = row
      /\ cred' = [cred EXCEPT ![j] = "delivered"]
      /\ delivered' = [delivered EXCEPT ![j] = @ + 1] \/ delivered' = delivered
  BY <1>0 DEF Deliver, flow
<1>2. /\ \A i \in Jobs \ {j} : Holding(i)' = Holding(i)
      /\ p \in Holding(j) /\ Holding(j)' = Holding(j) \ {p}
  <2>1. \A q \in Pollers : poll'[q] = IF q = p THEN None ELSE poll[q]
    BY <1>1
  <2>2. None \notin Jobs
    BY JobsAssumption
  <2> QED
    BY <1>0, <2>1, <2>2 DEF Holding
<1>3. Cardinality(Holding(j)') = Cardinality(Holding(j)) - 1
  BY <1>2, Holders, FS_RemoveElement
<1>4. PastStash'
  BY <1>1, <1>2 DEF PastStash
<1>5. /\ Cardinality(Holding(j)) \in Nat /\ Cardinality(Pollers) \in Nat
      /\ delivered[j] + Cardinality(Holding(j)) <= Cardinality(Pollers)
      /\ delivered[j] \in Nat /\ delivered'[j] \in {delivered[j], delivered[j] + 1}
      /\ cred'[j] = "delivered"
  BY <1>1, Holders DEF OncePerPoller
<1>6. \A i \in Jobs \ {j} : delivered'[i] = delivered[i] /\ cred'[i] = cred[i]
  BY <1>1
<1>7. OncePerPoller'
  <2>1. delivered'[j] + Cardinality(Holding(j)') <= Cardinality(Pollers)
    BY <1>3, <1>5
  <2> QED
    BY <1>2, <1>5, <1>6, <2>1 DEF OncePerPoller
<1> QED
  BY <1>4, <1>7

(***************************************************************************)
(* A delivery ends the deliveries but for the polls that had read the row  *)
(* before it, for any number of polling agents (handoff.ts).               *)
(***************************************************************************)
THEOREM HandedOver == ASSUME IsFiniteSet(Pollers) PROVE Spec => []OncePerPoller
<1>1. Init => PastStash /\ OncePerPoller
  <2> SUFFICES ASSUME Init PROVE PastStash /\ OncePerPoller
    OBVIOUS
  <2>1. \A j \in Jobs : Holding(j) = {}
    BY JobsAssumption DEF Init, Holding
  <2>2. Cardinality({}) = 0 /\ Cardinality(Pollers) >= 0
    BY FS_EmptySet, FS_CardinalityType
  <2> QED
    BY <2>1, <2>2 DEF Init, PastStash, OncePerPoller
<1>2. OnceInv /\ [Next]_vars => PastStash' /\ OncePerPoller'
  <2> SUFFICES ASSUME OnceInv, [Next]_vars PROVE PastStash' /\ OncePerPoller'
    OBVIOUS
  <2>1. CASE UNCHANGED vars
    BY <2>1, OnceFrame DEF vars, flow, handover
  <2>2. CASE Next
    BY <2>2, DispatchKeepsOnce, RunKeepsOnce, ConsentKeepsOnce, PollKeepsOnce, DeliverKeepsOnce
    DEF Next
  <2> QED
    BY <2>1, <2>2
<1> QED
  BY <1>1, <1>2, CoursesInvariance, PTL DEF Spec, OnceInv

=============================================================================
