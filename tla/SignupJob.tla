----------------------------- MODULE SignupJob -----------------------------
(***************************************************************************)
(* Signups of one user for one slot (workspace, provider, alias): the      *)
(* dispatch (intent/resolve.ts, signups/kick.ts), the durable workflow     *)
(* (workflows/signup.ts), the confirmation link or inbound mail that       *)
(* resumes it, and the one-time hand-over of the credential                *)
(* (signups/handoff.ts, routes/cron.ts).                                   *)
(*                                                                         *)
(* The workflow engine runs a step at least once: it may run again after   *)
(* its effect was committed (Repeats), and it may give up (Throws).  Steps *)
(* of several statements are split where the split can be observed.        *)
(***************************************************************************)
EXTENDS Naturals, FiniteSets, Functions

CONSTANTS
    Jobs,       \* signup_jobs ids, one per dispatch
    Intents,    \* the jobs dispatched by POST /v1/intent (it looks first)
    Admins,     \* the jobs of callers whose token has the admin scope
    Pollers,    \* agents of the user that poll GET /v1/signups/:id
    Modes,      \* how the provider may sign up: "direct", "link" or "inbox"
    UserLimit,  \* the user's monthly signup limit
    Throws,     \* steps that may fail for good, and calls whose error the
                \* code swallows: "refund" and "uncount"
    Repeats,    \* steps that may run again after their effect
    MaxTries,   \* bound: repetitions in the workflow of one job
    MaxClicks,  \* bound: requests of one link or mail under way at a time
    Crashes,    \* may an HTTP handler die between two statements?
    None        \* no job

Steps == {"signup", "mark", "handle", "insert", "credit", "mint", "complete",
          "fail"}

ASSUME JobsAssumption ==
    /\ None \notin Jobs
    /\ Intents \subseteq Jobs /\ Admins \subseteq Jobs
ASSUME RulesAssumption ==
    /\ Modes \subseteq {"direct", "link", "inbox"}
    /\ UserLimit \in Nat /\ MaxTries \in Nat /\ MaxClicks \in Nat
    /\ Throws \subseteq Steps \union {"refund", "uncount"}
    /\ Repeats \subseteq Steps
    /\ Crashes \in BOOLEAN

VARIABLES
    mode,       \* the way of this slot's provider, fixed
    call,       \* where the dispatching HTTP call of each job stands
    count,      \* user_signup_counts.count of the month
    paid,       \* jobs whose integrator-quota slot was claimed
    refunds,    \* refundIntegratorQuota calls that gave back a slot of each job
    lapsed,     \* history: jobs with a refund whose error was swallowed
    row,        \* signup_jobs.status
    target,     \* the account a job resolves to: the job that inserted it
    accounts,   \* active accounts of the slot, named by their inserting job
    keys,       \* jobs that inserted an api_keys row for their account
    wf,         \* where the workflow of each job stands
    why,        \* the error a failing workflow reports
    tries,      \* repetitions so far
    link,       \* the signup_confirmations row or the mail of each job
    expired,    \* jobs whose confirmation window has passed
    clicks,     \* requests of each job that read its link unconfirmed
    signal,     \* handlers that are about to call resumeHook for each job
    cred,       \* pending_credentials_enc / credentials_delivered_at
    poll,       \* the job whose stale row a poller holds
    delivered   \* history: plaintext credentials handed out for each job

dispatch == <<call, count, paid>>
flow     == <<wf, why, tries>>
slot     == <<refunds, lapsed>>
consent  == <<mode, link, expired, clicks, signal>>
handover == <<cred, poll, delivered>>
vars == <<dispatch, slot, row, target, accounts, keys, flow, consent,
          handover>>

CallPhases == {"idle", "looked", "clear", "counted", "claimed", "inserted",
               "undo", "uncount", "accepted", "refused", "found", "joined",
               "dead"}
WfPhases   == Steps \union {"none", "hook", "wait", "stash", "giveback",
                            "done", "dead"}
Statuses   == {"none", "pending", "awaiting_email", "complete", "failed"}

Tenant == mode # "inbox"      \* built-in providers have no tenant

InFlight(j) == row[j] \in {"pending", "awaiting_email"}

Init ==
    /\ mode \in Modes
    /\ call = [j \in Jobs |-> "idle"]
    /\ count = 0
    /\ paid = {}
    /\ refunds = [j \in Jobs |-> 0]
    /\ lapsed = {}
    /\ row = [j \in Jobs |-> "none"]
    /\ target = [j \in Jobs |-> None]
    /\ accounts = {}
    /\ keys = {}
    /\ wf = [j \in Jobs |-> "none"]
    /\ why = [j \in Jobs |-> "none"]
    /\ tries = [j \in Jobs |-> 0]
    /\ link = [j \in Jobs |-> "none"]
    /\ expired = {}
    /\ clicks = [j \in Jobs |-> 0]
    /\ signal = [j \in Jobs |-> 0]
    /\ cred = [j \in Jobs |-> "none"]
    /\ poll = [p \in Pollers |-> None]
    /\ delivered = [j \in Jobs |-> 0]

-----------------------------------------------------------------------------
(***************************************************************************)
(* POST /v1/intent and POST /v1/signups                                    *)
(***************************************************************************)
CallGoes(j, phase) == call' = [call EXCEPT ![j] = phase]

\* refundIntegratorQuota, at every call in a try of its own: it gives a slot
\* back, whatever was claimed or given back before, or its error is swallowed.
Refunded(j) ==
    \/ refunds' = [refunds EXCEPT ![j] = @ + 1] /\ lapsed' = lapsed
    \/ "refund" \in Throws /\ lapsed' = lapsed \union {j} /\ refunds' = refunds

\* Dedup check 1 of an intent: SELECT an account of the slot.
LookForAccount(j) ==
    /\ j \in Intents /\ call[j] = "idle"
    /\ CallGoes(j, IF accounts = {} THEN "looked" ELSE "found")
    /\ UNCHANGED <<count, paid, slot, row, target, accounts, keys, flow,
                   consent, handover>>

\* Dedup check 2: SELECT a signup_job of the slot in flight.
JoinInFlight(j) ==
    /\ call[j] = "looked"
    /\ \E i \in Jobs : InFlight(i)
    /\ CallGoes(j, "joined")
    /\ UNCHANGED <<count, paid, slot, row, target, accounts, keys, flow,
                   consent, handover>>

NoneInFlight(j) ==
    /\ call[j] = "looked"
    /\ \A i \in Jobs : ~InFlight(i)
    /\ CallGoes(j, "clear")
    /\ UNCHANGED <<count, paid, slot, row, target, accounts, keys, flow,
                   consent, handover>>

Kicks(j) == call[j] = (IF j \in Intents THEN "clear" ELSE "idle")

\* Mutant: the limit is compared with the count read before the upsert.
OverLimitBefore == count > UserLimit

\* The upsert returns the count after its own increment.
OverLimit == count + 1 > UserLimit

\* checkUserSignupLimit (ABUSE_ENFORCEMENT=enforce); administrators skip it.
CheckUserLimit(j) ==
    /\ Kicks(j)
    /\ \/ /\ j \in Admins
          /\ CallGoes(j, "counted")
          /\ count' = count
       \/ /\ j \notin Admins
          /\ count' = count + 1
          /\ CallGoes(j, IF OverLimit THEN "refused" ELSE "counted")
    /\ UNCHANGED <<paid, slot, row, target, accounts, keys, flow, consent,
                   handover>>

\* The subscription gate and requireIntegratorQuota: a slot or a refusal.
ClaimQuota(j) ==
    /\ call[j] = "counted"
    /\ \/ /\ Tenant /\ j \notin Admins
          /\ \/ CallGoes(j, "claimed") /\ paid' = paid \union {j}
             \/ CallGoes(j, "refused") /\ paid' = paid
       \/ /\ ~Tenant \/ j \in Admins
          /\ CallGoes(j, "claimed") /\ paid' = paid
    /\ UNCHANGED <<count, slot, row, target, accounts, keys, flow, consent,
                   handover>>

InsertJob(j) ==
    /\ call[j] = "claimed"
    /\ CallGoes(j, "inserted")
    /\ row' = [row EXCEPT ![j] = "pending"]
    /\ UNCHANGED <<count, paid, slot, target, accounts, keys, flow, consent,
                   handover>>

StartWorkflow(j) ==
    /\ call[j] = "inserted"
    /\ CallGoes(j, "accepted")
    /\ wf' = [wf EXCEPT ![j] = "signup"]
    /\ UNCHANGED <<count, paid, slot, row, target, accounts, keys, why,
                   tries, consent, handover>>

\* Mutant: start() had enqueued the run when it threw.
StartThrewLate(j) ==
    /\ call[j] = "inserted"
    /\ CallGoes(j, "undo")
    /\ row' = [row EXCEPT ![j] = "failed"]
    /\ wf' = [wf EXCEPT ![j] = "signup"]
    /\ UNCHANGED <<count, paid, slot, target, accounts, keys, why, tries,
                   consent, handover>>

\* start() throws: the row fails, the slot and the count are given back.
StartThrows(j) ==
    /\ call[j] = "inserted"
    /\ CallGoes(j, "undo")
    /\ row' = [row EXCEPT ![j] = "failed"]
    /\ UNCHANGED <<count, paid, slot, target, accounts, keys, flow, consent,
                   handover>>

UndoClaim(j) ==
    /\ call[j] = "undo"
    /\ CallGoes(j, "uncount")
    /\ IF Tenant THEN Refunded(j) ELSE UNCHANGED slot
    /\ UNCHANGED <<count, paid, row, target, accounts, keys, flow, consent,
                   handover>>

\* GREATEST(count - 1, 0).
Uncounted == IF count > 0 THEN count - 1 ELSE 0

\* decrementUserSignupLimit, whoever the caller is; its error is swallowed.
UndoCount(j) ==
    /\ call[j] = "uncount"
    /\ CallGoes(j, "refused")
    /\ count' = Uncounted \/ ("uncount" \in Throws /\ count' = count)
    /\ UNCHANGED <<paid, slot, row, target, accounts, keys, flow, consent,
                   handover>>

CrashCall(j) ==
    /\ Crashes
    /\ call[j] \in {"counted", "claimed", "inserted", "undo", "uncount"}
    /\ CallGoes(j, "dead")
    /\ UNCHANGED <<count, paid, slot, row, target, accounts, keys, flow,
                   consent, handover>>

-----------------------------------------------------------------------------
(***************************************************************************)
(* The workflow                                                            *)
(***************************************************************************)
Goes(j, stage) == wf' = [wf EXCEPT ![j] = stage]

\* A step returns and the workflow goes on, or its result is lost after the
\* effect and the step runs again from its first statement.
Returns(j, step, next) ==
    \/ Goes(j, next) /\ tries' = tries
    \/ /\ step \in Repeats /\ tries[j] < MaxTries
       /\ Goes(j, step)
       /\ tries' = [tries EXCEPT ![j] = @ + 1]

\* The catch block of signupWorkflow reports the error of the step.
FailsWith(j, error) ==
    /\ Goes(j, "fail")
    /\ why' = [why EXCEPT ![j] = error]

\* doProviderSignup.  A tenant that wants the user's consent inserts a
\* confirmation row (UNIQUE signup_job_id: a second run of the step throws on
\* it until the engine gives up) and mails the link before the step returns.
ProviderSignup(j) ==
    /\ wf[j] = "signup"
    /\ \/ /\ mode = "direct"
          /\ Returns(j, "signup", "insert")
          /\ UNCHANGED <<link, why>>
       \/ /\ mode # "direct" /\ link[j] = "none"
          /\ link' = [link EXCEPT ![j] = "sent"]
          /\ Returns(j, "signup", "mark")
          /\ why' = why
       \/ /\ mode = "link" /\ link[j] # "none"
          /\ FailsWith(j, "threw")
          /\ UNCHANGED <<link, tries>>
       \/ /\ mode = "inbox" /\ link[j] # "none"
          /\ Returns(j, "signup", "mark")
          /\ UNCHANGED <<link, why>>
    /\ UNCHANGED <<mode, dispatch, slot, row, target, accounts, keys, expired,
                   clicks, signal, handover>>

MarkAwaitingEmail(j) ==
    /\ wf[j] = "mark"
    /\ row' = [row EXCEPT ![j] = "awaiting_email"]
    /\ Returns(j, "mark", "hook")
    /\ UNCHANGED <<dispatch, slot, target, accounts, keys, why, consent,
                   handover>>

CreateHook(j) ==
    /\ wf[j] = "hook"
    /\ Goes(j, "wait")
    /\ UNCHANGED <<dispatch, slot, row, target, accounts, keys, why, tries,
                   consent, handover>>

\* sleep('15m') wins the race.  The link was written, with the same 15
\* minutes, before the sleep began.
Timeout(j) ==
    /\ wf[j] = "wait" /\ j \in expired
    /\ FailsWith(j, "email_timeout")
    /\ UNCHANGED <<dispatch, slot, row, target, accounts, keys, tries,
                   consent, handover>>

HandleEmail(j) ==
    /\ wf[j] = "handle"
    /\ Returns(j, "handle", "insert")
    /\ UNCHANGED <<dispatch, slot, row, target, accounts, keys, why, consent,
                   handover>>

\* Mutant: no unique index, every workflow inserts its own account.
InsertUnchecked(j) ==
    /\ accounts' = accounts \union {j}
    /\ target' = [target EXCEPT ![j] = j]
    /\ Returns(j, "insert", "mint")

\* INSERT under accounts_workspace_provider_alias_active; on 23505 the
\* existing row is looked up.
InsertOrDedup(j) ==
    \/ /\ accounts = {}
       /\ accounts' = {j}
       /\ target' = [target EXCEPT ![j] = j]
       /\ Returns(j, "insert", "mint")
    \/ \E owner \in accounts :
       /\ accounts' = accounts
       /\ target' = [target EXCEPT ![j] = owner]
       /\ Returns(j, "insert", IF Tenant THEN "credit" ELSE "complete")

InsertAccountRecord(j) ==
    /\ wf[j] = "insert"
    /\ InsertOrDedup(j)
    /\ UNCHANGED <<dispatch, slot, row, keys, why, consent, handover>>

\* The dedup refund, in the body of the workflow: a replay repeats it.
RefundDedup(j) ==
    /\ wf[j] = "credit"
    /\ Refunded(j)
    /\ Returns(j, "credit", "complete")
    /\ UNCHANGED <<dispatch, row, target, accounts, keys, why, consent,
                   handover>>

\* mintAndStashInitialApiKey: the api_keys row ...
MintKey(j) ==
    /\ wf[j] = "mint"
    /\ keys' = keys \union {j}
    /\ Goes(j, "stash")
    /\ UNCHANGED <<dispatch, slot, row, target, accounts, why, tries,
                   consent, handover>>

\* ... and pending_credentials_enc.
StashCredential(j) ==
    /\ wf[j] = "stash"
    /\ \/ /\ cred' = [cred EXCEPT ![j] = "pending"]
          /\ Returns(j, "mint", "complete")
       \/ /\ "mint" \in Repeats /\ tries[j] < MaxTries
          /\ Goes(j, "mint")
          /\ tries' = [tries EXCEPT ![j] = @ + 1]
          /\ cred' = cred
    /\ UNCHANGED <<dispatch, slot, row, target, accounts, keys, why, consent,
                   poll, delivered>>

CompleteSignupJob(j) ==
    /\ wf[j] = "complete"
    /\ row' = [row EXCEPT ![j] = "complete"]
    /\ Returns(j, "complete", "done")
    /\ UNCHANGED <<dispatch, slot, target, accounts, keys, why, consent,
                   handover>>

\* A step gives up: FatalError, or its retries are exhausted.
StepThrows(j) ==
    /\ \/ wf[j] \in Throws \ {"credit", "fail"}   \* credit is no step
       \/ wf[j] = "stash" /\ "mint" \in Throws
    /\ FailsWith(j, "threw")
    /\ UNCHANGED <<dispatch, slot, row, target, accounts, keys, tries,
                   consent, handover>>

\* Mutant: only a job still pending is marked failed.
FailedIfPending(j) ==
    /\ row' = [row EXCEPT ![j] = IF @ = "pending" THEN "failed" ELSE @]
    /\ IF Tenant THEN Goes(j, "giveback") /\ tries' = tries
                 ELSE Returns(j, "fail", "done")

\* Mutant: the refund of failSignupJob is forgotten.
FailedWithoutRefund(j) ==
    /\ row' = [row EXCEPT ![j] = "failed"]
    /\ Returns(j, "fail", "done")

FailedRow(j) ==
    /\ row' = [row EXCEPT ![j] = "failed"]
    /\ IF Tenant THEN Goes(j, "giveback") /\ tries' = tries
                 ELSE Returns(j, "fail", "done")

\* failSignupJob: the row ...
FailSignupJob(j) ==
    /\ wf[j] = "fail"
    /\ FailedRow(j)
    /\ UNCHANGED <<dispatch, slot, target, accounts, keys, why, consent,
                   handover>>

\* ... and the refund.
RefundFailed(j) ==
    /\ wf[j] = "giveback"
    /\ Refunded(j)
    /\ Returns(j, "fail", "done")
    /\ UNCHANGED <<dispatch, row, target, accounts, keys, why, consent,
                   handover>>

\* failSignupJob itself gives up: after a timeout, inside the try, the catch
\* calls it again; in the catch the run is over.
FailureFails(j) ==
    /\ wf[j] = "fail" /\ "fail" \in Throws
    /\ \/ why[j] = "email_timeout" /\ FailsWith(j, "threw")
       \/ why[j] # "email_timeout" /\ Goes(j, "dead") /\ why' = why
    /\ UNCHANGED <<dispatch, slot, row, target, accounts, keys, tries, consent,
                   handover>>

-----------------------------------------------------------------------------
(***************************************************************************)
(* The user's consent: GET /v1/signups/:id/confirm/:token, the inbound     *)
(* mail webhook, and the clock                                             *)
(***************************************************************************)

Arrived(j) == signal' = [signal EXCEPT ![j] = @ + 1]
Handled(j) == signal' = [signal EXCEPT ![j] = @ - 1]

\* A click: SELECT the row; a confirmed or expired one is answered at once.
ReadLink(j) ==
    /\ mode = "link" /\ link[j] = "sent" /\ j \notin expired
    /\ SumFunction(clicks) + SumFunction(signal) < MaxClicks
    /\ clicks' = [clicks EXCEPT ![j] = @ + 1]
    /\ UNCHANGED <<mode, dispatch, slot, row, target, accounts, keys, flow, link,
                   expired, signal, handover>>

\* UPDATE confirmed_at, on the strength of the row that was read; the handler
\* goes on to signal the workflow.
ConfirmLink(j) ==
    /\ clicks[j] > 0
    /\ clicks' = [clicks EXCEPT ![j] = @ - 1]
    /\ link' = [link EXCEPT ![j] = "confirmed"]
    /\ Arrived(j)
    /\ UNCHANGED <<mode, dispatch, slot, row, target, accounts, keys, flow,
                   expired, handover>>

\* A mail to signup-<id>@ is stored; only an awaiting job is signalled.
ReceiveMail(j) ==
    /\ mode = "inbox" /\ link[j] = "sent"
    /\ link' = [link EXCEPT ![j] = "confirmed"]
    /\ IF row[j] = "awaiting_email" THEN Arrived(j) ELSE signal' = signal
    /\ UNCHANGED <<mode, dispatch, slot, row, target, accounts, keys, flow,
                   expired, clicks, handover>>

\* Mutant: the hook outlives the race it was made for.
ResumedLate(j) == wf[j] \in {"wait", "done"}

\* The hook is there from createHook to its dispose().
HookOpen(j) == wf[j] = "wait"

\* resumeHook: without an open hook it throws, and the error is swallowed.
ResumeHook(j) ==
    /\ signal[j] > 0
    /\ Handled(j)
    /\ wf' = [wf EXCEPT ![j] = IF HookOpen(j) THEN "handle" ELSE @]
    /\ UNCHANGED <<mode, dispatch, slot, row, target, accounts, keys, why, tries,
                   link, expired, clicks, handover>>

CrashClick(j) ==
    /\ Crashes
    /\ \/ /\ clicks[j] > 0
          /\ clicks' = [clicks EXCEPT ![j] = @ - 1]
          /\ signal' = signal
       \/ /\ signal[j] > 0
          /\ Handled(j)
          /\ clicks' = clicks
    /\ UNCHANGED <<mode, dispatch, slot, row, target, accounts, keys, flow, link,
                   expired, handover>>

\* Fifteen minutes pass.
Expire(j) ==
    /\ link[j] # "none" /\ j \notin expired
    /\ expired' = expired \union {j}
    /\ UNCHANGED <<mode, dispatch, slot, row, target, accounts, keys, flow, link,
                   clicks, signal, handover>>

-----------------------------------------------------------------------------
(***************************************************************************)
(* deliverSignupCredentialsOnce and the 24-hour scrub                      *)
(***************************************************************************)

\* Mutant: only the presence of a credential is checked.
DeliverableAgain(j) == row[j] = "complete" /\ cred[j] # "none"

Deliverable(j) == row[j] = "complete" /\ cred[j] = "pending"

\* SELECT the job: the checks run on this snapshot.
PollJob(p, j) ==
    /\ poll[p] = None
    /\ Deliverable(j)
    /\ poll' = [poll EXCEPT ![p] = j]
    /\ UNCHANGED <<dispatch, slot, row, target, accounts, keys, flow,
                   consent, cred, delivered>>

\* UPDATE ... WHERE id = job.id, and the plaintext goes to the caller, unless
\* the handler dies first.
Deliver(p) ==
    /\ poll[p] # None
    /\ cred' = [cred EXCEPT ![poll[p]] = "delivered"]
    /\ poll' = [poll EXCEPT ![p] = None]
    /\ \/ delivered' = [delivered EXCEPT ![poll[p]] = @ + 1]
       \/ Crashes /\ delivered' = delivered
    /\ UNCHANGED <<dispatch, slot, row, target, accounts, keys, flow,
                   consent>>

\* Mutant: only completed jobs are scrubbed.
StaleComplete(j) ==
    wf[j] \in {"done", "dead"} /\ cred[j] = "pending" /\ row[j] = "complete"

\* updated_at is a day old: the run has ended.
Stale(j) == wf[j] \in {"done", "dead"} /\ cred[j] = "pending"

Scrub ==
    /\ \E j \in Jobs : Stale(j)
    /\ cred' = [j \in Jobs |-> IF Stale(j) THEN "scrubbed" ELSE cred[j]]
    /\ UNCHANGED <<dispatch, slot, row, target, accounts, keys, flow,
                   consent, poll, delivered>>

-----------------------------------------------------------------------------
Look(j) == LookForAccount(j) \/ JoinInFlight(j) \/ NoneInFlight(j)

Kick(j) ==
    \/ CheckUserLimit(j) \/ ClaimQuota(j) \/ InsertJob(j) \/ StartWorkflow(j)
    \/ StartThrows(j) \/ UndoClaim(j) \/ UndoCount(j)

Run(j) ==
    \/ ProviderSignup(j) \/ MarkAwaitingEmail(j) \/ CreateHook(j)
    \/ HandleEmail(j) \/ InsertAccountRecord(j) \/ RefundDedup(j)
    \/ MintKey(j) \/ StashCredential(j) \/ CompleteSignupJob(j)
    \/ FailSignupJob(j) \/ RefundFailed(j)

Next ==
    \/ \E j \in Jobs :
        \/ Look(j) \/ Kick(j) \/ CrashCall(j)
        \/ Run(j) \/ Timeout(j) \/ StepThrows(j) \/ FailureFails(j)
        \/ ReadLink(j) \/ ConfirmLink(j) \/ ReceiveMail(j) \/ ResumeHook(j)
        \/ CrashClick(j) \/ Expire(j)
        \/ \E p \in Pollers : PollJob(p, j)
    \/ \E p \in Pollers : Deliver(p)
    \/ Scrub

Spec == Init /\ [][Next]_vars

(***************************************************************************)
(* The engine resumes every run and its timers, time passes, and the       *)
(* collector is scheduled every night (vercel.ts).  Nobody has to call the *)
(* API, to click a link or to poll.                                        *)
(***************************************************************************)
Fairness ==
    /\ \A j \in Jobs : WF_vars(Run(j) \/ Timeout(j)) /\ WF_vars(Expire(j))
    /\ WF_vars(Scrub)

FairSpec == Spec /\ Fairness

-----------------------------------------------------------------------------
TypeOK ==
    /\ mode \in Modes
    /\ call \in [Jobs -> CallPhases]
    /\ count \in Nat
    /\ paid \subseteq Jobs
    /\ refunds \in [Jobs -> Nat]
    /\ lapsed \subseteq Jobs
    /\ row \in [Jobs -> Statuses]
    /\ target \in [Jobs -> Jobs \union {None}]
    /\ accounts \subseteq Jobs
    /\ keys \subseteq Jobs
    /\ wf \in [Jobs -> WfPhases]
    /\ why \in [Jobs -> {"none", "threw", "email_timeout"}]
    /\ tries \in [Jobs -> Nat]
    /\ link \in [Jobs -> {"none", "sent", "confirmed"}]
    /\ expired \subseteq Jobs
    /\ clicks \in [Jobs -> Nat]
    /\ signal \in [Jobs -> Nat]
    /\ cred \in [Jobs -> {"none", "pending", "delivered", "scrubbed"}]
    /\ poll \in [Pollers -> Jobs \union {None}]
    /\ delivered \in [Jobs -> Nat]

(***************************************************************************)
(* Concurrent signups of one slot converge: whatever the two dedup checks  *)
(* of an intent missed, all jobs that complete name one and the same       *)
(* account, and it exists (intent.ts: the loser completes "pointing to the *)
(* dedup winner's account").                                               *)
(***************************************************************************)
CompletedJobsAgree ==
    \A i, j \in Jobs :
        row[i] = "complete" /\ row[j] = "complete" =>
            target[i] = target[j] /\ target[i] \in accounts

(***************************************************************************)
(* The integrator pays for the signups that hand out a credential and for  *)
(* no others, but for the failures named here.                             *)
(*  - A slot that was claimed by a signup that ended without a credential  *)
(*    is given back, unless the error of a refund was swallowed (nothing   *)
(*    is given back behind a handler that died or a failSignupJob that     *)
(*    gave up); whoever completes with a credential of its own keeps it.   *)
(*  - A slot nobody claimed is given back only for an administrator, who   *)
(*    is never charged but is refunded like anybody else.                  *)
(*  - A credential that was delivered and yet refunded is that of a job    *)
(*    whose completion was committed, ran again and gave up.               *)
(*  - A slot is given back once, and once more for every step that ran     *)
(*    again and for a dedup whose completion failed after its refund (a    *)
(*    second refund finds no claim left and adds an included slot).        *)
(***************************************************************************)
HandsOut(j) == row[j] = "complete" /\ target[j] = j /\ cred[j] # "none"

Over(j) == wf[j] = "done" \/ call[j] = "refused"

\* The completing step was repeated and gave up, though it had committed.
Recompleted(j) == row[j] = "failed" /\ "complete" \in Repeats /\ tries[j] > 0

\* Pointed to an account without a key of its own, and then failed.
DedupFailed(j) == target[j] # None /\ j \notin keys /\ why[j] = "threw"
Extra(j) == IF DedupFailed(j) THEN 1 ELSE 0

Returned(j) == refunds[j] > 0 \/ j \in lapsed

SlotSettled ==
    Tenant => \A j \in Jobs :
        /\ j \in paid /\ Over(j) => HandsOut(j) \/ Returned(j)
        /\ refunds[j] > 0 => /\ ~HandsOut(j)
                             /\ j \in paid \union Admins
                             /\ delivered[j] > 0 => Recompleted(j)
        /\ refunds[j] <= 1 + tries[j] + Extra(j)

(***************************************************************************)
(* An ended job stays ended: a poller that read "failed" never reads       *)
(* another status later, and one that read "complete" reads another only   *)
(* if the completion, though committed, ran again and gave up, so that the *)
(* catch block failed the job.  Once the run is over nothing changes.      *)
(***************************************************************************)
Uncompletes(j) == wf[j] = "fail" /\ row[j] = "complete" /\ Recompleted(j)'

EndedStaysEnded ==
    [][\A j \in Jobs :
        row[j] \in {"complete", "failed"} => row'[j] = row[j] \/ Uncompletes(j)]_vars

(***************************************************************************)
(* The promise of signup-limit.ts: checkUserSignupLimit "enforces a hard   *)
(* per-month ceiling" that two concurrent dispatches "can't race past".    *)
(* The ceiling has one hole: administrators skip the check, yet the undo   *)
(* of their failed starts takes a count that somebody else was given.  So  *)
(* each of those admits at most one signup beyond the limit.               *)
(***************************************************************************)
\* An administrator is refused only by a start that failed and was undone.
AdminUndone == {j \in Admins : call[j] = "refused"}

CeilingHolds ==
    Cardinality({j \in Jobs \ Admins : call[j] = "accepted"}) <=
        UserLimit + Cardinality(AdminUndone)

(***************************************************************************)
(* An account is provisioned only for a job that is still in flight: a     *)
(* caller that was told "failed" (the start threw, the mail timed out) may *)
(* sign up again, and no late click or run makes an account behind it.     *)
(***************************************************************************)
ProvisionInFlight ==
    [][\A j \in Jobs : j \in accounts' \ accounts => InFlight(j)]_vars


(***************************************************************************)
(* The promise of handoff.ts and schema.ts, one delivery of a credential,  *)
(* as far as the code keeps it: a delivery ends the deliveries, but for    *)
(* the polls that had read the row before it.  So nobody gets it twice,    *)
(* and one agent that polls alone gets it once.                            *)
(***************************************************************************)
Holding(j) == {p \in Pollers : poll[p] = j}
OncePerPoller ==
    \A j \in Jobs :
        /\ delivered[j] + Cardinality(Holding(j)) <= Cardinality(Pollers)
        /\ delivered[j] > 0 => cred[j] \in {"delivered", "scrubbed"}

(***************************************************************************)
(* Every dispatched run ends, whatever its provider, its user and the      *)
(* repetitions do: the job leaves the table of jobs in flight, so that the *)
(* slot opens for the next intent.  Only a run whose catch block could not *)
(* write the failure either leaves its job there.                          *)
(***************************************************************************)
RunEnds == \A j \in Jobs : wf[j] = "signup" ~> ~InFlight(j) \/ wf[j] = "dead"

(***************************************************************************)
(* Zero retention: a stashed credential leaves the database even if nobody *)
(* ever polls, and even if the job failed after it was stashed.            *)
(***************************************************************************)
CredentialLeaves == \A j \in Jobs : cred[j] = "pending" ~> cred[j] # "pending"

=============================================================================
