-------------------------- MODULE ActionExecution --------------------------
(***************************************************************************)
(* POST /v1/actions/execute and the reconcile of an invocation whose       *)
(* outcome is unknown: one action of one tenant, the requests of its       *)
(* users, the ledger of invocations, the quota of the tenant's month and   *)
(* the circuit breaker of one server process.  Every statement of a        *)
(* request is a step; a request may die between two of them.               *)
(***************************************************************************)
EXTENDS Integers, FiniteSets

CONSTANTS Calls,       \* the requests; an invocation has the name of its request
          Users, Keys, \* who sends them, and the idempotency keys
          Desks,       \* the requests of the integrator that reconcile
          None,
          Asks,        \* bound: what each request may ask, [user, key, named]
          Included,    \* actions_included
          UsedBefore,  \* bound: actions_used_period at the start
          MinSamples, Window, OpenFor,  \* the breaker, in ticks of the clock
          CacheFor,    \* TENANT_TTL_MS in ticks
          Day,         \* the 24 hours of a key in ticks
          Mortal,      \* bound: the requests that may die
          MaxEvents    \* bound: ticks, ends of a billing period and of the subscription

ASSUME AsksAssumption ==
    Asks \in [Calls -> SUBSET [user : Users, key : Keys \cup {None}, named : {"none", "own", "other"}]]
ASSUME NumbersAssumption ==
    /\ Included \in Nat \cup {-1} /\ UsedBefore \in Nat
    /\ MinSamples \in Nat \ {0} /\ Window \in Nat /\ OpenFor \in Nat \ {0}
    /\ CacheFor \in Nat /\ Day \in Nat /\ MaxEvents \in Nat

VARIABLES identity,   \* the external id of each user, named by the request that bound it
          rows,       \* action_invocations
          used,       \* actions_used_period
          due,        \* period_resets_at has passed
          periods,    \* how often it has
          metered,    \* BILLING_ENFORCEMENT is not off
          active,     \* the tenant's subscription
          cache,      \* what the process remembers of it
          bucket,     \* the breaker of the action
          now,        \* the clock
          call, desk

vars == <<identity, rows, used, due, periods, metered, active, cache, bucket, now, call, desk>>
ledger  == <<identity, rows>>
billing == <<used, due, metered, active, cache>>
world   == <<bucket, now, periods, desk>>

Statuses == {"dispatched", "quota_denied", "succeeded", "overage", "failed", "unknown"}
Results  == {"ok", "timeout", "error"}
Steps    == {"idle", "bind", "check", "lookup", "gate", "claim", "deny", "insert", "post",
             "settle", "record"}
\* The answers: 500, 403, 502 of the breaker, 503, 429, and what the integrator said.
Answers  == {"died", "threw", "refused", "degraded", "inactive", "denied"} \cup Results

Rows == [ext : Calls, key : Keys \cup {None}, status : Statuses, at : Nat]
CallStates == [pc : Steps \cup Answers, user : Users \cup {None}, key : Keys \cup {None},
               ext : Calls \cup {None}, over : BOOLEAN, claimed : BOOLEAN,
               res : Results \cup {None}, at : Nat]
\* A request ends once, so the window is a set.
Outcomes == [by : Calls, t : Nat, ok : BOOLEAN]

ASSUME NoneAssumption == None \notin Calls \cup Keys \cup Results \cup Rows

TypeOK ==
    /\ identity \in [Users -> Calls \cup {None}]
    /\ rows \in [Calls -> Rows \cup {None}]
    /\ used \in Nat /\ periods \in Nat /\ now \in Nat
    /\ due \in BOOLEAN /\ metered \in BOOLEAN /\ active \in BOOLEAN
    /\ cache \in [at : Nat, active : BOOLEAN] \cup {None}
    /\ bucket \in [events : SUBSET Outcomes, openedUntil : Nat]
    /\ call \in [Calls -> CallStates]
    /\ desk \in [Desks -> [pc : {"idle", "read", "done"}, row : Calls \cup {None},
                           outcome : {"succeeded", "failed"}]]

Init ==
    /\ identity = [u \in Users |-> None]
    /\ rows = [c \in Calls |-> None]
    /\ used = UsedBefore /\ due = FALSE /\ periods = 0
    /\ metered \in BOOLEAN /\ active = TRUE /\ cache = None
    /\ bucket = [events |-> {}, openedUntil |-> 0]
    /\ now = 0
    /\ call = [c \in Calls |-> [pc |-> "idle", user |-> None, key |-> None, ext |-> None,
                                over |-> FALSE, claimed |-> FALSE, res |-> None, at |-> 0]]
    /\ desk = [d \in Desks |-> [pc |-> "idle", row |-> None, outcome |-> "failed"]]

-----------------------------------------------------------------------------
(* Who calls.                                                              *)

\* Tenant and action are there; the identity of the user is read.
Arrive(c) ==
    /\ call[c].pc = "idle"
    /\ \E a \in Asks[c] :
         LET ext == identity[a.user]
             to(pc) == [call[c] EXCEPT !.pc = pc, !.user = a.user, !.key = a.key, !.ext = ext]
         IN  call' = [call EXCEPT ![c] =
               IF a.named = "other" \/ (a.named = "own" /\ ext = None) THEN to("refused")
               ELSE IF ext = None THEN to("bind") ELSE to("check")]
    /\ UNCHANGED <<ledger, billing, world>>

\* Mutant: no unique index on (user_id, tenant_id).
BindAgain(c) ==
    /\ call[c].pc = "bind"
    /\ identity' = [identity EXCEPT ![call[c].user] = c]
    /\ call' = [call EXCEPT ![c].pc = "check", ![c].ext = c]
    /\ UNCHANGED <<rows, billing, world>>

BindIdentity(c) ==
    /\ call[c].pc = "bind"
    /\ IF identity[call[c].user] = None
       THEN /\ identity' = [identity EXCEPT ![call[c].user] = c]
            /\ call' = [call EXCEPT ![c].pc = "check", ![c].ext = c]
       ELSE /\ call' = [call EXCEPT ![c].pc = "threw"]
            /\ UNCHANGED identity
    /\ UNCHANGED <<rows, billing, world>>

-----------------------------------------------------------------------------
(* The breaker.                                                            *)

\* Mutant: outcomes never leave the window.
KeepAll(es, t) == es

PruneOld(es, t) == {e \in es : e.t >= t - Window}

ShouldBreak(t) == bucket.openedUntil > t

RecordOutcome(b, c, t, ok) ==
    LET es == PruneOld(b.events, t) \cup {[by |-> c, t |-> t, ok |-> ok]}
        failures == Cardinality({e \in es : ~e.ok})
        opens == /\ Cardinality(es) >= MinSamples /\ b.openedUntil <= t
                 /\ 2 * failures >= Cardinality(es)
    IN  [events |-> es, openedUntil |-> IF opens THEN t + OpenFor ELSE b.openedUntil]

CheckBreaker(c) ==
    /\ call[c].pc = "check"
    /\ call' = [call EXCEPT ![c].pc = IF ShouldBreak(now) THEN "degraded" ELSE "lookup"]
    /\ UNCHANGED <<ledger, billing, world>>

-----------------------------------------------------------------------------
(* The ledger of invocations.                                              *)

\* action_invocations_idem_key: the row of the key of request c.
Earlier(c) == {r \in Calls : /\ call[c].key # None /\ rows[r] # None
                             /\ rows[r].key = call[c].key /\ rows[r].ext = call[c].ext}

\* Mutant: whatever is finished is replayed as a success.
ReplaysDone(status) == IF status \in {"dispatched", "quota_denied"} THEN None ELSE "ok"

\* The answer that a row replays.
Replays(status) ==
    CASE status \in {"succeeded", "overage"} -> "ok"
      [] status = "failed"                   -> "error"
      [] status = "unknown"                  -> "timeout"
      [] OTHER                               -> None

LookUp(c) ==
    /\ call[c].pc = "lookup"
    /\ LET young == {r \in Earlier(c) : now - rows[r].at < Day /\ Replays(rows[r].status) # None}
       IN  IF young = {}
           THEN call' = [call EXCEPT ![c].pc = IF metered THEN "gate" ELSE "insert"]
           ELSE \E r \in young : call' = [call EXCEPT ![c].pc = Replays(rows[r].status)]
    /\ UNCHANGED <<ledger, billing, world>>

-----------------------------------------------------------------------------
(* The subscription and the quota of the tenant.                           *)

Fresh == cache # None /\ now - cache.at < CacheFor

Gate(c) ==
    /\ call[c].pc = "gate"
    /\ cache' = IF Fresh THEN cache ELSE [at |-> now, active |-> active]
    /\ call' = [call EXCEPT ![c].pc = IF cache'.active THEN "claim" ELSE "inactive"]
    /\ UNCHANGED <<ledger, used, due, metered, active, world>>

Claim(c) ==
    /\ call[c].pc = "claim"
    /\ LET n == IF due THEN 1 ELSE used + 1
       IN  IF active /\ (Included = -1 \/ 10 * n <= 11 * Included)
           THEN /\ used' = n /\ due' = FALSE
                /\ call' = [call EXCEPT ![c].pc = "insert", ![c].claimed = TRUE,
                                        ![c].over = Included # -1 /\ n > Included]
           ELSE /\ call' = [call EXCEPT ![c].pc = "deny"]
                /\ UNCHANGED <<used, due>>
    /\ UNCHANGED <<ledger, metered, active, cache, world>>

\* A row of the ledger, unless the key has one.
Insert(c, status, pc) ==
    /\ IF Earlier(c) = {}
       THEN /\ rows' = [rows EXCEPT ![c] =
                          [ext |-> call[c].ext, key |-> call[c].key, status |-> status, at |-> now]]
            /\ call' = [call EXCEPT ![c].pc = pc]
       ELSE /\ call' = [call EXCEPT ![c].pc = "threw"]
            /\ UNCHANGED rows
    /\ UNCHANGED <<identity, billing, world>>

\* Mutant: the breaker is asked after the claim.
InsertUnlessOpen(c) ==
    /\ call[c].pc = "insert"
    /\ IF ShouldBreak(now)
       THEN /\ call' = [call EXCEPT ![c].pc = "degraded"]
            /\ UNCHANGED <<ledger, billing, world>>
       ELSE Insert(c, "dispatched", "post")

InsertDenied(c)   == call[c].pc = "deny" /\ Insert(c, "quota_denied", "denied")
InsertDispatch(c) == call[c].pc = "insert" /\ Insert(c, "dispatched", "post")

-----------------------------------------------------------------------------
(* The call to the integrator and its outcome.                             *)

HmacPost(c) ==
    /\ call[c].pc = "post"
    /\ \E res \in Results : call' = [call EXCEPT ![c].pc = "settle", ![c].res = res]
    /\ UNCHANGED <<ledger, billing, world>>

FinalStatus(c) ==
    CASE call[c].res = "ok"      -> IF call[c].over THEN "overage" ELSE "succeeded"
      [] call[c].res = "timeout" -> "unknown"
      [] call[c].res = "error"   -> "failed"

Settle(c) ==
    /\ call[c].pc = "settle"
    /\ rows' = [rows EXCEPT ![c].status = FinalStatus(c)]
    /\ call' = [call EXCEPT ![c].pc = "record"]
    /\ UNCHANGED <<identity, billing, world>>

Record(c) ==
    /\ call[c].pc = "record"
    /\ bucket' = RecordOutcome(bucket, c, now, call[c].res = "ok")
    /\ call' = [call EXCEPT ![c].pc = call[c].res, ![c].at = now]
    /\ UNCHANGED <<ledger, billing, now, periods, desk>>

\* A statement throws or the process goes away.
Die(c) ==
    /\ c \in Mortal /\ call[c].pc \in Steps \ {"idle"}
    /\ call' = [call EXCEPT ![c].pc = "died"]
    /\ UNCHANGED <<ledger, billing, world>>

-----------------------------------------------------------------------------
(* The reconcile of the integrator.                                        *)

\* Mutant: any finished invocation can be reconciled.
Finished(r) == rows[r] # None /\ rows[r].status \notin {"dispatched", "quota_denied"}

Unknown(r) == rows[r] # None /\ rows[r].status = "unknown"

ReadUnknown(d) ==
    /\ desk[d].pc = "idle"
    /\ \E r \in Calls, o \in {"succeeded", "failed"} :
         /\ Unknown(r)
         /\ desk' = [desk EXCEPT ![d] = [pc |-> "read", row |-> r, outcome |-> o]]
    /\ UNCHANGED <<ledger, billing, bucket, now, periods, call>>

Reconcile(d) ==
    /\ desk[d].pc = "read"
    /\ rows' = [rows EXCEPT ![desk[d].row].status = desk[d].outcome]
    /\ desk' = [desk EXCEPT ![d].pc = "done"]
    /\ UNCHANGED <<identity, billing, bucket, now, periods, call>>

-----------------------------------------------------------------------------
(* Time, and the payment provider.                                         *)

Events == now + periods + (IF active THEN 0 ELSE 1)

Tick ==
    /\ Events < MaxEvents /\ now' = now + 1
    /\ UNCHANGED <<ledger, billing, bucket, periods, call, desk>>

PeriodEnds ==
    /\ Events < MaxEvents /\ ~due
    /\ periods' = periods + 1 /\ due' = TRUE
    /\ UNCHANGED <<ledger, used, metered, active, cache, bucket, now, call, desk>>

Lapse ==
    /\ Events < MaxEvents /\ active /\ active' = FALSE
    /\ UNCHANGED <<ledger, used, due, metered, cache, world, call>>

Proceed(c) ==
    \/ BindIdentity(c) \/ CheckBreaker(c) \/ LookUp(c) \/ Gate(c) \/ Claim(c)
    \/ InsertDenied(c) \/ InsertDispatch(c) \/ HmacPost(c) \/ Settle(c) \/ Record(c)

Next ==
    \/ \E c \in Calls : Arrive(c) \/ Proceed(c) \/ Die(c)
    \/ \E d \in Desks : ReadUnknown(d) \/ Reconcile(d)
    \/ Tick \/ PeriodEnds \/ Lapse

Spec == Init /\ [][Next]_vars

-----------------------------------------------------------------------------
(***************************************************************************)
(* Properties                                                              *)
(***************************************************************************)

\* Request c has reached the integrator, or is about to.
Sent(c) == rows[c] # None /\ rows[c].status # "quota_denied"

Same(c, d) == call[c].key # None /\ call[c].key = call[d].key /\ call[c].user = call[d].user

\* actions.ts header, step 6: no two requests of one user with one key are
\* both dispatched, whatever happened to the first: they ran side by side,
\* raced for the identity, died, were denied, timed out or are a day old.
OneDispatchPerKey == \A c, d \in Calls : Same(c, d) /\ Sent(c) /\ Sent(d) => c = d

\* A repeated request never contradicts the first: two answers of one key
\* differ in the outcome only if the invocation timed out at first.
RepeatsAgree ==
    \A c, d \in Calls :
        Same(c, d) /\ call[c].pc = "ok" /\ call[d].pc = "error" =>
            \E r \in Calls : Same(c, r) /\ call[r].res = "timeout"

\* A slot of the quota without an invocation was claimed by a request that
\* died, or by one that repeats a key the ledger had: a first request, and
\* one without a key, never pay for nothing.  An invocation past the included
\* volume says so, unless a reconcile made a success of its timeout.
SlotHasInvocation ==
    \A c \in Calls : call[c].claimed =>
        \/ /\ rows[c] # None
           /\ rows[c].status = "succeeded" /\ call[c].over => call[c].res = "timeout"
        \/ /\ rows[c] = None
           /\ \/ call[c].pc \in {"insert", "died"}
              \/ call[c].pc = "threw" /\ \E d \in Calls \ {c} : Same(c, d) /\ rows[d] # None

\* The outcome that the integrator's own answer decided is never rewritten,
\* and an invocation is never forgotten.
OutcomeStays ==
    [][\A c \in Calls : Sent(c) /\ rows[c].status # "dispatched" /\ call[c].res # "timeout" =>
           rows'[c] = rows[c]]_vars

\* breaker.ts header: the breaker opens only on failures of the last window,
\* enough of them to be half of the smallest sample.
OpenForCause ==
    bucket.openedUntil > 0 =>
        LET opened == bucket.openedUntil - OpenFor
            failed == {c \in Calls : /\ call[c].pc \in {"timeout", "error"} /\ call[c].res # None
                                     /\ call[c].at \in opened - Window .. opened}
        IN  2 * Cardinality(failed) >= MinSamples

=============================================================================
