---------------------------- MODULE QuotaLedger ----------------------------
(***************************************************************************)
(* The integrator quota ladder of apps/web/src/server/billing/quota.ts for *)
(* one tenant: requireIntegratorQuota claims a slot from the plan pool,    *)
(* then from the prepaid credit packs, then from the overage queue, and    *)
(* refundIntegratorQuota reverses a claim.  One action per SQL statement:  *)
(* the statements of one call are separate transactions, so the calls of   *)
(* different keys interleave between them and a process can die there.     *)
(*                                                                         *)
(* The callers are kept small: every idempotency key is claimed by one     *)
(* call at most (kick.ts, charge-action.ts and the MCP server all mint a   *)
(* fresh uuid), while refunds of one key may be repeated (the signup       *)
(* workflow refunds inside retried steps) and may come for a key that was  *)
(* never claimed (an administrator's signup skips the claim).              *)
(***************************************************************************)
EXTENDS Integers, FiniteSets

CONSTANTS
    Keys,             \* idempotency keys
    NumPacks,         \* credit packs, numbered in the order of expires_at
    PackSize,         \* actions_purchased of each pack
    PlanIncluded,     \* included_actions of the tenant's plan
    OveragePolicies,  \* answers of the catalog: is overage_price_cents > 0?
    AdminBypass,      \* callers may skip the claim and still refund
    MaxRefunds,       \* bound: refund calls per key
    MaxResets,        \* bound: billing periods begun during the run
    Crashes           \* calls ("claim", "refund") whose process may die inside

Packs  == 1 .. NumPacks
NoPack == 0

ASSUME PacksAssumption ==
    NumPacks \in Nat /\ PackSize \in [Packs -> Nat]
ASSUME PlanAssumption ==
    /\ PlanIncluded \in Nat
    /\ OveragePolicies \subseteq BOOLEAN
    /\ AdminBypass \in BOOLEAN
    /\ MaxRefunds \in Nat
    /\ MaxResets \in Nat
    /\ Crashes \subseteq {"claim", "refund"}

VARIABLES
    quota,         \* the tenant_quota_state row (exists = FALSE: no row)
    remaining,     \* action_credits.actions_remaining of each pack
    expired,       \* packs past their expires_at
    consumption,   \* action_credit_consumptions: key -> pack
    pending,       \* keys with a usage_pending_invoice_items row
    claim,         \* where the claim call of each key stands
    pick,          \* the pack a claim has locked or debited
    source,        \* QuotaClaim.source of a returned claim
    refund,        \* where the refund call of each key stands
    refunds,       \* refund calls begun for each key
    back,          \* history: how often a refund of the key gave a slot back
    resets         \* periods begun

ledger  == <<quota, remaining, expired, consumption, pending>>
calls   == <<claim, pick, source, refund, refunds>>
vars    == <<ledger, calls, back, resets>>

ClaimPhases  == {"idle", "credits", "debit", "record", "overage", "bump",
                 "held", "denied", "lost", "skipped"}
RefundPhases == {"none", "dec", "restore", "plan"}
Sources      == {"none", "plan", "credits", "overage"}

(***************************************************************************)
(* A row lock lasts for one UPDATE statement: from the FOR UPDATE SKIP     *)
(* LOCKED of its sub-select to its commit.                                 *)
(***************************************************************************)
Locked(p) == \E k \in Keys : claim[k] = "debit" /\ pick[k] = p

Spendable(p) == remaining[p] > 0 /\ p \notin expired

\* Mutant: FOR UPDATE taken after the row was chosen, not while choosing it.
NextPackMaybeLocked(p) ==
    Spendable(p) /\ \A q \in 1 .. (p - 1) : ~Spendable(q)

\* ORDER BY expires_at ASC LIMIT 1 FOR UPDATE SKIP LOCKED.
IsNextPack(p) ==
    /\ Spendable(p) /\ ~Locked(p)
    /\ \A q \in 1 .. (p - 1) : ~(Spendable(q) /\ ~Locked(q))

Init ==
    /\ quota \in {[exists |-> TRUE,  included |-> PlanIncluded, overage |-> 0],
                  [exists |-> FALSE, included |-> 0, overage |-> 0]}
    /\ remaining = PackSize
    /\ expired = {}
    /\ consumption = [k \in Keys |-> NoPack]
    /\ pending = {}
    /\ claim = [k \in Keys |-> "idle"]
    /\ pick = [k \in Keys |-> NoPack]
    /\ source = [k \in Keys |-> "none"]
    /\ refund = [k \in Keys |-> "none"]
    /\ refunds = [k \in Keys |-> 0]
    /\ back = [k \in Keys |-> 0]
    /\ resets = 0

-----------------------------------------------------------------------------
(***************************************************************************)
(* requireIntegratorQuota                                                  *)
(***************************************************************************)

\* The claim returns with its tier.
Granted(k, tier) ==
    /\ claim' = [claim EXCEPT ![k] = "held"]
    /\ source' = [source EXCEPT ![k] = tier]

\* 1. UPDATE tenant_quota_state ... WHERE included_remaining > 0.
ClaimPlan(k) ==
    /\ claim[k] = "idle"
    /\ \/ /\ quota.exists /\ quota.included > 0
          /\ quota' = [quota EXCEPT !.included = @ - 1]
          /\ Granted(k, "plan")
       \/ /\ ~(quota.exists /\ quota.included > 0)
          /\ claim' = [claim EXCEPT ![k] = "credits"]
          /\ UNCHANGED <<quota, source>>
    /\ UNCHANGED <<remaining, expired, consumption, pending, pick, refund,
                   refunds, back, resets>>

\* 2. The sub-select of the credit-pack UPDATE locks the pack it will debit,
\* skipping the packs other claims have locked.
LockPack(k) ==
    /\ claim[k] = "credits"
    /\ \/ \E p \in Packs :
            /\ IsNextPack(p)
            /\ pick' = [pick EXCEPT ![k] = p]
            /\ claim' = [claim EXCEPT ![k] = "debit"]
       \/ /\ \A p \in Packs : ~IsNextPack(p)
          /\ claim' = [claim EXCEPT ![k] = "overage"]
          /\ pick' = pick
    /\ UNCHANGED <<ledger, source, refund, refunds, back, resets>>

\* ... and its SET clause debits it.
DebitPack(k) ==
    /\ claim[k] = "debit"
    /\ remaining' = [remaining EXCEPT ![pick[k]] = @ - 1]
    /\ claim' = [claim EXCEPT ![k] = "record"]
    /\ UNCHANGED <<quota, expired, consumption, pending, pick, source, refund,
                   refunds, back, resets>>

\* Mutant: the debit leaves no audit row.
NothingRecorded(k) == consumption

\* INSERT INTO action_credit_consumptions ... ON CONFLICT DO NOTHING.
Recorded(k) ==
    [consumption EXCEPT ![k] = IF @ = NoPack THEN pick[k] ELSE @]

RecordConsumption(k) ==
    /\ claim[k] = "record"
    /\ consumption' = Recorded(k)
    /\ pick' = [pick EXCEPT ![k] = NoPack]
    /\ Granted(k, "credits")
    /\ UNCHANGED <<quota, remaining, expired, pending, refund, refunds, back,
                   resets>>

\* 3. No catalog row or no overage price: IntegratorQuotaExhausted.
\* 4. INSERT INTO usage_pending_invoice_items ... ON CONFLICT DO NOTHING.
QueueOverage(k) ==
    /\ claim[k] = "overage"
    /\ \/ /\ FALSE \in OveragePolicies
          /\ claim' = [claim EXCEPT ![k] = "denied"]
          /\ pending' = pending
       \/ /\ TRUE \in OveragePolicies
          /\ pending' = pending \union {k}
          /\ claim' = [claim EXCEPT ![k] = "bump"]
    /\ UNCHANGED <<quota, remaining, expired, consumption, pick, source,
                   refund, refunds, back, resets>>

\* Mutant: an UPDATE that matches no row is waited for, not accepted.
BumpOverageOfRow(k) ==
    /\ claim[k] = "bump" /\ quota.exists
    /\ quota' = [quota EXCEPT !.overage = @ + 1]
    /\ Granted(k, "overage")
    /\ UNCHANGED <<remaining, expired, consumption, pending, pick, refund,
                   refunds, back, resets>>

\* UPDATE tenant_quota_state SET overage_count = overage_count + 1.
BumpOverage(k) ==
    /\ claim[k] = "bump"
    /\ quota' = IF quota.exists THEN [quota EXCEPT !.overage = @ + 1]
                                ELSE quota
    /\ Granted(k, "overage")
    /\ UNCHANGED <<remaining, expired, consumption, pending, pick, refund,
                   refunds, back, resets>>

\* An administrator's signup dispatches without claiming (kick.ts).
SkipClaim(k) ==
    /\ AdminBypass
    /\ claim[k] = "idle"
    /\ claim' = [claim EXCEPT ![k] = "skipped"]
    /\ UNCHANGED <<ledger, pick, source, refund, refunds, back, resets>>

\* The process dies inside the call; what its statements committed stays.
CrashClaim(k) ==
    /\ "claim" \in Crashes
    /\ claim[k] \in {"credits", "debit", "record", "overage", "bump"}
    /\ claim' = [claim EXCEPT ![k] = "lost"]
    /\ pick' = [pick EXCEPT ![k] = IF claim[k] = "record" THEN @ ELSE NoPack]
    /\ UNCHANGED <<ledger, source, refund, refunds, back, resets>>

-----------------------------------------------------------------------------
(***************************************************************************)
(* refundIntegratorQuota                                                   *)
(***************************************************************************)

GaveBack(k) == back' = [back EXCEPT ![k] = @ + 1]

\* 1. DELETE FROM usage_pending_invoice_items ... RETURNING id.
RefundDelete(k) ==
    /\ claim[k] \in {"held", "skipped"}
    /\ refund[k] = "none" /\ refunds[k] < MaxRefunds
    /\ refunds' = [refunds EXCEPT ![k] = @ + 1]
    /\ \/ /\ k \in pending
          /\ pending' = pending \ {k}
          /\ refund' = [refund EXCEPT ![k] = "dec"]
          /\ GaveBack(k)
       \/ /\ k \notin pending
          /\ refund' = [refund EXCEPT ![k] = "restore"]
          /\ UNCHANGED <<pending, back>>
    /\ UNCHANGED <<quota, remaining, expired, consumption, claim, pick, source,
                   resets>>

\* Mutant: the refund forgets the counter.
OverageKept == quota.overage

\* SET overage_count = GREATEST(overage_count - 1, 0).
OverageUncounted == IF quota.overage > 0 THEN quota.overage - 1 ELSE 0

RefundUncount(k) ==
    /\ refund[k] = "dec"
    /\ quota' = [quota EXCEPT !.overage = OverageUncounted]
    /\ refund' = [refund EXCEPT ![k] = "none"]
    /\ UNCHANGED <<remaining, expired, consumption, pending, claim, pick,
                   source, refunds, back, resets>>

\* 2. WITH consumption AS (DELETE ...) UPDATE action_credits
\*    SET actions_remaining = LEAST(actions_remaining + 1, actions_purchased).
RefundRestore(k) ==
    /\ refund[k] = "restore"
    /\ LET p == consumption[k] IN
       \/ /\ p # NoPack /\ ~Locked(p)
          /\ consumption' = [consumption EXCEPT ![k] = NoPack]
          /\ remaining' = [remaining EXCEPT
                             ![p] = IF @ + 1 > PackSize[p] THEN PackSize[p]
                                                           ELSE @ + 1]
          /\ refund' = [refund EXCEPT ![k] = "none"]
          /\ GaveBack(k)
       \/ /\ p = NoPack
          /\ refund' = [refund EXCEPT ![k] = "plan"]
          /\ UNCHANGED <<consumption, remaining, back>>
    /\ UNCHANGED <<quota, expired, pending, claim, pick, source, refunds,
                   resets>>

\* 3. Otherwise it must have consumed a plan-included slot.
RefundPlan(k) ==
    /\ refund[k] = "plan"
    /\ \/ /\ quota.exists
          /\ quota' = [quota EXCEPT !.included = @ + 1]
          /\ GaveBack(k)
       \/ /\ ~quota.exists
          /\ UNCHANGED <<quota, back>>
    /\ refund' = [refund EXCEPT ![k] = "none"]
    /\ UNCHANGED <<remaining, expired, consumption, pending, claim, pick,
                   source, refunds, resets>>

CrashRefund(k) ==
    /\ "refund" \in Crashes
    /\ refund[k] # "none"
    /\ refund' = [refund EXCEPT ![k] = "none"]
    /\ UNCHANGED <<ledger, claim, pick, source, refunds, back, resets>>

-----------------------------------------------------------------------------
(***************************************************************************)
(* The calendar and the payment provider                                   *)
(***************************************************************************)

\* resetQuotaForPeriod: upsert with the plan's included_actions.
ResetPeriod ==
    /\ resets < MaxResets
    /\ resets' = resets + 1
    /\ quota' = [exists |-> TRUE, included |-> PlanIncluded, overage |-> 0]
    /\ UNCHANGED <<remaining, expired, consumption, pending, calls, back>>

\* now() passes the expires_at of the next pack to expire.
ExpirePack(p) ==
    /\ p \notin expired
    /\ \A q \in 1 .. (p - 1) : q \in expired
    /\ expired' = expired \union {p}
    /\ UNCHANGED <<quota, remaining, consumption, pending, calls, back, resets>>

ClaimStep(k) ==
    \/ ClaimPlan(k) \/ LockPack(k) \/ DebitPack(k) \/ RecordConsumption(k)
    \/ QueueOverage(k) \/ BumpOverage(k)

RefundStep(k) == RefundUncount(k) \/ RefundRestore(k) \/ RefundPlan(k)

Next ==
    \/ \E k \in Keys : \/ ClaimStep(k) \/ SkipClaim(k) \/ CrashClaim(k)
                       \/ RefundDelete(k) \/ RefundStep(k) \/ CrashRefund(k)
    \/ ResetPeriod
    \/ \E p \in Packs : ExpirePack(p)

Spec == Init /\ [][Next]_vars

\* A call that has begun runs on: the event loop and Postgres are fair to it.
Fairness == \A k \in Keys :
    /\ WF_vars(claim[k] # "idle" /\ ClaimStep(k))
    /\ WF_vars(RefundStep(k))

FairSpec == Spec /\ Fairness

-----------------------------------------------------------------------------
TypeOK ==
    /\ quota \in [exists : BOOLEAN, included : Nat, overage : Nat]
    /\ remaining \in [Packs -> Nat]
    /\ expired \subseteq Packs
    /\ consumption \in [Keys -> Packs \union {NoPack}]
    /\ pending \subseteq Keys
    /\ claim \in [Keys -> ClaimPhases]
    /\ pick \in [Keys -> Packs \union {NoPack}]
    /\ source \in [Keys -> Sources]
    /\ refund \in [Keys -> RefundPhases]
    /\ refunds \in [Keys -> Nat]
    /\ back \in [Keys -> Nat]
    /\ resets \in Nat

(***************************************************************************)
(* The claims that hold a unit of pack p: the consumption is recorded, or  *)
(* the debit is committed and the record is not (yet) there.               *)
(***************************************************************************)
Drawn(p) == {k \in Keys : \/ consumption[k] = p
                          \/ claim[k] \in {"record", "lost"} /\ pick[k] = p}

(***************************************************************************)
(* Every unit a tenant bought is either still in its pack or drawn by      *)
(* exactly one claim, whatever claims, refunds (repeated ones included),   *)
(* expiries and crashes interleave: the two statements of a credit claim   *)
(* never debit twice for one key, and LEAST(...) in the refund never       *)
(* swallows a unit.                                                        *)
(***************************************************************************)
PackConservation ==
    \A p \in Packs : remaining[p] + Cardinality(Drawn(p)) = PackSize[p]

(***************************************************************************)
(* SKIP LOCKED gives a pack to one claim at a time, and the pack it locked *)
(* still has a unit when the debit commits (CHECK actions_remaining >= 0). *)
(***************************************************************************)
LockedPackHasUnit ==
    \A k \in Keys : claim[k] = "debit" =>
        /\ remaining[pick[k]] > 0
        /\ \A j \in Keys \ {k} : claim[j] = "debit" => pick[j] # pick[k]

(***************************************************************************)
(* A receipt can be honoured: until its first refund, a claim that         *)
(* returned has left the very row a refund of its key will look for, and   *)
(* no row of another tier that would divert the refund.                    *)
(***************************************************************************)
ReceiptBacked ==
    \A k \in Keys : claim[k] = "held" /\ refunds[k] = 0 =>
        /\ source[k] = "credits" <=> consumption[k] # NoPack
        /\ source[k] = "overage" <=> k \in pending

(***************************************************************************)
(* Within one period overage_count is the number of queued invoice items,  *)
(* once the claims that are between their two statements, or died there,   *)
(* and the refunds that are between theirs are counted: nobody is invoiced *)
(* for an action the counter does not know, and the other way round.       *)
(***************************************************************************)
Uncounted(k) == claim[k] = "bump" \/ (claim[k] = "lost" /\ k \in pending)

OverageMatchesInvoices ==
    quota.exists =>
        quota.overage + Cardinality({k \in Keys : Uncounted(k)}) =
            Cardinality(pending) + Cardinality({k \in Keys : refund[k] = "dec"})

(***************************************************************************)
(* A begun claim ends in a receipt, a denial or the death of its process;  *)
(* it never waits for another call, because locked packs are skipped.      *)
(***************************************************************************)
ClaimResolves ==
    \A k \in Keys : claim[k] \in {"credits", "debit", "record", "overage", "bump"}
                    ~> claim[k] \in {"held", "denied", "lost"}

=============================================================================
