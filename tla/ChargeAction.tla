---------------------------- MODULE ChargeAction ----------------------------
(***************************************************************************)
(* Key actions and deletions of one user under one tenant, as chargeAction *)
(* and refundAction (billing/charge-action.ts) bracket them: the user's    *)
(* monthly action counter, the fairness row of the (user, tenant, product, *)
(* day), and the claim of an integrator-quota slot.                        *)
(*                                                                         *)
(* Each statement is an action of its own: calls of several requests       *)
(* interleave, the clock may turn between two statements of a call, and a  *)
(* process may die there.  The quota ladder is seen from outside: a claim  *)
(* is granted or refused (QuotaContract says what that means).             *)
(***************************************************************************)
EXTENDS Naturals, FiniteSets

CONSTANTS
    Calls,      \* requests that charge an action
    Product,    \* the provider each call is about
    Limit,      \* the user's monthly action limit
    Days,       \* bound: the days that are looked at, 0 .. some number
    Month(_),   \* the month of a day
    Envs,       \* possible settings of the server, and what the calls ask for
    Faults,     \* may a swallowed statement fail?
    Crashes,    \* may a process die between two statements?
    None

Months == {Month(d) : d \in Days}

ASSUME FaultsAssumption == Faults \in BOOLEAN /\ Crashes \in BOOLEAN
ASSUME ClockAssumption ==
    /\ Days \subseteq Nat /\ 0 \in Days
    /\ None \notin Days /\ None \notin Months
ASSUME LimitAssumption == Limit \in Nat
ASSUME EnvAssumption ==
    Envs \subseteq [tenant : BOOLEAN, meter : {"actions", "signups"},
                    fairness : {"on", "off"}, abuse : {"off", "warn", "enforce"},
                    deletes : SUBSET Calls]

VARIABLES
    env,      \* BILLING_METER, BILLING_FAIRNESS, ABUSE_ENFORCEMENT, fixed;
              \* tenant: does the account belong to a tenant provider?
              \* deletes: the calls of action "delete"
    today,    \* the UTC day
    at,       \* where each call stands
    used,     \* user_action_counts.count of each month
    seen,     \* user_provider_action_days.action_count
    counted,  \* the month row a call has incremented
    back,     \* history: the month row a call has decremented
    due,      \* the day row a call has incremented
    unwound,  \* history: the day row a call has decremented
    claim     \* the receipt: none, held or returned

counter == <<used, counted, back>>
dayRow  == <<seen, due, unwound>>
vars == <<env, today, at, counter, dayRow, claim>>

Phases == {"idle", "gated", "counted", "claim", "undo", "unwind", "perform",
           "giveback", "uncount", "done", "failed", "refused", "dead"}

Products == {Product[c] : c \in Calls}

Init ==
    /\ env \in Envs
    /\ today = 0
    /\ at = [c \in Calls |-> "idle"]
    /\ used = [m \in Months |-> 0]
    /\ seen = [p \in Products |-> [d \in Days |-> 0]]
    /\ counted = [c \in Calls |-> None]
    /\ back = [c \in Calls |-> None]
    /\ due = [c \in Calls |-> None]
    /\ unwound = [c \in Calls |-> None]
    /\ claim = [c \in Calls |-> "none"]

Goes(c, phase) == at' = [at EXCEPT ![c] = phase]

-----------------------------------------------------------------------------
(***************************************************************************)
(* chargeAction                                                            *)
(***************************************************************************)

\* The kill switch and the subscription of the tenant: refused or not.
PassGates(c) ==
    /\ at[c] = "idle"
    /\ \/ Goes(c, "gated")
       \/ env.tenant /\ Goes(c, "refused")
    /\ UNCHANGED <<env, today, counter, dayRow, claim>>

\* Mutant: the limit is compared with the counter before the increment.
OverLimitBefore(n) == env.abuse = "enforce" /\ n - 1 > Limit

\* n is the counter as the upsert returned it.
OverLimit(n) == env.abuse = "enforce" /\ n > Limit

\* checkUserActionLimit: an upsert; a call over the limit has been counted.
CountAction(c) ==
    /\ at[c] = "gated" /\ env.abuse # "off"
    /\ LET m == Month(today) IN
         /\ used' = [used EXCEPT ![m] = @ + 1]
         /\ counted' = [counted EXCEPT ![c] = m]
         /\ Goes(c, IF OverLimit(used'[m]) THEN "refused" ELSE "counted")
    /\ UNCHANGED <<env, today, back, dayRow, claim>>

SkipCount(c) ==
    /\ at[c] = "gated" /\ env.abuse = "off"
    /\ Goes(c, "counted")
    /\ UNCHANGED <<env, today, counter, dayRow, claim>>

Metered == env.tenant /\ env.meter = "actions"

Debounces(c) == Metered /\ env.fairness = "on" /\ c \notin env.deletes

\* Mutant: a call compares the row it read before its own upsert.
FreeRideEarly(n) == n > 2

\* The day was already opened by another call.
FreeRide(n) == n > 1

\* The fairness upsert: the first call of the day goes on to claim a slot.
Debounce(c) ==
    /\ at[c] = "counted" /\ Debounces(c)
    /\ LET p == Product[c] IN
         /\ seen' = [seen EXCEPT ![p][today] = @ + 1]
         /\ Goes(c, IF FreeRide(seen'[p][today]) THEN "perform" ELSE "claim")
    /\ due' = [due EXCEPT ![c] = today]
    /\ UNCHANGED <<env, today, counter, unwound, claim>>

SkipDebounce(c) ==
    /\ at[c] = "counted" /\ ~Debounces(c)
    /\ Goes(c, IF Metered THEN "claim" ELSE "perform")
    /\ UNCHANGED <<env, today, counter, dayRow, claim>>

\* requireIntegratorQuota
ClaimGranted(c) ==
    /\ at[c] = "claim"
    /\ claim' = [claim EXCEPT ![c] = "held"]
    /\ Goes(c, "perform")
    /\ UNCHANGED <<env, today, counter, dayRow>>

ClaimRefused(c) ==
    /\ at[c] = "claim"
    /\ Goes(c, "undo")
    /\ UNCHANGED <<env, today, counter, dayRow, claim>>

\* GREATEST(count - 1, 0)
Lower(n) == IF n = 0 THEN 0 ELSE n - 1

\* decrementUserActionLimit: the row of the current month.  A failure is
\* swallowed.
DecrementUser(c) ==
    \/ /\ counted[c] # None
       /\ used' = [used EXCEPT ![Month(today)] = Lower(@)]
       /\ back' = [back EXCEPT ![c] = Month(today)]
    \/ /\ counted[c] = None \/ Faults
       /\ UNCHANGED <<used, back>>

UndoCount(c) ==
    /\ at[c] = "undo"
    /\ DecrementUser(c)
    /\ Goes(c, "unwind")
    /\ UNCHANGED <<env, today, counted, dayRow, claim>>

\* Mutant: a refused claim leaves the row of the day behind.
NotUnwound(c) ==
    /\ at[c] = "unwind"
    /\ UNCHANGED <<seen, unwound>>

\* The row of the current day, whichever day the call had opened.
UnwindRow(c) ==
    /\ at[c] = "unwind"
    /\ \/ /\ Debounces(c)
          /\ seen' = [seen EXCEPT ![Product[c]][today] = Lower(@)]
          /\ unwound' = [unwound EXCEPT ![c] = today]
       \/ /\ ~Debounces(c) \/ Faults
          /\ UNCHANGED <<seen, unwound>>

Unwind(c) ==
    /\ UnwindRow(c)
    /\ Goes(c, "refused")
    /\ UNCHANGED <<env, today, counter, due, claim>>

Charge(c) ==
    \/ PassGates(c) \/ CountAction(c) \/ SkipCount(c) \/ Debounce(c)
    \/ SkipDebounce(c) \/ ClaimGranted(c) \/ ClaimRefused(c) \/ UndoCount(c)
    \/ Unwind(c)

-----------------------------------------------------------------------------
(***************************************************************************)
(* The action itself, and refundAction when it fails                       *)
(***************************************************************************)
Perform(c) ==
    /\ at[c] = "perform"
    /\ Goes(c, "done") \/ Goes(c, "giveback")
    /\ UNCHANGED <<env, today, counter, dayRow, claim>>

RefundQuota(c) ==
    /\ at[c] = "giveback"
    /\ Goes(c, "uncount")
    /\ \/ /\ claim[c] = "held"
          /\ claim' = [claim EXCEPT ![c] = "returned"]
       \/ /\ claim[c] = "none" \/ Faults
          /\ UNCHANGED claim
    /\ UNCHANGED <<env, today, counter, dayRow>>

RefundCount(c) ==
    /\ at[c] = "uncount"
    /\ DecrementUser(c)
    /\ Goes(c, "failed")
    /\ UNCHANGED <<env, today, counted, dayRow, claim>>

RefundAction(c) == RefundQuota(c) \/ RefundCount(c)

Ended == {"done", "failed", "refused", "dead"}

Crash(c) ==
    /\ Crashes /\ at[c] \notin {"idle"} \union Ended
    /\ Goes(c, "dead")
    /\ UNCHANGED <<env, today, counter, dayRow, claim>>

NextDay ==
    /\ today + 1 \in Days
    /\ today' = today + 1
    /\ UNCHANGED <<env, at, counter, dayRow, claim>>

Next ==
    \/ \E c \in Calls : Charge(c) \/ Perform(c) \/ RefundAction(c) \/ Crash(c)
    \/ NextDay

Spec == Init /\ [][Next]_vars

-----------------------------------------------------------------------------
(***************************************************************************)
(* Properties                                                              *)
(***************************************************************************)

\* Type correctness.
TypeOK ==
    /\ env \in Envs /\ today \in Days
    /\ at \in [Calls -> Phases]
    /\ used \in [Months -> Nat]
    /\ seen \in [Products -> [Days -> Nat]]
    /\ counted \in [Calls -> Months \union {None}]
    /\ back \in [Calls -> Months \union {None}]
    /\ due \in [Calls -> Days \union {None}]
    /\ unwound \in [Calls -> Days \union {None}]
    /\ claim \in [Calls -> {"none", "held", "returned"}]

\* A decrement that hit the row of a later month than the increment.
MonthStrayed(m) == \E c \in Calls : back[c] = m /\ counted[c] # m

\* The calls counted in month m that were let through and hold their count.
Admitted(m) == {c \in Calls : /\ counted[c] = m /\ back[c] = None
                              /\ at[c] # "refused"}

\* checkUserActionLimit: in enforce mode the limit is a ceiling for the
\* actions of a month, whatever calls race, fail and are refunded, as long as
\* no refund crossed from one month into the next.
LimitIsCeiling ==
    env.abuse = "enforce" =>
        \A m \in Months : MonthStrayed(m) \/ Cardinality(Admitted(m)) <= Limit

Opened(p, d)  == {c \in Calls : Product[c] = p /\ due[c] = d}
Debited(p, d) == {c \in Opened(p, d) : claim[c] # "none"}

\* A refused call opened one day and was unwound on the row of the next.
UnwoundOnto(d)  == \E c \in Calls : unwound[c] = d /\ due[c] # d
UnwoundAfter(d) == \E c \in Calls : due[c] = d /\ unwound[c] \notin {None, d}

\* The fairness debounce: a day collapses to one debit of the integrator's
\* quota per product, unless a refused call of the day before was unwound on
\* this day's row.
OneDebitPerDay ==
    \A p \in Products, d \in Days :
        UnwoundOnto(d) \/ Cardinality(Debited(p, d)) <= 1

\* "Unwind the fairness day-counter ... otherwise the next attempt would
\* silently debounce": once it has been refused, a call has no part in the row
\* of its day, which counts the other calls and nothing else.
RefusalLeavesNoTrace ==
    \A p \in Products, d \in Days :
        Faults \/ UnwoundOnto(d) \/ UnwoundAfter(d)
            \/ seen[p][d] = Cardinality({c \in Opened(p, d) : at[c] # "refused"})

=============================================================================
