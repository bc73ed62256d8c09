--------------------------- MODULE QuotaContract ---------------------------
(***************************************************************************)
(* What the quota ladder promises its callers, without statements, locks   *)
(* or processes: a key takes one slot from one pool or is denied, and a    *)
(* refund puts that slot back into the pool it came from, once.            *)
(***************************************************************************)
EXTENDS Integers

CONSTANTS Keys, Packs, PackSize, PlanIncluded

VARIABLES
    planFree,     \* slots left in the plan pool
    creditFree,   \* units left in each credit pack
    slot          \* what each key holds

contractVars == <<planFree, creditFree, slot>>

None      == [tier |-> "none", pack |-> 0]
Slot(t)   == [tier |-> t, pack |-> 0]
Credit(p) == [tier |-> "credits", pack |-> p]

Init ==
    /\ planFree \in {0, PlanIncluded}
    /\ creditFree = PackSize
    /\ slot = [k \in Keys |-> None]

TakePlan(k) ==
    /\ slot[k] = None /\ planFree > 0
    /\ planFree' = planFree - 1
    /\ slot' = [slot EXCEPT ![k] = Slot("plan")]
    /\ UNCHANGED creditFree

TakeCredit(k, p) ==
    /\ slot[k] = None /\ creditFree[p] > 0
    /\ creditFree' = [creditFree EXCEPT ![p] = @ - 1]
    /\ slot' = [slot EXCEPT ![k] = Credit(p)]
    /\ UNCHANGED planFree

TakeOverage(k) ==
    /\ slot[k] = None
    /\ slot' = [slot EXCEPT ![k] = Slot("overage")]
    /\ UNCHANGED <<planFree, creditFree>>

Deny(k) ==
    /\ slot[k] = None
    /\ slot' = [slot EXCEPT ![k] = Slot("denied")]
    /\ UNCHANGED <<planFree, creditFree>>

GiveBack(k) ==
    /\ slot' = [slot EXCEPT ![k] = Slot("refunded")]
    /\ \/ /\ slot[k] = Slot("plan")
          /\ planFree' = planFree + 1
          /\ UNCHANGED creditFree
       \/ /\ slot[k].tier = "credits"
          /\ creditFree' = [creditFree EXCEPT ![slot[k].pack] = @ + 1]
          /\ UNCHANGED planFree
       \/ /\ slot[k] = Slot("overage")
          /\ UNCHANGED <<planFree, creditFree>>

Next == \E k \in Keys :
    \/ TakePlan(k) \/ TakeOverage(k) \/ Deny(k) \/ GiveBack(k)
    \/ \E p \in Packs : TakeCredit(k, p)

Spec == Init /\ [][Next]_contractVars

=============================================================================
