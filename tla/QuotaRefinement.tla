-------------------------- MODULE QuotaRefinement --------------------------
(***************************************************************************)
(* The statement-level ladder implements the contract when every claimed   *)
(* key is refunded at most once: a claim takes effect at the statement     *)
(* that debits a pool, a refund at the statement that credits it.          *)
(***************************************************************************)
EXTENDS QuotaLedger

\* What key k holds, read off the rows and the position of its calls.
HeldSlot(k) ==
    LET slot(t, p) == [tier |-> t, pack |-> p] IN
    IF back[k] > 0 THEN slot("refunded", 0)
    ELSE IF claim[k] = "denied" THEN slot("denied", 0)
    ELSE IF source[k] = "plan" THEN slot("plan", 0)
    ELSE IF \E p \in Packs : k \in Drawn(p)
         THEN slot("credits", CHOOSE p \in Packs : k \in Drawn(p))
    ELSE IF k \in pending THEN slot("overage", 0)
    ELSE slot("none", 0)

Contract == INSTANCE QuotaContract WITH
    planFree   <- quota.included,
    creditFree <- remaining,
    slot       <- [k \in Keys |-> HeldSlot(k)]

(***************************************************************************)
(* Every step of the ladder takes one slot from one pool for one key, puts *)
(* a key's slot back where it came from, or changes nothing a caller can   *)
(* see: no slot is minted, lost in a refund or moved between tiers.        *)
(***************************************************************************)
ImplementsContract == Contract!Spec

=============================================================================
