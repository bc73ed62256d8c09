---------------------------- MODULE QuotaProofs ----------------------------
(***************************************************************************)
(* The credit packs of QuotaLedger are conserved, its receipts agree with  *)
(* the tier that holds each claim, its overage counter agrees with the     *)
(* invoice queue, and it implements QuotaContract: for every set of keys,  *)
(* every number and size of packs, and every bound on refunds and resets   *)
(* (the last two under assumptions that their theorems state).             *)
(*                                                                         *)
(* PackConservation alone is not inductive: that remaining stays a natural *)
(* number needs the lock (LockedPackHasUnit), that a debit adds a new      *)
(* member to Drawn and a refund removes one needs to know where the call   *)
(* of a key stands when it has a pack or a consumption row (CallsAgree).   *)
(* RowsAgree and Single say the same of every tier's rows.                 *)
(***************************************************************************)
EXTENDS QuotaRefinement, FiniteSetTheorems, TLAPS

\* A call that locked or debited a pack knows it; a consumption row belongs
\* to a claim that has returned.
CallsAgree ==
    \A k \in Keys :
        /\ claim[k] \in {"debit", "record"} => pick[k] \in Packs
        /\ consumption[k] # NoPack => claim[k] = "held"

\* However many calls may come, finitely many have begun.
Begun == {k \in Keys : claim[k] # "idle"}

Packed  == TypeOK /\ CallsAgree /\ LockedPackHasUnit /\ PackConservation
PackInv == IsFiniteSet(Begun) /\ Packed

-----------------------------------------------------------------------------
\* The numbers of the packs are naturals, and NoPack is none of them.
LEMMA PackNumbers == Packs \subseteq Nat /\ NoPack \notin Packs
  BY PacksAssumption DEF Packs, NoPack

\* The claims that hold a unit of a pack are finitely many.
LEMMA DrawnFinite == ASSUME PackInv PROVE \A p \in Packs : IsFiniteSet(Drawn(p))
<1>1. \A p \in Packs : Drawn(p) \subseteq Begun
  BY PackNumbers DEF PackInv, Packed, CallsAgree, Drawn, Begun
<1> QED
  BY <1>1, FS_Subset DEF PackInv

\* A step that leaves every key's hold on every pack alone, and the packs
\* too, keeps the packs conserved.
LEMMA ConservationFrame ==
    ASSUME PackConservation, remaining' = remaining,
           \A p \in Packs : Drawn(p)' = Drawn(p)
    PROVE  PackConservation'
  BY DEF PackConservation

\* In the initial state nothing is drawn and nothing is locked.
LEMMA InitPackInv == Init => PackInv
<1> SUFFICES ASSUME Init PROVE PackInv
  OBVIOUS
<1>1. TypeOK
  <2>1. quota \in [exists : BOOLEAN, included : Nat, overage : Nat]
    <3>1. [exists |-> TRUE, included |-> PlanIncluded, overage |-> 0]
            \in [exists : BOOLEAN, included : Nat, overage : Nat]
      BY PlanAssumption
    <3>2. [exists |-> FALSE, included |-> 0, overage |-> 0]
            \in [exists : BOOLEAN, included : Nat, overage : Nat]
      OBVIOUS
    <3> QED
      BY <3>1, <3>2 DEF Init
  <2>2. remaining \in [Packs -> Nat]
    BY PacksAssumption DEF Init
  <2> QED
    BY <2>1, <2>2 DEF Init, TypeOK, ClaimPhases, RefundPhases, Sources
<1>2. CallsAgree /\ LockedPackHasUnit
  BY DEF Init, CallsAgree, LockedPackHasUnit
<1>3. \A p \in Packs : Drawn(p) = {}
  BY PackNumbers DEF Init, Drawn
<1>4. PackConservation
  <2> SUFFICES ASSUME NEW p \in Packs
               PROVE  remaining[p] + Cardinality(Drawn(p)) = PackSize[p]
    BY DEF PackConservation
  <2>1. Cardinality(Drawn(p)) = 0
    BY <1>3, FS_EmptySet
  <2> QED
    BY <2>1, PacksAssumption DEF Init
<1>5. Begun = {}
  BY DEF Init, Begun
<1> QED
  BY <1>1, <1>2, <1>4, <1>5, FS_EmptySet DEF PackInv, Packed

-----------------------------------------------------------------------------
\* The steps that touch neither a pack nor anybody's hold on one.
LEMMA OtherStepsKeepPacked ==
    ASSUME PackInv, NEW k \in Keys,
           \/ ClaimPlan(k) \/ QueueOverage(k) \/ BumpOverage(k)
           \/ SkipClaim(k) \/ RefundDelete(k) \/ RefundUncount(k)
           \/ RefundPlan(k) \/ CrashRefund(k) \/ ResetPeriod
           \/ \E p \in Packs : ExpirePack(p)
    PROVE  Packed'
<1> USE DEF PackInv, Packed
<1>1. TypeOK'
  <2>1. CASE ClaimPlan(k)
    BY <2>1 DEF ClaimPlan, Granted, TypeOK, ClaimPhases, Sources
  <2>2. CASE QueueOverage(k)
    BY <2>2 DEF QueueOverage, TypeOK, ClaimPhases, ledger
  <2>3. CASE BumpOverage(k)
    BY <2>3 DEF BumpOverage, Granted, TypeOK, ClaimPhases, Sources
  <2>4. CASE SkipClaim(k)
    BY <2>4 DEF SkipClaim, TypeOK, ClaimPhases, ledger
  <2>5. CASE RefundDelete(k)
    BY <2>5 DEF RefundDelete, GaveBack, TypeOK, RefundPhases
  <2>6. CASE RefundUncount(k)
    BY <2>6 DEF RefundUncount, OverageUncounted, TypeOK, RefundPhases
  <2>7. CASE RefundPlan(k)
    BY <2>7 DEF RefundPlan, GaveBack, TypeOK, RefundPhases
  <2>8. CASE CrashRefund(k)
    BY <2>8 DEF CrashRefund, TypeOK, RefundPhases, ledger
  <2>9. CASE ResetPeriod
    BY <2>9, PlanAssumption DEF ResetPeriod, TypeOK, calls
  <2>10. CASE \E p \in Packs : ExpirePack(p)
    BY <2>10 DEF ExpirePack, TypeOK, calls
  <2> QED
    BY <2>1, <2>2, <2>3, <2>4, <2>5, <2>6, <2>7, <2>8, <2>9, <2>10
<1>2. /\ remaining' = remaining /\ consumption' = consumption /\ pick' = pick
      /\ \A j \in Keys : \/ claim'[j] = claim[j]
                         \/ /\ claim[j] \in {"idle", "overage", "bump"}
                            /\ claim'[j] \in {"held", "credits", "denied",
                                              "bump", "skipped"}
  BY DEF ClaimPlan, QueueOverage, BumpOverage, SkipClaim, RefundDelete,
         RefundUncount, RefundPlan, CrashRefund, ResetPeriod, ExpirePack,
         Granted, ledger, calls, TypeOK
<1>3. CallsAgree' /\ LockedPackHasUnit'
  BY <1>2 DEF CallsAgree, LockedPackHasUnit, TypeOK
<1>4. \A p \in Packs : Drawn(p)' = Drawn(p)
  BY <1>2 DEF Drawn, TypeOK
<1>5. PackConservation'
  BY <1>2, <1>4, ConservationFrame
<1> QED
  BY <1>1, <1>3, <1>5

\* Locking a pack takes one that has a unit and that nobody else has locked.
LEMMA LockPackKeepsPacked ==
    ASSUME PackInv, NEW k \in Keys, LockPack(k) PROVE Packed'
<1> USE DEF PackInv, Packed
<1>1. TypeOK'
  BY DEF LockPack, TypeOK, ClaimPhases, ledger
<1>2. CallsAgree'
  BY DEF LockPack, CallsAgree, TypeOK, ledger
<1>3. LockedPackHasUnit'
  BY DEF LockPack, LockedPackHasUnit, IsNextPack, Spendable, Locked, TypeOK,
         ledger
<1>4. \A p \in Packs : Drawn(p)' = Drawn(p)
  BY DEF LockPack, Drawn, TypeOK, ledger
<1>5. PackConservation'
  BY <1>4, ConservationFrame DEF LockPack, ledger
<1> QED
  BY <1>1, <1>2, <1>3, <1>5

\* A debit takes one unit from the locked pack and adds its claim to Drawn.
LEMMA DebitPackKeepsPacked ==
    ASSUME PackInv, NEW k \in Keys, DebitPack(k) PROVE Packed'
<1> USE DEF PackInv, Packed
<1> DEFINE q == pick[k]
<1>1. /\ q \in Packs /\ remaining[q] \in Nat /\ remaining[q] > 0
      /\ consumption[k] = NoPack
  BY DEF DebitPack, CallsAgree, LockedPackHasUnit, TypeOK
<1>2. TypeOK'
  BY <1>1 DEF DebitPack, TypeOK, ClaimPhases
<1>3. CallsAgree'
  BY <1>1 DEF DebitPack, CallsAgree, TypeOK
<1>4. LockedPackHasUnit'
  BY <1>1 DEF DebitPack, LockedPackHasUnit, CallsAgree, TypeOK
<1>5. PackConservation'
  <2> SUFFICES ASSUME NEW p \in Packs
               PROVE  remaining'[p] + Cardinality(Drawn(p)') = PackSize[p]
    BY DEF PackConservation
  <2>1. CASE p = q
    <3>1. Drawn(p)' = Drawn(p) \union {k} /\ k \notin Drawn(p)
      BY <2>1, <1>1, PackNumbers DEF DebitPack, Drawn, TypeOK
    <3>2. Cardinality(Drawn(p)') = Cardinality(Drawn(p)) + 1
      BY <3>1, DrawnFinite, FS_AddElement
    <3>3. Cardinality(Drawn(p)) \in Nat
      BY DrawnFinite, FS_CardinalityType
    <3>4. remaining'[p] = remaining[p] - 1
      BY <2>1, <1>1 DEF DebitPack, TypeOK
    <3> QED
      BY <2>1, <1>1, <3>2, <3>3, <3>4 DEF PackConservation
  <2>2. CASE p # q
    <3>1. Drawn(p)' = Drawn(p)
      BY <2>2 DEF DebitPack, Drawn, TypeOK
    <3>2. remaining'[p] = remaining[p]
      BY <2>2, <1>1 DEF DebitPack, TypeOK
    <3> QED
      BY <3>1, <3>2 DEF PackConservation
  <2> QED
    BY <2>1, <2>2
<1> QED
  BY <1>2, <1>3, <1>4, <1>5

\* Recording a consumption, and dying, leave the hold on the pack as it was.
LEMMA RecordAndCrashKeepPacked ==
    ASSUME PackInv, NEW k \in Keys, RecordConsumption(k) \/ CrashClaim(k)
    PROVE  Packed'
<1> USE DEF PackInv, Packed
<1>1. TypeOK'
  BY DEF RecordConsumption, Recorded, CrashClaim, Granted, TypeOK, ClaimPhases,
         Sources, ledger
<1>2. CallsAgree'
  BY DEF RecordConsumption, Recorded, CrashClaim, Granted, CallsAgree, TypeOK,
         ledger
<1>3. LockedPackHasUnit'
  BY DEF RecordConsumption, CrashClaim, Granted, LockedPackHasUnit, TypeOK,
         ledger
<1>4. \A p \in Packs : Drawn(p)' = Drawn(p)
  <2>1. CASE RecordConsumption(k)
    BY <2>1, PackNumbers
    DEF RecordConsumption, Recorded, Granted, CallsAgree, Drawn, TypeOK
  <2>2. CASE CrashClaim(k)
    BY <2>2, PackNumbers DEF CrashClaim, Drawn, CallsAgree, TypeOK, ledger
  <2> QED
    BY <2>1, <2>2
<1>5. PackConservation'
  BY <1>4, ConservationFrame DEF RecordConsumption, CrashClaim, ledger
<1> QED
  BY <1>1, <1>2, <1>3, <1>5

\* A refund removes its claim from Drawn and puts the unit back: the LEAST in
\* its SET clause never cuts anything off.
LEMMA RefundRestoreKeepsPacked ==
    ASSUME PackInv, NEW k \in Keys, RefundRestore(k) PROVE Packed'
<1> USE DEF PackInv, Packed
<1>1. CASE consumption[k] = NoPack
  <2>1. TypeOK'
    BY <1>1 DEF RefundRestore, TypeOK, RefundPhases
  <2>2. CallsAgree' /\ LockedPackHasUnit'
    BY <1>1 DEF RefundRestore, CallsAgree, LockedPackHasUnit
  <2>3. \A p \in Packs : Drawn(p)' = Drawn(p)
    BY <1>1 DEF RefundRestore, Drawn
  <2>4. PackConservation'
    BY <1>1, <2>3, ConservationFrame DEF RefundRestore
  <2> QED
    BY <2>1, <2>2, <2>4
<1>2. CASE consumption[k] # NoPack
  <2>0. PICK q \in Packs : q = consumption[k]
    BY <1>2 DEF TypeOK
  <2>1. q = consumption[k] /\ claim[k] = "held" /\ remaining[q] \in Nat
    BY <1>2, <2>0 DEF CallsAgree, TypeOK
  <2>2. k \in Drawn(q) /\ Drawn(q)' = Drawn(q) \ {k}
    <3>1. k \in Drawn(q)
      BY <2>1 DEF Drawn
    <3>2. /\ claim' = claim /\ pick' = pick
          /\ consumption' = [consumption EXCEPT ![k] = NoPack]
      BY <1>2 DEF RefundRestore
    <3>3. \A j \in Keys \ {k} : j \in Drawn(q)' <=> j \in Drawn(q)
      BY <3>2, <2>1 DEF Drawn, TypeOK
    <3>4. k \notin Drawn(q)'
      BY <3>2, <2>1, PackNumbers DEF Drawn, TypeOK
    <3> QED
      BY <3>1, <3>3, <3>4 DEF Drawn
  <2>3. /\ Cardinality(Drawn(q)) \in Nat
        /\ Cardinality(Drawn(q)') = Cardinality(Drawn(q)) - 1
    BY <2>1, <2>2, DrawnFinite, FS_RemoveElement, FS_CardinalityType
  <2>4. Cardinality(Drawn(q)') \in Nat
    BY <2>1, <2>2, DrawnFinite, FS_Subset, FS_CardinalityType
  <2>5. remaining[q] + 1 <= PackSize[q] /\ PackSize[q] \in Nat
    BY <2>1, <2>3, <2>4, PacksAssumption DEF PackConservation
  <2>6. remaining' = [remaining EXCEPT ![q] = @ + 1]
    BY <1>2, <2>1, <2>5 DEF RefundRestore, TypeOK
  <2>7. TypeOK'
    BY <1>2, <2>1, <2>6 DEF RefundRestore, GaveBack, TypeOK, RefundPhases
  <2>8. CallsAgree'
    BY <1>2, <2>1 DEF RefundRestore, CallsAgree, TypeOK
  <2>9. LockedPackHasUnit'
    BY <1>2, <2>1, <2>6 DEF RefundRestore, LockedPackHasUnit, Locked, TypeOK
  <2>10. PackConservation'
    <3> SUFFICES ASSUME NEW p \in Packs
                 PROVE  remaining'[p] + Cardinality(Drawn(p)') = PackSize[p]
      BY DEF PackConservation
    <3>1. CASE p = q
      <4>1. remaining'[p] = remaining[q] + 1
        BY <3>1, <2>1, <2>6 DEF TypeOK
      <4>2. remaining[q] + Cardinality(Drawn(q)) = PackSize[q]
        BY <2>1 DEF PackConservation
      <4>3. Cardinality(Drawn(p)') = Cardinality(Drawn(q)) - 1
        BY <3>1, <2>3
      <4> QED
        BY <3>1, <4>1, <4>2, <4>3, <2>1, <2>3
    <3>2. CASE p # q
      <4>1. Drawn(p)' = Drawn(p)
        BY <1>2, <3>2, <2>1, PackNumbers DEF RefundRestore, Drawn, TypeOK
      <4> QED
        BY <3>2, <2>1, <2>6, <4>1 DEF PackConservation, TypeOK
    <3> QED
      BY <3>1, <3>2
  <2> QED
    BY <2>7, <2>8, <2>9, <2>10
<1> QED
  BY <1>1, <1>2

LEMMA BegunFinite == PackInv /\ [Next]_vars => IsFiniteSet(Begun')
<1> SUFFICES ASSUME PackInv, [Next]_vars PROVE IsFiniteSet(Begun')
  OBVIOUS
<1>1. TypeOK /\ IsFiniteSet(Begun)
  BY DEF PackInv, Packed
<1>2. ASSUME NEW k \in Keys, \A j \in Keys \ {k} : claim'[j] = claim[j]
      PROVE  IsFiniteSet(Begun')
  <2>1. Begun' \subseteq Begun \cup {k}
    BY <1>2 DEF Begun
  <2>2. IsFiniteSet(Begun \cup {k})
    BY <1>1, FS_AddElement
  <2> QED
    BY <2>1, <2>2, FS_Subset
<1>3. ASSUME NEW k \in Keys, ClaimStep(k) \/ SkipClaim(k) \/ CrashClaim(k)
      PROVE  \A j \in Keys \ {k} : claim'[j] = claim[j]
  BY <1>1, <1>3
  DEF ClaimStep, ClaimPlan, LockPack, DebitPack, RecordConsumption, QueueOverage, BumpOverage,
      SkipClaim, CrashClaim, Granted, TypeOK
<1>4. ASSUME NEW k \in Keys, RefundDelete(k) \/ RefundStep(k) \/ CrashRefund(k)
      PROVE  claim' = claim
  BY <1>4 DEF RefundDelete, RefundStep, RefundUncount, RefundRestore, RefundPlan, CrashRefund
<1>5. CASE ResetPeriod \/ (\E p \in Packs : ExpirePack(p)) \/ UNCHANGED vars
  BY <1>1, <1>5 DEF ResetPeriod, ExpirePack, vars, calls, Begun
<1> QED
  BY <1>1, <1>2, <1>3, <1>4, <1>5 DEF Next, Begun

LEMMA StepKeepsPackInv == PackInv /\ [Next]_vars => PackInv'
<1> SUFFICES ASSUME PackInv, [Next]_vars PROVE Packed'
  BY BegunFinite DEF PackInv
<1>1. CASE UNCHANGED vars
  BY <1>1
  DEF PackInv, Packed, TypeOK, CallsAgree, LockedPackHasUnit, PackConservation, Drawn,
      vars, ledger, calls
<1>2. ASSUME NEW k \in Keys,
             ClaimStep(k) \/ SkipClaim(k) \/ CrashClaim(k)
             \/ RefundDelete(k) \/ RefundStep(k) \/ CrashRefund(k)
      PROVE  Packed'
  BY <1>2, OtherStepsKeepPacked, LockPackKeepsPacked, DebitPackKeepsPacked,
     RecordAndCrashKeepPacked, RefundRestoreKeepsPacked
  DEF ClaimStep, RefundStep
<1>3. CASE ResetPeriod \/ \E p \in Packs : ExpirePack(p)
  <2>1. CASE Keys # {}
    BY <1>3, <2>1, OtherStepsKeepPacked
  <2>2. CASE Keys = {}
    <3>1. TypeOK'
      <4>1. CASE ResetPeriod
        BY <4>1, PlanAssumption DEF ResetPeriod, PackInv, Packed, TypeOK, calls
      <4>2. CASE \E p \in Packs : ExpirePack(p)
        BY <4>2 DEF ExpirePack, PackInv, Packed, TypeOK, calls
      <4> QED
        BY <1>3, <4>1, <4>2
    <3>2. CallsAgree' /\ LockedPackHasUnit'
      BY <2>2 DEF CallsAgree, LockedPackHasUnit
    <3>3. PackConservation'
      BY <1>3, <2>2, ConservationFrame
      DEF ResetPeriod, ExpirePack, PackInv, Packed, Drawn
    <3> QED
      BY <3>1, <3>2, <3>3 DEF Packed
  <2> QED
    BY <2>1, <2>2
<1> QED
  BY <1>1, <1>2, <1>3 DEF Next

(***************************************************************************)
(* The statement-level invariant of the credit packs holds in every state  *)
(* the ladder reaches.                                                     *)
(***************************************************************************)
THEOREM PackInvariance == Spec => []PackInv
  BY InitPackInv, StepKeepsPackInv, PTL DEF Spec

(***************************************************************************)
(* No column leaves its domain: in particular included_remaining and       *)
(* actions_remaining never go below zero, however calls interleave.        *)
(***************************************************************************)
THEOREM TypeCorrect == Spec => []TypeOK
<1>1. PackInv => TypeOK
  BY DEF PackInv, Packed
<1> QED
  BY <1>1, PackInvariance, PTL

(***************************************************************************)
(* Every unit of every credit pack is in its pack or drawn by exactly one  *)
(* claim: repeated refunds and crashes neither mint nor swallow credits.   *)
(***************************************************************************)
THEOREM CreditsConserved == Spec => []PackConservation
<1>1. PackInv => PackConservation
  BY DEF PackInv, Packed
<1> QED
  BY <1>1, PackInvariance, PTL

(***************************************************************************)
(* A locked pack has a unit and one holder, so a debit never takes a pack  *)
(* below zero.                                                             *)
(***************************************************************************)
THEOREM LocksExclusive == Spec => []LockedPackHasUnit
<1>1. PackInv => LockedPackHasUnit
  BY DEF PackInv, Packed
<1> QED
  BY <1>1, PackInvariance, PTL

-----------------------------------------------------------------------------
(***************************************************************************)
(* The rows behind a receipt                                               *)
(***************************************************************************)
\* A queued item belongs to a claim that got as far as the overage tier, a
\* claim has a source once it has returned, and only such a claim, or one
\* that was skipped, is refunded.
RowsAgree ==
    \A k \in Keys :
        /\ k \in pending => claim[k] \in {"bump", "lost", "held"}
        /\ claim[k] = "bump" => k \in pending
        /\ claim[k] = "held" <=> source[k] # "none"
        /\ refunds[k] > 0 => claim[k] \in {"held", "skipped"}
        /\ refunds[k] = 0 => refund[k] = "none" /\ back[k] = 0

LEMMA InitRows == Init => RowsAgree /\ ReceiptBacked
  BY DEF Init, RowsAgree, ReceiptBacked

LEMMA StepKeepsRows ==
    ASSUME PackInv, RowsAgree, ReceiptBacked, [Next]_vars
    PROVE  RowsAgree' /\ ReceiptBacked'
<1> USE DEF PackInv, Packed, TypeOK, CallsAgree, RowsAgree, ReceiptBacked
<1>1. CASE UNCHANGED vars
  BY <1>1 DEF vars, ledger, calls
<1>2. ASSUME NEW k \in Keys, ClaimPlan(k) PROVE RowsAgree' /\ ReceiptBacked'
  BY <1>2 DEF ClaimPlan, Granted
<1>3. ASSUME NEW k \in Keys, LockPack(k) \/ DebitPack(k) \/ SkipClaim(k) \/ CrashClaim(k)
      PROVE  RowsAgree' /\ ReceiptBacked'
  <2>1. /\ pending' = pending /\ source' = source /\ refunds' = refunds /\ refund' = refund
        /\ back' = back /\ consumption' = consumption
    BY <1>3 DEF LockPack, DebitPack, SkipClaim, CrashClaim, ledger
  <2>2. /\ \A j \in Keys \ {k} : claim'[j] = claim[j]
        /\ claim[k] \in {"idle", "credits", "debit", "record", "overage", "bump"}
        /\ claim'[k] \in {"debit", "overage", "record", "skipped", "lost"}
        /\ claim[k] = "bump" => claim'[k] = "lost"
    BY <1>3 DEF LockPack, DebitPack, SkipClaim, CrashClaim
  <2> QED
    BY <2>1, <2>2
<1>4. ASSUME NEW k \in Keys, RecordConsumption(k) PROVE RowsAgree' /\ ReceiptBacked'
  <2>1. pick[k] # NoPack /\ consumption[k] = NoPack /\ k \notin pending
    BY <1>4, PackNumbers DEF RecordConsumption
  <2>2. consumption' = [consumption EXCEPT ![k] = pick[k]]
    BY <1>4, <2>1 DEF RecordConsumption, Recorded
  <2> QED
    BY <1>4, <2>1, <2>2 DEF RecordConsumption, Granted
<1>5. ASSUME NEW k \in Keys, QueueOverage(k) PROVE RowsAgree' /\ ReceiptBacked'
  BY <1>5 DEF QueueOverage
<1>6. ASSUME NEW k \in Keys, BumpOverage(k) PROVE RowsAgree' /\ ReceiptBacked'
  BY <1>6 DEF BumpOverage, Granted
<1>7. ASSUME NEW k \in Keys, RefundDelete(k) PROVE RowsAgree' /\ ReceiptBacked'
  <2>1. /\ refunds' = [refunds EXCEPT ![k] = @ + 1] /\ claim[k] \in {"held", "skipped"}
        /\ claim' = claim /\ source' = source /\ consumption' = consumption
        /\ pending' \in {pending, pending \ {k}}
        /\ \A j \in Keys \ {k} : refund'[j] = refund[j] /\ back'[j] = back[j]
    BY <1>7 DEF RefundDelete, GaveBack
  <2> QED
    BY <2>1
<1>8. ASSUME NEW k \in Keys, RefundStep(k) \/ CrashRefund(k) PROVE RowsAgree' /\ ReceiptBacked'
  <2>1. /\ refunds[k] > 0 /\ refunds' = refunds /\ claim' = claim /\ source' = source
        /\ pending' = pending
        /\ \A j \in Keys \ {k} : /\ refund'[j] = refund[j] /\ back'[j] = back[j]
                                 /\ consumption'[j] = consumption[j]
    BY <1>8 DEF RefundStep, RefundUncount, RefundRestore, RefundPlan, CrashRefund, GaveBack, ledger
  <2> QED
    BY <2>1
<1>9. CASE ResetPeriod \/ \E p \in Packs : ExpirePack(p)
  BY <1>9 DEF ResetPeriod, ExpirePack, calls
<1> QED
  BY <1>1, <1>2, <1>3, <1>4, <1>5, <1>6, <1>7, <1>8, <1>9 DEF Next, ClaimStep

(***************************************************************************)
(* Until its first refund, a claim that returned has left the row that its *)
(* refund will look for, and none of another tier.                         *)
(***************************************************************************)
THEOREM Receipts == Spec => []ReceiptBacked
<1>1. PackInv /\ RowsAgree /\ ReceiptBacked /\ [Next]_vars => RowsAgree' /\ ReceiptBacked'
  BY StepKeepsRows
<1> QED
  BY <1>1, InitRows, PackInvariance, PTL DEF Spec

LEMMA RowsInvariance == Spec => []RowsAgree
<1>1. PackInv /\ RowsAgree /\ ReceiptBacked /\ [Next]_vars => RowsAgree' /\ ReceiptBacked'
  BY StepKeepsRows
<1> QED
  BY <1>1, InitRows, PackInvariance, PTL DEF Spec

-----------------------------------------------------------------------------
(***************************************************************************)
(* The counter and the queue of the overage                                *)
(***************************************************************************)
Bumping   == {k \in Keys : Uncounted(k)}
Uncounting == {k \in Keys : refund[k] = "dec"}

LEMMA OverageSets ==
    ASSUME PackInv, RowsAgree
    PROVE  /\ IsFiniteSet(Bumping) /\ IsFiniteSet(Uncounting) /\ IsFiniteSet(pending)
           /\ Cardinality(Bumping) \in Nat /\ Cardinality(Uncounting) \in Nat
           /\ Cardinality(pending) \in Nat
<1>1. IsFiniteSet(Bumping) /\ IsFiniteSet(Uncounting) /\ IsFiniteSet(pending)
  <2>1. Bumping \subseteq Begun /\ pending \subseteq Begun
    BY DEF PackInv, Packed, TypeOK, RowsAgree, Bumping, Uncounted, Begun
  <2>2. Uncounting \subseteq Begun
    BY DEF PackInv, Packed, TypeOK, RowsAgree, Uncounting, Begun
  <2> QED
    BY <2>1, <2>2, FS_Subset DEF PackInv
<1> QED
  BY <1>1, FS_CardinalityType

LEMMA OverageFrame ==
    ASSUME OverageMatchesInvoices, quota'.exists => quota.exists /\ quota'.overage = quota.overage,
           Bumping' = Bumping, Uncounting' = Uncounting, pending' = pending
    PROVE  OverageMatchesInvoices'
  BY DEF OverageMatchesInvoices, Bumping, Uncounting

LEMMA StepKeepsOverage ==
    ASSUME MaxResets = 0, "refund" \notin Crashes,
           PackInv, RowsAgree, OverageMatchesInvoices, [Next]_vars
    PROVE  OverageMatchesInvoices'
<1> USE DEF PackInv, Packed, TypeOK
<1>0. /\ Bumping \subseteq pending
      /\ Cardinality(Bumping) <= Cardinality(pending)
  <2>1. Bumping \subseteq pending
    BY DEF Bumping, Uncounted, RowsAgree
  <2> QED
    BY <2>1, OverageSets, FS_Subset
<1>1. CASE UNCHANGED vars
  BY <1>1, OverageFrame DEF vars, ledger, calls, Bumping, Uncounting, Uncounted
<1>2. ASSUME NEW k \in Keys, ClaimPlan(k) \/ LockPack(k) \/ DebitPack(k) \/ RecordConsumption(k)
                             \/ SkipClaim(k) \/ CrashClaim(k)
      PROVE  OverageMatchesInvoices'
  <2>1. /\ pending' = pending /\ refund' = refund
        /\ quota'.exists = quota.exists /\ quota'.overage = quota.overage
    BY <1>2 DEF ClaimPlan, LockPack, DebitPack, RecordConsumption, SkipClaim, CrashClaim, ledger
  <2>2. /\ \A j \in Keys \ {k} : claim'[j] = claim[j]
        /\ claim[k] \in {"idle", "credits", "debit", "record", "overage", "bump"}
        /\ claim'[k] \in {"held", "credits", "debit", "overage", "record", "skipped", "lost"}
        /\ claim[k] = "bump" => claim'[k] = "lost"
    BY <1>2 DEF ClaimPlan, LockPack, DebitPack, RecordConsumption, SkipClaim, CrashClaim, Granted
  <2>3. Uncounted(k)' <=> Uncounted(k)
    BY <2>1, <2>2 DEF Uncounted, RowsAgree
  <2>4. Bumping' = Bumping /\ Uncounting' = Uncounting
    BY <2>1, <2>2, <2>3 DEF Bumping, Uncounting, Uncounted
  <2> QED
    BY <2>1, <2>4, OverageFrame
<1>3. ASSUME NEW k \in Keys, QueueOverage(k) PROVE OverageMatchesInvoices'
  <2>1. quota' = quota /\ refund' = refund /\ k \notin pending /\ claim[k] = "overage"
    BY <1>3 DEF QueueOverage, RowsAgree
  <2>2. Uncounting' = Uncounting /\ k \notin Bumping
    BY <2>1 DEF Uncounting, Bumping, Uncounted
  <2>3. CASE pending' = pending /\ claim' = [claim EXCEPT ![k] = "denied"]
    <3>1. Bumping' = Bumping
      BY <2>1, <2>3 DEF Bumping, Uncounted
    <3> QED
      BY <2>1, <2>2, <2>3, <3>1, OverageFrame
  <2>4. CASE pending' = pending \union {k} /\ claim' = [claim EXCEPT ![k] = "bump"]
    <3>1. Bumping' = Bumping \union {k}
      BY <2>1, <2>4 DEF Bumping, Uncounted
    <3>2. /\ Cardinality(Bumping') = Cardinality(Bumping) + 1
          /\ Cardinality(pending') = Cardinality(pending) + 1
      BY <2>1, <2>2, <2>4, <3>1, OverageSets, FS_AddElement
    <3>3. quota.exists => quota.overage + Cardinality(Bumping) =
                            Cardinality(pending) + Cardinality(Uncounting)
      BY DEF OverageMatchesInvoices, Bumping, Uncounting
    <3>4. quota.exists => quota'.overage + Cardinality(Bumping') =
                            Cardinality(pending') + Cardinality(Uncounting')
      BY <2>1, <2>2, <3>2, <3>3, OverageSets
    <3> QED
      BY <2>1, <3>4 DEF OverageMatchesInvoices, Bumping, Uncounting
  <2> QED
    BY <1>3, <2>3, <2>4 DEF QueueOverage
<1>4. ASSUME NEW k \in Keys, BumpOverage(k) PROVE OverageMatchesInvoices'
  <2>1. /\ pending' = pending /\ refund' = refund /\ claim[k] = "bump" /\ k \in Bumping
        /\ claim' = [claim EXCEPT ![k] = "held"]
        /\ quota'.exists = quota.exists
        /\ quota.exists => quota'.overage = quota.overage + 1
    BY <1>4 DEF BumpOverage, Granted, Bumping, Uncounted
  <2>2. Uncounting' = Uncounting /\ Bumping' = Bumping \ {k}
    BY <2>1 DEF Uncounting, Bumping, Uncounted
  <2>3. Cardinality(Bumping') = Cardinality(Bumping) - 1
    BY <2>1, <2>2, OverageSets, FS_RemoveElement
  <2>4. quota.exists => quota.overage + Cardinality(Bumping) =
                          Cardinality(pending) + Cardinality(Uncounting)
    BY DEF OverageMatchesInvoices, Bumping, Uncounting
  <2>5. quota.exists => quota'.overage + Cardinality(Bumping') =
                          Cardinality(pending') + Cardinality(Uncounting')
    BY <2>1, <2>2, <2>3, <2>4, OverageSets
  <2> QED
    BY <2>1, <2>5 DEF OverageMatchesInvoices, Bumping, Uncounting
<1>5. ASSUME NEW k \in Keys, RefundDelete(k) PROVE OverageMatchesInvoices'
  <2>1. /\ quota' = quota /\ claim' = claim /\ claim[k] \in {"held", "skipped"}
        /\ refund[k] = "none"
    BY <1>5 DEF RefundDelete
  <2>2. k \notin Uncounting /\ k \notin Bumping
    BY <2>1 DEF Uncounting, Bumping, Uncounted
  <2>3. CASE pending' = pending /\ refund' = [refund EXCEPT ![k] = "restore"]
    <3>1. Bumping' = Bumping /\ Uncounting' = Uncounting
      BY <2>1, <2>3 DEF Bumping, Uncounting, Uncounted
    <3> QED
      BY <2>1, <2>3, <3>1, OverageFrame
  <2>4. CASE /\ k \in pending /\ pending' = pending \ {k}
             /\ refund' = [refund EXCEPT ![k] = "dec"]
    <3>1. Bumping' = Bumping /\ Uncounting' = Uncounting \union {k}
      BY <2>1, <2>4 DEF Bumping, Uncounting, Uncounted
    <3>2. /\ Cardinality(Uncounting') = Cardinality(Uncounting) + 1
          /\ Cardinality(pending') = Cardinality(pending) - 1
      BY <2>2, <2>4, <3>1, OverageSets, FS_AddElement, FS_RemoveElement
    <3>3. quota.exists => quota.overage + Cardinality(Bumping) =
                            Cardinality(pending) + Cardinality(Uncounting)
      BY DEF OverageMatchesInvoices, Bumping, Uncounting
    <3>4. quota.exists => quota'.overage + Cardinality(Bumping') =
                            Cardinality(pending') + Cardinality(Uncounting')
      BY <2>1, <3>1, <3>2, <3>3, OverageSets
    <3> QED
      BY <2>1, <3>4 DEF OverageMatchesInvoices, Bumping, Uncounting
  <2> QED
    BY <1>5, <2>3, <2>4 DEF RefundDelete
<1>6. ASSUME NEW k \in Keys, RefundUncount(k) PROVE OverageMatchesInvoices'
  <2>1. /\ pending' = pending /\ claim' = claim /\ k \in Uncounting
        /\ refund' = [refund EXCEPT ![k] = "none"] /\ quota'.exists = quota.exists
        /\ quota'.overage = OverageUncounted
    BY <1>6 DEF RefundUncount, Uncounting
  <2>2. Bumping' = Bumping /\ Uncounting' = Uncounting \ {k}
    BY <2>1 DEF Bumping, Uncounting, Uncounted
  <2>3. /\ Cardinality(Uncounting') = Cardinality(Uncounting) - 1
        /\ Cardinality(Uncounting') \in Nat
    BY <2>1, <2>2, OverageSets, FS_RemoveElement, FS_CardinalityType
  <2>4. quota.exists => quota'.overage = quota.overage - 1
    BY <1>0, <2>1, <2>3, OverageSets
    DEF OverageMatchesInvoices, OverageUncounted, Bumping, Uncounting
  <2>5. quota.exists => quota.overage + Cardinality(Bumping) =
                          Cardinality(pending) + Cardinality(Uncounting)
    BY DEF OverageMatchesInvoices, Bumping, Uncounting
  <2>6. quota.exists => quota'.overage + Cardinality(Bumping') =
                          Cardinality(pending') + Cardinality(Uncounting')
    BY <2>1, <2>2, <2>3, <2>4, <2>5, OverageSets
  <2> QED
    BY <2>1, <2>6 DEF OverageMatchesInvoices, Bumping, Uncounting
<1>7. ASSUME NEW k \in Keys, RefundRestore(k) \/ RefundPlan(k) PROVE OverageMatchesInvoices'
  <2>1. /\ pending' = pending /\ claim' = claim
        /\ quota'.exists = quota.exists /\ quota'.overage = quota.overage
        /\ \A j \in Keys : refund'[j] = "dec" <=> refund[j] = "dec"
    BY <1>7 DEF RefundRestore, RefundPlan
  <2>2. Bumping' = Bumping /\ Uncounting' = Uncounting
    BY <2>1 DEF Bumping, Uncounting, Uncounted
  <2> QED
    BY <2>1, <2>2, OverageFrame
<1>8. ~ResetPeriod /\ \A k \in Keys : ~CrashRefund(k)
  BY DEF ResetPeriod, CrashRefund
<1>9. CASE \E p \in Packs : ExpirePack(p)
  BY <1>9, OverageFrame DEF ExpirePack, calls, Bumping, Uncounting, Uncounted
<1> QED
  BY <1>1, <1>2, <1>3, <1>4, <1>5, <1>6, <1>7, <1>8, <1>9 DEF Next, ClaimStep, RefundStep

(***************************************************************************)
(* Within a period, and while no refund dies half way, the overage counter *)
(* is the number of queued items, whatever claims die between the two.     *)
(***************************************************************************)
THEOREM CounterMatchesQueue ==
    ASSUME MaxResets = 0, "refund" \notin Crashes
    PROVE  Spec => []OverageMatchesInvoices
<1>1. Init => OverageMatchesInvoices
  <2> SUFFICES ASSUME Init PROVE OverageMatchesInvoices
    OBVIOUS
  <2>1. /\ pending = {} /\ {k \in Keys : Uncounted(k)} = {}
        /\ {k \in Keys : refund[k] = "dec"} = {} /\ quota.overage = 0
    BY DEF Init, Uncounted
  <2> QED
    BY <2>1, FS_EmptySet DEF OverageMatchesInvoices
<1>2. PackInv /\ RowsAgree /\ OverageMatchesInvoices /\ [Next]_vars => OverageMatchesInvoices'
  BY StepKeepsOverage
<1> QED
  BY <1>1, <1>2, PackInvariance, RowsInvariance, PTL DEF Spec

-----------------------------------------------------------------------------
(***************************************************************************)
(* The ladder and its contract                                             *)
(***************************************************************************)
\* When a key is refunded once, its slot is where its rows say until it is
\* given back, and a refund that passes a row has found it empty.
Single ==
    \A k \in Keys :
        /\ claim[k] # "skipped"
        /\ claim[k] = "held" /\ back[k] = 0 =>
              /\ source[k] = "credits" <=> consumption[k] # NoPack
              /\ source[k] = "overage" <=> k \in pending
        /\ refund[k] \in {"restore", "plan"} => back[k] = 0 /\ k \notin pending
        /\ refund[k] = "plan" => consumption[k] = NoPack

LEMMA InitSingle == Init => Single
  BY DEF Init, Single

LEMMA StepKeepsSingle ==
    ASSUME MaxRefunds <= 1, ~AdminBypass, PackInv, RowsAgree, Single, [Next]_vars
    PROVE  Single'
<1> USE DEF PackInv, Packed, TypeOK, CallsAgree, RowsAgree, Single
<1>1. CASE UNCHANGED vars
  BY <1>1 DEF vars, ledger, calls
<1>2. ASSUME NEW k \in Keys, ClaimPlan(k) PROVE Single'
  BY <1>2 DEF ClaimPlan, Granted
<1>3. ASSUME NEW k \in Keys, LockPack(k) \/ DebitPack(k) \/ CrashClaim(k) PROVE Single'
  <2>1. /\ pending' = pending /\ source' = source /\ refund' = refund
        /\ back' = back /\ consumption' = consumption
    BY <1>3 DEF LockPack, DebitPack, CrashClaim, ledger
  <2>2. /\ \A j \in Keys \ {k} : claim'[j] = claim[j]
        /\ claim'[k] \in {"debit", "overage", "record", "lost"}
    BY <1>3 DEF LockPack, DebitPack, CrashClaim
  <2> QED
    BY <2>1, <2>2
<1>4. ASSUME NEW k \in Keys, RecordConsumption(k) PROVE Single'
  <2>1. pick[k] # NoPack /\ consumption[k] = NoPack /\ k \notin pending /\ refund[k] = "none"
    BY <1>4, PackNumbers DEF RecordConsumption
  <2>2. consumption' = [consumption EXCEPT ![k] = pick[k]]
    BY <1>4, <2>1 DEF RecordConsumption, Recorded
  <2> QED
    BY <1>4, <2>1, <2>2 DEF RecordConsumption, Granted
<1>5. ASSUME NEW k \in Keys, QueueOverage(k) PROVE Single'
  <2>1. refund[k] = "none"
    BY <1>5 DEF QueueOverage
  <2> QED
    BY <1>5, <2>1 DEF QueueOverage
<1>6. ASSUME NEW k \in Keys, BumpOverage(k) PROVE Single'
  BY <1>6 DEF BumpOverage, Granted
<1>7. ASSUME NEW k \in Keys, RefundDelete(k) PROVE Single'
  <2>1. /\ refunds[k] = 0 /\ back[k] = 0
        /\ claim' = claim /\ source' = source /\ consumption' = consumption
    BY <1>7, PlanAssumption DEF RefundDelete
  <2>2. CASE k \in pending
    BY <1>7, <2>1, <2>2 DEF RefundDelete, GaveBack
  <2>3. CASE k \notin pending
    BY <1>7, <2>1, <2>3 DEF RefundDelete
  <2> QED
    BY <2>2, <2>3
<1>8. ASSUME NEW k \in Keys, RefundUncount(k) \/ CrashRefund(k) PROVE Single'
  BY <1>8 DEF RefundUncount, CrashRefund, ledger
<1>9. ASSUME NEW k \in Keys, RefundRestore(k) PROVE Single'
  <2>1. CASE consumption[k] = NoPack
    BY <1>9, <2>1 DEF RefundRestore
  <2>2. CASE consumption[k] # NoPack
    BY <1>9, <2>2 DEF RefundRestore, GaveBack
  <2> QED
    BY <2>1, <2>2
<1>10. ASSUME NEW k \in Keys, RefundPlan(k) PROVE Single'
  BY <1>10 DEF RefundPlan, GaveBack
<1>11. \A k \in Keys : ~SkipClaim(k)
  BY DEF SkipClaim
<1>12. CASE ResetPeriod \/ \E p \in Packs : ExpirePack(p)
  BY <1>12 DEF ResetPeriod, ExpirePack, calls
<1> QED
  BY <1>1, <1>2, <1>3, <1>4, <1>5, <1>6, <1>7, <1>8, <1>9, <1>10, <1>11, <1>12
     DEF Next, ClaimStep, RefundStep

\* The pack whose unit key k holds.
UnitOf(k) == IF consumption[k] # NoPack THEN consumption[k]
             ELSE IF claim[k] \in {"record", "lost"} THEN pick[k] ELSE NoPack

\* What a key holds, without a choice among the packs.
Held(k) ==
    IF back[k] > 0 THEN Contract!Slot("refunded")
    ELSE IF claim[k] = "denied" THEN Contract!Slot("denied")
    ELSE IF source[k] = "plan" THEN Contract!Slot("plan")
    ELSE IF UnitOf(k) # NoPack THEN Contract!Credit(UnitOf(k))
    ELSE IF k \in pending THEN Contract!Slot("overage")
    ELSE Contract!None

LEMMA HeldIs == TypeOK /\ CallsAgree => \A k \in Keys : HeldSlot(k) = Held(k)
<1> SUFFICES ASSUME TypeOK, CallsAgree, NEW k \in Keys PROVE HeldSlot(k) = Held(k)
  OBVIOUS
<1>1. UnitOf(k) \in Packs \union {NoPack}
  BY DEF TypeOK, UnitOf
<1>2. \A p \in Packs : k \in Drawn(p) <=> UnitOf(k) = p
  BY PackNumbers DEF TypeOK, CallsAgree, Drawn, UnitOf
<1>3. CASE UnitOf(k) = NoPack
  <2>1. ~\E p \in Packs : k \in Drawn(p)
    BY <1>2, <1>3, PackNumbers
  <2> QED
    BY <1>3, <2>1 DEF HeldSlot, Held, Contract!Slot, Contract!None
<1>4. CASE UnitOf(k) # NoPack
  <2>1. UnitOf(k) \in Packs /\ k \in Drawn(UnitOf(k))
    BY <1>1, <1>2, <1>4
  <2>2. (CHOOSE p \in Packs : k \in Drawn(p)) = UnitOf(k)
    BY <1>2, <2>1
  <2> QED
    BY <1>4, <2>1, <2>2 DEF HeldSlot, Held, Contract!Slot, Contract!Credit
<1> QED
  BY <1>3, <1>4

LEMMA HeldBecomes == PackInv /\ [Next]_vars => (\A k \in Keys : HeldSlot(k) = Held(k))'
<1>1. PackInv => TypeOK /\ CallsAgree
  BY DEF PackInv, Packed
<1> QED
  BY <1>1, StepKeepsPackInv, HeldIs, PTL

slots == [k \in Keys |-> HeldSlot(k)]

\* A step of key k changes no slot but that of k.
Alone(k) == \A j \in Keys \ {k} : Held(j)' = Held(j)

LEMMA SlotsBecome ==
    ASSUME PackInv, [Next]_vars, NEW k \in Keys, Alone(k)
    PROVE  /\ slots[k] = Held(k)
           /\ slots' = [slots EXCEPT ![k] = Held(k)']
<1>1. \A j \in Keys : HeldSlot(j) = Held(j) /\ HeldSlot(j)' = Held(j)'
  BY HeldIs, HeldBecomes DEF PackInv, Packed
<1> QED
  BY <1>1 DEF slots, Alone

LEMMA SlotsStay ==
    ASSUME PackInv, [Next]_vars, \A k \in Keys : Held(k)' = Held(k)
    PROVE  slots' = slots
<1>1. \A j \in Keys : HeldSlot(j) = Held(j) /\ HeldSlot(j)' = Held(j)'
  BY HeldIs, HeldBecomes DEF PackInv, Packed
<1> QED
  BY <1>1 DEF slots

\* The LEAST in a refund never cuts anything off.
LEMMA RestoreIsWhole ==
    ASSUME PackInv, NEW k \in Keys, RefundRestore(k), consumption[k] # NoPack
    PROVE  remaining' = [remaining EXCEPT ![consumption[k]] = @ + 1]
<1> USE DEF PackInv, Packed, TypeOK
<1> PICK q \in Packs : q = consumption[k]
  OBVIOUS
<1>1. k \in Drawn(q) /\ remaining[q] \in Nat /\ PackSize[q] \in Nat
  BY PacksAssumption DEF Drawn
<1>2. /\ Cardinality(Drawn(q)) \in Nat
      /\ Cardinality(Drawn(q) \ {k}) \in Nat
      /\ Cardinality(Drawn(q) \ {k}) = Cardinality(Drawn(q)) - 1
  BY <1>1, DrawnFinite, FS_RemoveElement, FS_Subset, FS_CardinalityType
<1>3. remaining[q] + 1 <= PackSize[q]
  BY <1>1, <1>2 DEF PackConservation
<1> QED
  BY <1>1, <1>3 DEF RefundRestore

\* Every step takes a slot for one key from one pool, gives one back, or
\* changes no slot and no pool.
LEMMA StepImplements ==
    ASSUME MaxRefunds <= 1, MaxResets = 0, ~AdminBypass,
           PackInv, RowsAgree, Single, [Next]_vars
    PROVE  [Contract!Next]_(Contract!contractVars)
<1> USE DEF TypeOK, CallsAgree, RowsAgree
<1>0. TypeOK /\ CallsAgree /\ LockedPackHasUnit /\ PackConservation
  BY DEF PackInv, Packed
<1>1. ASSUME quota'.included = quota.included, remaining' = remaining,
             \A k \in Keys : Held(k)' = Held(k)
      PROVE  UNCHANGED Contract!contractVars
  BY <1>1, SlotsStay DEF Contract!contractVars, slots
<1>2. CASE UNCHANGED vars
  BY <1>1, <1>2 DEF vars, ledger, calls, Held, UnitOf
<1>3. ASSUME NEW k \in Keys, ClaimPlan(k) PROVE [Contract!Next]_(Contract!contractVars)
  <2>1. /\ remaining' = remaining /\ consumption' = consumption /\ pending' = pending
        /\ pick' = pick /\ back' = back /\ claim[k] = "idle"
    BY <1>3 DEF ClaimPlan
  <2>2. Held(k) = Contract!None
    BY <1>0, <2>1 DEF Held, UnitOf
  <2>3. CASE /\ quota.exists /\ quota.included > 0
             /\ quota' = [quota EXCEPT !.included = @ - 1] /\ Granted(k, "plan")
    <3>1. Alone(k) /\ Held(k)' = Contract!Slot("plan")
      BY <1>0, <2>1, <2>3 DEF Granted, Alone, Held, UnitOf
    <3>2. slots[k] = Contract!None /\ slots' = [slots EXCEPT ![k] = Contract!Slot("plan")]
      BY <2>2, <3>1, SlotsBecome
    <3>3. quota.included > 0 /\ quota'.included = quota.included - 1
      BY <1>0, <2>3
    <3>4. Contract!TakePlan(k)
      BY <2>1, <3>2, <3>3 DEF Contract!TakePlan, slots
    <3> QED
      BY <3>4 DEF Contract!Next
  <2>4. CASE quota' = quota /\ source' = source /\ claim' = [claim EXCEPT ![k] = "credits"]
    <3>1. \A j \in Keys : Held(j)' = Held(j)
      BY <1>0, <2>1, <2>4 DEF Held, UnitOf
    <3> QED
      BY <1>1, <2>1, <2>4, <3>1
  <2> QED
    BY <1>3, <2>3, <2>4 DEF ClaimPlan
<1>4. ASSUME NEW k \in Keys, LockPack(k) PROVE [Contract!Next]_(Contract!contractVars)
  <2>1. /\ quota' = quota /\ remaining' = remaining /\ consumption' = consumption
        /\ pending' = pending /\ back' = back /\ source' = source
        /\ claim[k] = "credits" /\ claim'[k] \in {"debit", "overage"}
        /\ \A j \in Keys \ {k} : claim'[j] = claim[j] /\ pick'[j] = pick[j]
    BY <1>0, <1>4 DEF LockPack, ledger
  <2>2. \A j \in Keys : Held(j)' = Held(j)
    BY <1>0, <2>1 DEF Held, UnitOf
  <2> QED
    BY <1>1, <2>1, <2>2
<1>5. ASSUME NEW k \in Keys, DebitPack(k) PROVE [Contract!Next]_(Contract!contractVars)
  <2> PICK p : p = pick[k]
    OBVIOUS
  <2>1. /\ quota' = quota /\ consumption' = consumption /\ pending' = pending /\ pick' = pick
        /\ back' = back /\ source' = source /\ claim[k] = "debit"
        /\ claim' = [claim EXCEPT ![k] = "record"]
        /\ remaining' = [remaining EXCEPT ![p] = @ - 1]
    BY <1>5 DEF DebitPack
  <2>2. p \in Packs /\ remaining[p] > 0 /\ consumption[k] = NoPack /\ p # NoPack
    BY <1>0, <2>1, PackNumbers DEF LockedPackHasUnit
  <2>3. Held(k) = Contract!None /\ Held(k)' = Contract!Credit(p) /\ Alone(k)
    BY <1>0, <2>1, <2>2 DEF Held, UnitOf, Alone
  <2>4. slots[k] = Contract!None /\ slots' = [slots EXCEPT ![k] = Contract!Credit(p)]
    BY <2>3, SlotsBecome
  <2>5. Contract!TakeCredit(k, p)
    BY <2>1, <2>2, <2>4 DEF Contract!TakeCredit, slots
  <2> QED
    BY <2>2, <2>5 DEF Contract!Next
<1>6. ASSUME NEW k \in Keys, RecordConsumption(k) PROVE [Contract!Next]_(Contract!contractVars)
  <2>1. /\ quota' = quota /\ remaining' = remaining /\ pending' = pending /\ back' = back
        /\ claim[k] = "record" /\ consumption[k] = NoPack /\ pick[k] # NoPack
        /\ consumption' = [consumption EXCEPT ![k] = pick[k]]
        /\ pick' = [pick EXCEPT ![k] = NoPack] /\ Granted(k, "credits")
    BY <1>0, <1>6, PackNumbers DEF RecordConsumption, Recorded
  <2>2. \A j \in Keys : Held(j)' = Held(j)
    BY <1>0, <2>1 DEF Held, UnitOf, Granted
  <2> QED
    BY <1>1, <2>1, <2>2
<1>7. ASSUME NEW k \in Keys, QueueOverage(k) PROVE [Contract!Next]_(Contract!contractVars)
  <2>1. /\ quota' = quota /\ remaining' = remaining /\ consumption' = consumption
        /\ pick' = pick /\ back' = back /\ source' = source /\ claim[k] = "overage"
    BY <1>7 DEF QueueOverage
  <2>2. Held(k) = Contract!None
    BY <1>0, <2>1 DEF Held, UnitOf
  <2>3. CASE pending' = pending /\ claim' = [claim EXCEPT ![k] = "denied"]
    <3>1. Held(k)' = Contract!Slot("denied") /\ Alone(k)
      BY <1>0, <2>1, <2>3 DEF Held, UnitOf, Alone
    <3>2. slots[k] = Contract!None /\ slots' = [slots EXCEPT ![k] = Contract!Slot("denied")]
      BY <2>2, <3>1, SlotsBecome
    <3>3. Contract!Deny(k)
      BY <2>1, <3>2 DEF Contract!Deny, slots
    <3> QED
      BY <3>3 DEF Contract!Next
  <2>4. CASE pending' = pending \union {k} /\ claim' = [claim EXCEPT ![k] = "bump"]
    <3>1. Held(k)' = Contract!Slot("overage") /\ Alone(k)
      BY <1>0, <2>1, <2>4 DEF Held, UnitOf, Alone
    <3>2. slots[k] = Contract!None /\ slots' = [slots EXCEPT ![k] = Contract!Slot("overage")]
      BY <2>2, <3>1, SlotsBecome
    <3>3. Contract!TakeOverage(k)
      BY <2>1, <3>2 DEF Contract!TakeOverage, slots
    <3> QED
      BY <3>3 DEF Contract!Next
  <2> QED
    BY <1>7, <2>3, <2>4 DEF QueueOverage
<1>8. ASSUME NEW k \in Keys, BumpOverage(k) PROVE [Contract!Next]_(Contract!contractVars)
  <2>1. /\ quota'.included = quota.included /\ remaining' = remaining
        /\ consumption' = consumption /\ pending' = pending /\ pick' = pick /\ back' = back
        /\ claim[k] = "bump" /\ Granted(k, "overage")
    BY <1>0, <1>8 DEF BumpOverage
  <2>2. \A j \in Keys : Held(j)' = Held(j)
    BY <1>0, <2>1 DEF Held, UnitOf, Granted
  <2> QED
    BY <1>1, <2>1, <2>2
<1>9. ASSUME NEW k \in Keys, CrashClaim(k) PROVE [Contract!Next]_(Contract!contractVars)
  <2>1. /\ quota' = quota /\ remaining' = remaining /\ consumption' = consumption
        /\ pending' = pending /\ back' = back /\ source' = source
        /\ claim[k] \in {"credits", "debit", "record", "overage", "bump"}
        /\ claim' = [claim EXCEPT ![k] = "lost"]
        /\ pick' = [pick EXCEPT ![k] = IF claim[k] = "record" THEN @ ELSE NoPack]
    BY <1>9 DEF CrashClaim, ledger
  <2>2. \A j \in Keys : Held(j)' = Held(j)
    BY <1>0, <2>1 DEF Held, UnitOf
  <2> QED
    BY <1>1, <2>1, <2>2
<1>10. ASSUME NEW k \in Keys, RefundDelete(k) PROVE [Contract!Next]_(Contract!contractVars)
  <2>1. /\ quota' = quota /\ remaining' = remaining /\ consumption' = consumption
        /\ claim' = claim /\ pick' = pick /\ source' = source
        /\ claim[k] = "held" /\ refunds[k] = 0 /\ back[k] = 0
    BY <1>0, <1>10, PlanAssumption DEF RefundDelete, Single
  <2>2. CASE k \in pending /\ pending' = pending \ {k} /\ back' = [back EXCEPT ![k] = @ + 1]
    <3>1. source[k] = "overage" /\ consumption[k] = NoPack
      BY <2>1, <2>2 DEF Single
    <3>2. Held(k) = Contract!Slot("overage") /\ Held(k)' = Contract!Slot("refunded") /\ Alone(k)
      BY <1>0, <2>1, <2>2, <3>1 DEF Held, UnitOf, Alone
    <3>3. /\ slots[k] = Contract!Slot("overage")
          /\ slots' = [slots EXCEPT ![k] = Contract!Slot("refunded")]
      BY <3>2, SlotsBecome
    <3>4. Contract!GiveBack(k)
      BY <2>1, <3>3 DEF Contract!GiveBack, slots
    <3> QED
      BY <3>4 DEF Contract!Next
  <2>3. CASE pending' = pending /\ back' = back
    <3>1. \A j \in Keys : Held(j)' = Held(j)
      BY <2>1, <2>3 DEF Held, UnitOf
    <3> QED
      BY <1>1, <2>1, <3>1
  <2> QED
    BY <1>10, <2>2, <2>3 DEF RefundDelete, GaveBack
<1>11. ASSUME NEW k \in Keys, RefundUncount(k) \/ CrashRefund(k)
       PROVE  [Contract!Next]_(Contract!contractVars)
  <2>1. /\ quota'.included = quota.included /\ remaining' = remaining
        /\ consumption' = consumption /\ pending' = pending /\ pick' = pick /\ back' = back
        /\ claim' = claim /\ source' = source
    BY <1>0, <1>11 DEF RefundUncount, CrashRefund, ledger
  <2>2. \A j \in Keys : Held(j)' = Held(j)
    BY <2>1 DEF Held, UnitOf
  <2> QED
    BY <1>1, <2>1, <2>2
<1>12. ASSUME NEW k \in Keys, RefundRestore(k) PROVE [Contract!Next]_(Contract!contractVars)
  <2> PICK p : p = consumption[k]
    OBVIOUS
  <2>1. /\ quota' = quota /\ pending' = pending /\ pick' = pick /\ claim' = claim
        /\ source' = source /\ back[k] = 0 /\ k \notin pending
    BY <1>12 DEF RefundRestore, Single
  <2>2. CASE p = NoPack
    <3>1. consumption' = consumption /\ remaining' = remaining /\ back' = back
      BY <1>12, <2>2 DEF RefundRestore
    <3>2. \A j \in Keys : Held(j)' = Held(j)
      BY <2>1, <3>1 DEF Held, UnitOf
    <3> QED
      BY <1>1, <2>1, <3>1, <3>2
  <2>3. CASE p # NoPack
    <3>1. /\ consumption' = [consumption EXCEPT ![k] = NoPack]
          /\ back' = [back EXCEPT ![k] = @ + 1] /\ p \in Packs /\ claim[k] = "held"
      BY <1>0, <1>12, <2>3 DEF RefundRestore, GaveBack
    <3>2. remaining' = [remaining EXCEPT ![p] = @ + 1]
      BY <1>12, <2>3, RestoreIsWhole
    <3>3. source[k] = "credits"
      BY <2>1, <2>3, <3>1 DEF Single
    <3>4. Held(k) = Contract!Credit(p) /\ Held(k)' = Contract!Slot("refunded") /\ Alone(k)
      BY <1>0, <2>1, <2>3, <3>1, <3>3 DEF Held, UnitOf, Alone
    <3>5. /\ slots[k] = Contract!Credit(p)
          /\ slots' = [slots EXCEPT ![k] = Contract!Slot("refunded")]
      BY <3>4, SlotsBecome
    <3>6. slots[k].tier = "credits" /\ slots[k].pack = p
      BY <3>5 DEF Contract!Credit
    <3>7. Contract!GiveBack(k)
      BY <2>1, <3>2, <3>5, <3>6 DEF Contract!GiveBack, slots
    <3> QED
      BY <3>7 DEF Contract!Next
  <2> QED
    BY <2>2, <2>3
<1>13. ASSUME NEW k \in Keys, RefundPlan(k) PROVE [Contract!Next]_(Contract!contractVars)
  <2>1. /\ remaining' = remaining /\ consumption' = consumption /\ pending' = pending
        /\ pick' = pick /\ claim' = claim /\ source' = source
        /\ back[k] = 0 /\ k \notin pending /\ consumption[k] = NoPack /\ claim[k] = "held"
    BY <1>0, <1>13 DEF RefundPlan, Single
  <2>2. CASE quota' = quota /\ back' = back
    <3>1. \A j \in Keys : Held(j)' = Held(j)
      BY <2>1, <2>2 DEF Held, UnitOf
    <3> QED
      BY <1>1, <2>1, <2>2, <3>1
  <2>3. CASE quota' = [quota EXCEPT !.included = @ + 1] /\ back' = [back EXCEPT ![k] = @ + 1]
    <3>1. source[k] = "plan"
      BY <1>0, <2>1 DEF Single, Sources
    <3>2. Held(k) = Contract!Slot("plan") /\ Held(k)' = Contract!Slot("refunded") /\ Alone(k)
      BY <1>0, <2>1, <2>3, <3>1 DEF Held, UnitOf, Alone
    <3>3. /\ slots[k] = Contract!Slot("plan")
          /\ slots' = [slots EXCEPT ![k] = Contract!Slot("refunded")]
      BY <3>2, SlotsBecome
    <3>4. quota'.included = quota.included + 1
      BY <1>0, <2>3
    <3>5. Contract!GiveBack(k)
      BY <2>1, <3>3, <3>4 DEF Contract!GiveBack, slots
    <3> QED
      BY <3>5 DEF Contract!Next
  <2> QED
    BY <1>13, <2>2, <2>3 DEF RefundPlan, GaveBack
<1>14. ~ResetPeriod /\ \A k \in Keys : ~SkipClaim(k)
  BY <1>0 DEF ResetPeriod, SkipClaim
<1>15. CASE \E p \in Packs : ExpirePack(p)
  BY <1>1, <1>15 DEF ExpirePack, calls, Held, UnitOf
<1> QED
  BY <1>2, <1>3, <1>4, <1>5, <1>6, <1>7, <1>8, <1>9, <1>10, <1>11, <1>12, <1>13, <1>14, <1>15
     DEF Next, ClaimStep, RefundStep

LEMMA ContractInit == Init => Contract!Init
<1> SUFFICES ASSUME Init PROVE Contract!Init
  OBVIOUS
<1>1. TypeOK /\ CallsAgree
  BY InitPackInv DEF PackInv, Packed
<1>2. \A k \in Keys : Held(k) = Contract!None
  BY DEF Init, Held, UnitOf
<1>3. \A k \in Keys : HeldSlot(k) = Contract!None
  BY <1>1, <1>2, HeldIs
<1> QED
  BY <1>3 DEF Init, Contract!Init

(***************************************************************************)
(* When every claimed key is refunded at most once within a period, the    *)
(* statements of the ladder, with the claims and refunds that die between  *)
(* them, implement the contract: no slot is minted, moved or given twice.  *)
(***************************************************************************)
THEOREM Implements ==
    ASSUME MaxRefunds <= 1, MaxResets = 0, ~AdminBypass
    PROVE  Spec => ImplementsContract
<1>1. PackInv /\ RowsAgree /\ Single /\ [Next]_vars => Single'
  BY StepKeepsSingle
<1>2. PackInv /\ RowsAgree /\ Single /\ [Next]_vars
        => [Contract!Next]_(Contract!contractVars)
  BY StepImplements
<1> QED
  BY <1>1, <1>2, InitSingle, ContractInit, PackInvariance, RowsInvariance, PTL
     DEF Spec, ImplementsContract, Contract!Spec

=============================================================================
