---------------------------- MODULE ChargeProofs ----------------------------
(***************************************************************************)
(* The fairness debounce debits a day at most once, a refusal leaves no    *)
(* trace in the row of its day, and the monthly limit is a ceiling: for    *)
(* every number of calls, days and products and under every setting of the *)
(* server.                                                                 *)
(***************************************************************************)
EXTENDS ChargeAction, FiniteSetTheorems, TLAPS

USE DEF counter, dayRow

\* The call has opened its day and is answering for it: it is about to claim,
\* to unwind, or it has been granted a slot.
Answers(c) == at[c] \in {"claim", "undo", "unwind"} \/ claim[c] # "none"

\* A call that has not reached the fairness row has not touched it, one that
\* was granted no slot holds none, and only a refused one has unwound.
Untouched ==
    \A c \in Calls :
        /\ at[c] \in {"idle", "gated", "counted"} => due[c] = None
        /\ at[c] \in {"idle", "gated", "counted", "claim", "undo", "unwind"} =>
             claim[c] = "none"
        /\ at[c] # "refused" => unwound[c] = None

\* At most one call answers for a day, and its row is then not empty.
OneAnswers ==
    \A d \in Days :
        \/ UnwoundOnto(d)
        \/ \A b, c \in Calls :
             /\ Product[b] = Product[c] /\ due[b] = d /\ due[c] = d
             /\ Answers(b) /\ Answers(c)
             => b = c /\ seen[Product[c]][d] > 0

DayInv == TypeOK /\ Untouched /\ OneAnswers

-----------------------------------------------------------------------------
LEMMA InitDay == Init => DayInv
<1> SUFFICES ASSUME Init PROVE DayInv
  OBVIOUS
<1>1. TypeOK
  <2>1. \A c \in Calls : Product[c] \in Products
    BY DEF Products
  <2> QED
    BY <2>1, ClockAssumption DEF Init, TypeOK, Phases
<1>2. Untouched /\ OneAnswers
  BY ClockAssumption DEF Init, Untouched, OneAnswers, Answers
<1> QED
  BY <1>1, <1>2 DEF DayInv

LEMMA KeepsTypes == TypeOK /\ [Next]_vars => TypeOK'
<1> SUFFICES ASSUME TypeOK, [Next]_vars PROVE TypeOK'
  OBVIOUS
<1> USE DEF TypeOK, Phases, Goes
<1>1. Month(today) \in Months /\ today + 1 \in Nat
  BY ClockAssumption DEF Months
<1>2. \A n \in Nat : Lower(n) \in Nat
  BY DEF Lower
<1>3. \A c \in Calls : Product[c] \in Products
  BY DEF Products
<1>4. ASSUME NEW c \in Calls, DecrementUser(c)
      PROVE  /\ used' \in [Months -> Nat]
             /\ back' \in [Calls -> Months \union {None}]
  BY <1>1, <1>2, <1>4 DEF DecrementUser
<1>5. ASSUME NEW c \in Calls, CountAction(c) PROVE TypeOK'
  BY <1>1, <1>5 DEF CountAction
<1>6. ASSUME NEW c \in Calls, Debounce(c) PROVE TypeOK'
  BY <1>3, <1>6 DEF Debounce
<1>7. ASSUME NEW c \in Calls, UndoCount(c) \/ RefundCount(c) PROVE TypeOK'
  BY <1>4, <1>7 DEF UndoCount, RefundCount
<1>8. ASSUME NEW c \in Calls, Unwind(c) PROVE TypeOK'
  <2>1. /\ seen' \in [Products -> [Days -> Nat]]
        /\ unwound' \in [Calls -> Days \union {None}]
    <3>1. CASE UNCHANGED <<seen, unwound>>
      BY <3>1
    <3>2. CASE /\ seen' = [seen EXCEPT ![Product[c]][today] = Lower(@)]
               /\ unwound' = [unwound EXCEPT ![c] = today]
      BY <1>2, <1>3, <3>2
    <3> QED
      BY <1>8, <3>1, <3>2 DEF Unwind, UnwindRow
  <2> QED
    BY <1>8, <2>1 DEF Unwind
<1>9. ASSUME NEW c \in Calls,
             \/ PassGates(c) \/ SkipCount(c) \/ SkipDebounce(c)
             \/ ClaimGranted(c) \/ ClaimRefused(c) \/ Perform(c)
             \/ RefundQuota(c) \/ Crash(c)
      PROVE  TypeOK'
  BY <1>9 DEF PassGates, SkipCount, SkipDebounce, ClaimGranted, ClaimRefused,
              Perform, RefundQuota, Crash
<1>10. CASE NextDay
  BY <1>10 DEF NextDay
<1>11. CASE UNCHANGED vars
  BY <1>11 DEF vars
<1> QED
  BY <1>5, <1>6, <1>7, <1>8, <1>9, <1>10, <1>11 DEF Next, Charge, RefundAction

\* Where the row, the calls' days and who answers are unchanged, or a call
\* only stops answering, nothing is lost.
LEMMA NobodyNew ==
    ASSUME DayInv, TypeOK',
           due' = due, seen' = seen, unwound' = unwound,
           \A c \in Calls : Answers(c)' => Answers(c)
    PROVE  OneAnswers'
  BY DEF DayInv, OneAnswers, UnwoundOnto

LEMMA KeepsUntouched == DayInv /\ [Next]_vars => Untouched'
<1> SUFFICES ASSUME DayInv, [Next]_vars PROVE Untouched'
  OBVIOUS
<1> USE DEF DayInv, TypeOK, Untouched, Goes
<1>1. ASSUME NEW c \in Calls,
             PassGates(c) \/ CountAction(c) \/ SkipCount(c)
      PROVE  Untouched'
  BY <1>1 DEF PassGates, CountAction, SkipCount
<1>2. ASSUME NEW c \in Calls,
             Debounce(c) \/ SkipDebounce(c) \/ ClaimGranted(c) \/ ClaimRefused(c)
      PROVE  Untouched'
  BY <1>2 DEF Debounce, SkipDebounce, ClaimGranted, ClaimRefused
<1>3. ASSUME NEW c \in Calls,
             \/ UndoCount(c) \/ Perform(c) \/ RefundQuota(c)
             \/ RefundCount(c) \/ Crash(c)
      PROVE  Untouched'
  BY <1>3 DEF UndoCount, Perform, RefundQuota, RefundCount, Crash, Ended
<1>4. ASSUME NEW c \in Calls, Unwind(c) PROVE Untouched'
  BY <1>4 DEF Unwind, UnwindRow
<1>5. CASE NextDay \/ UNCHANGED vars
  BY <1>5 DEF NextDay, vars
<1> QED
  BY <1>1, <1>2, <1>3, <1>4, <1>5 DEF Next, Charge, RefundAction

\* The first call of a day finds an empty row, so nobody answers for it yet.
LEMMA DebounceKeeps ==
    ASSUME DayInv, TypeOK', NEW c \in Calls, Debounce(c)
    PROVE  OneAnswers'
<1> USE DEF DayInv, TypeOK, Goes
<1>1. unwound' = unwound /\ claim' = claim
  BY DEF Debounce
<1>2. due[c] = None /\ claim[c] = "none" /\ due' = [due EXCEPT ![c] = today]
  BY DEF Debounce, Untouched
<1>3. \A b \in Calls \ {c} : /\ due'[b] = due[b] /\ at'[b] = at[b]
  BY DEF Debounce
<1>4. Product[c] \in Products
  BY DEF Products
<1>5. /\ \A p \in Products, d \in Days : seen'[p][d] >= seen[p][d]
      /\ seen'[Product[c]][today] = seen[Product[c]][today] + 1
  BY <1>4 DEF Debounce
<1>6. Answers(c)' => seen[Product[c]][today] = 0
  BY <1>1, <1>2, <1>4, <1>5 DEF Answers, Debounce, FreeRide
<1> SUFFICES ASSUME NEW d \in Days, ~UnwoundOnto(d)',
                    NEW a \in Calls, NEW b \in Calls,
                    Product[a] = Product[b], due'[a] = d, due'[b] = d,
                    Answers(a)', Answers(b)'
             PROVE  a = b /\ seen'[Product[b]][d] > 0
  BY DEF OneAnswers
<1>7. ~UnwoundOnto(d)
  <2> SUFFICES ASSUME NEW e \in Calls, unwound[e] = d, due[e] # d
               PROVE  UnwoundOnto(d)'
    BY DEF UnwoundOnto
  <2>1. CASE e # c
    BY <1>1, <1>3, <2>1 DEF UnwoundOnto
  <2>2. CASE e = c
    BY <1>1, <2>2, ClockAssumption DEF Debounce, Untouched
  <2> QED
    BY <2>1, <2>2
<1>8. CASE a # c /\ b # c
  <2>1. due[a] = d /\ due[b] = d /\ Answers(a) /\ Answers(b)
    BY <1>1, <1>3, <1>8 DEF Answers
  <2>2. a = b /\ seen[Product[b]][d] > 0
    BY <1>7, <2>1 DEF OneAnswers
  <2>3. Product[b] \in Products
    BY DEF Products
  <2> QED
    BY <1>5, <2>2, <2>3
<1>9. CASE a = c /\ b = c
  BY <1>2, <1>4, <1>5, <1>9
<1>10. ASSUME NEW e \in Calls, e # c, Product[e] = Product[c], due'[e] = today,
              Answers(e)', Answers(c)', d = today
       PROVE  FALSE
  <2>1. due[e] = d /\ Answers(e)
    BY <1>1, <1>3, <1>10 DEF Answers
  <2>2. seen[Product[c]][d] > 0
    BY <1>7, <1>10, <2>1 DEF OneAnswers
  <2> QED
    BY <1>6, <1>10, <2>2
<1>11. due'[c] = today
  BY <1>2
<1> QED
  BY <1>8, <1>9, <1>10, <1>11

\* The call that answers alone gives the day back, or marks another as hit.
LEMMA UnwindKeeps ==
    ASSUME DayInv, TypeOK', NEW c \in Calls, Unwind(c)
    PROVE  OneAnswers'
<1> USE DEF DayInv, TypeOK, Goes
<1>1. due' = due /\ claim' = claim /\ at' = [at EXCEPT ![c] = "refused"]
  BY DEF Unwind
<1>2. \A b \in Calls : Answers(b)' => Answers(b)
  BY <1>1 DEF Answers
<1>3. CASE seen' = seen /\ unwound' = unwound
  BY <1>1, <1>2, <1>3, NobodyNew
<1>4. CASE /\ seen' = [seen EXCEPT ![Product[c]][today] = Lower(@)]
           /\ unwound' = [unwound EXCEPT ![c] = today]
  <2> SUFFICES ASSUME NEW d \in Days, ~UnwoundOnto(d)',
                      NEW a \in Calls, NEW b \in Calls,
                      Product[a] = Product[b], due'[a] = d, due'[b] = d,
                      Answers(a)', Answers(b)'
               PROVE  a = b /\ seen'[Product[b]][d] > 0
    BY DEF OneAnswers
  <2>1. d = today => due[c] = d
    BY <1>1, <1>4 DEF UnwoundOnto
  <2>2. CASE UnwoundOnto(d)
    \* only c itself could have unwound onto d, and it is unwinding now
    <3>1. PICK e \in Calls : unwound[e] = d /\ due[e] # d
      BY <2>2 DEF UnwoundOnto
    <3> QED
      BY <1>1, <1>4, <3>1, ClockAssumption DEF UnwoundOnto, Unwind, UnwindRow,
                                                Untouched
  <2>3. CASE ~UnwoundOnto(d)
    <3>1. a = b /\ seen[Product[b]][d] > 0
      BY <1>1, <1>2, <2>3 DEF OneAnswers
    <3>2. CASE d # today \/ Product[b] # Product[c]
      BY <1>4, <3>1, <3>2 DEF Products
    <3>3. CASE d = today /\ Product[b] = Product[c]
      \* c answers for the day, so it is b; but it no longer answers
      <4>1. due[c] = d /\ Answers(c) /\ claim[c] = claim'[c]
        BY <1>1, <2>1, <3>3 DEF Answers, Unwind, UnwindRow
      <4>2. due[b] = d /\ Answers(b)
        BY <1>1, <1>2
      <4>3. b = c
        BY <2>3, <3>3, <4>1, <4>2 DEF OneAnswers
      <4> QED
        BY <1>1, <3>1, <4>3 DEF Answers, Unwind, UnwindRow, Untouched
    <3> QED
      BY <3>1, <3>2, <3>3
  <2> QED
    BY <2>2, <2>3
<1> QED
  BY <1>3, <1>4 DEF Unwind, UnwindRow

LEMMA KeepsDay == DayInv /\ [Next]_vars => DayInv'
<1> SUFFICES ASSUME DayInv, [Next]_vars PROVE DayInv'
  OBVIOUS
<1>1. TypeOK' /\ Untouched'
  BY KeepsTypes, KeepsUntouched DEF DayInv
<1>2. OneAnswers'
  <2> USE DEF DayInv, TypeOK, Goes
  <2>1. ASSUME NEW c \in Calls, Debounce(c) PROVE OneAnswers'
    BY <1>1, <2>1, DebounceKeeps
  <2>2. ASSUME NEW c \in Calls, Unwind(c) PROVE OneAnswers'
    BY <1>1, <2>2, UnwindKeeps
  <2>3. ASSUME NEW c \in Calls,
               \/ PassGates(c) \/ CountAction(c) \/ SkipCount(c)
               \/ Perform(c) \/ RefundCount(c) \/ Crash(c)
        PROVE  OneAnswers'
    <3>1. /\ due' = due /\ seen' = seen /\ unwound' = unwound
          /\ \A b \in Calls : Answers(b)' => Answers(b)
      BY <2>3 DEF PassGates, CountAction, SkipCount, Perform, RefundCount,
                  Crash, Answers
    <3> QED
      BY <1>1, <3>1, NobodyNew
  <2>4. ASSUME NEW c \in Calls,
               \/ ClaimGranted(c) \/ ClaimRefused(c) \/ UndoCount(c)
               \/ RefundQuota(c)
        PROVE  OneAnswers'
    <3>1. /\ due' = due /\ seen' = seen /\ unwound' = unwound
          /\ \A b \in Calls : Answers(b)' => Answers(b)
      BY <2>4 DEF ClaimGranted, ClaimRefused, UndoCount, RefundQuota, Answers
    <3> QED
      BY <1>1, <3>1, NobodyNew
  <2>5. ASSUME NEW c \in Calls, SkipDebounce(c) PROVE OneAnswers'
    \* a call that skips the fairness row has no day to answer for
    <3>1. /\ due' = due /\ seen' = seen /\ unwound' = unwound /\ claim' = claim
          /\ due[c] = None
      BY <2>5 DEF SkipDebounce, Untouched
    <3>2. \A b \in Calls \ {c} : Answers(b)' => Answers(b)
      BY <2>5, <3>1 DEF SkipDebounce, Answers
    <3> QED
      BY <3>1, <3>2, ClockAssumption DEF OneAnswers, UnwoundOnto
  <2>6. CASE NextDay \/ UNCHANGED vars
    <3>1. /\ due' = due /\ seen' = seen /\ unwound' = unwound
          /\ \A b \in Calls : Answers(b)' => Answers(b)
      BY <2>6 DEF NextDay, vars, Answers
    <3> QED
      BY <1>1, <3>1, NobodyNew
  <2> QED
    BY <2>1, <2>2, <2>3, <2>4, <2>5, <2>6 DEF Next, Charge, RefundAction
<1> QED
  BY <1>1, <1>2 DEF DayInv

LEMMA AtMostOne ==
    ASSUME NEW S, \A a, b \in S : a = b
    PROVE  Cardinality(S) <= 1
<1>1. CASE S = {}
  BY <1>1, FS_EmptySet
<1>2. CASE S # {}
  <2>1. PICK a \in S : TRUE
    BY <1>2
  <2>2. S = {a}
    BY <2>1
  <2> QED
    BY <2>2, FS_Singleton
<1> QED
  BY <1>1, <1>2

LEMMA DayInvSuffices == DayInv => OneDebitPerDay
<1> SUFFICES ASSUME DayInv, NEW p \in Products, NEW d \in Days, ~UnwoundOnto(d)
             PROVE  Cardinality(Debited(p, d)) <= 1
  BY DEF OneDebitPerDay
<1>1. \A a, b \in Debited(p, d) : a = b
  BY DEF DayInv, OneAnswers, Answers, Debited, Opened
<1> QED
  BY <1>1, AtMostOne

-----------------------------------------------------------------------------
\* Type correctness of charges and refunds.
THEOREM TypeCorrect == Spec => []TypeOK
<1>1. Init => TypeOK
  BY InitDay DEF DayInv
<1> QED
  BY <1>1, KeepsTypes, PTL DEF Spec

\* A day is debited at most once per product (charge-action.ts), however many
\* calls race, are refused, fail, are refunded or die.
THEOREM OneDebit == Spec => []OneDebitPerDay
  BY InitDay, KeepsDay, DayInvSuffices, PTL DEF Spec

-----------------------------------------------------------------------------
(***************************************************************************)
(* The user's monthly limit                                                *)
(***************************************************************************)
\* The calls whose increment of the month's row stands.
Holding(m) == {c \in Calls : counted[c] = m /\ back[c] = None}

\* A call counts once, and gives its count back once.
CountsOnce ==
    \A c \in Calls :
        /\ at[c] \in {"idle", "gated"} => counted[c] = None
        /\ at[c] \in {"idle", "gated", "counted", "claim", "undo", "perform", "giveback",
                      "uncount"} => back[c] = None

\* The counter of a month is never below the calls that hold a count.
Ceiling(m) ==
    /\ Cardinality(Holding(m)) <= used[m]
    /\ env.abuse = "enforce" => Cardinality(Admitted(m)) <= Limit

\* However many calls may come, finitely many have counted.
Counters == {c \in Calls : counted[c] # None}

CeilingInv == IsFiniteSet(Counters) /\ CountsOnce /\ \A m \in Months : MonthStrayed(m) \/ Ceiling(m)

LEMMA MonthSets ==
    ASSUME CeilingInv, NEW m \in Months
    PROVE  /\ IsFiniteSet(Holding(m)) /\ IsFiniteSet(Admitted(m))
           /\ Cardinality(Holding(m)) \in Nat /\ Cardinality(Admitted(m)) \in Nat
           /\ Cardinality(Admitted(m)) <= Cardinality(Holding(m))
<1>1. Holding(m) \subseteq Counters /\ Admitted(m) \subseteq Holding(m)
  BY ClockAssumption DEF Holding, Admitted, Counters
<1>2. IsFiniteSet(Counters)
  BY DEF CeilingInv
<1> QED
  BY <1>1, <1>2, FS_Subset, FS_CardinalityType

LEMMA KeepsCountsOnce == TypeOK /\ CountsOnce /\ [Next]_vars => CountsOnce'
<1> SUFFICES ASSUME TypeOK, CountsOnce, [Next]_vars PROVE CountsOnce'
  OBVIOUS
<1> USE DEF TypeOK, CountsOnce, Goes
<1>1. ASSUME NEW c \in Calls,
             PassGates(c) \/ CountAction(c) \/ SkipCount(c) \/ Debounce(c) \/ SkipDebounce(c)
      PROVE  CountsOnce'
  BY <1>1 DEF PassGates, CountAction, SkipCount, Debounce, SkipDebounce
<1>2. ASSUME NEW c \in Calls,
             ClaimGranted(c) \/ ClaimRefused(c) \/ Perform(c) \/ RefundQuota(c) \/ Crash(c)
      PROVE  CountsOnce'
  BY <1>2 DEF ClaimGranted, ClaimRefused, Perform, RefundQuota, Crash
<1>3. ASSUME NEW c \in Calls, UndoCount(c) \/ RefundCount(c) PROVE CountsOnce'
  BY <1>3 DEF UndoCount, RefundCount, DecrementUser
<1>4. ASSUME NEW c \in Calls, Unwind(c) PROVE CountsOnce'
  BY <1>4 DEF Unwind, UnwindRow
<1>5. CASE NextDay \/ UNCHANGED vars
  BY <1>5 DEF NextDay, vars
<1> QED
  BY <1>1, <1>2, <1>3, <1>4, <1>5 DEF Next, Charge, RefundAction

LEMMA KeepsCounters == TypeOK /\ IsFiniteSet(Counters) /\ [Next]_vars => IsFiniteSet(Counters')
<1> SUFFICES ASSUME TypeOK, IsFiniteSet(Counters), [Next]_vars PROVE IsFiniteSet(Counters')
  OBVIOUS
<1>1. ASSUME NEW c \in Calls, CountAction(c) PROVE IsFiniteSet(Counters')
  <2>1. counted' = [counted EXCEPT ![c] = Month(today)] \/ counted' = counted
    BY <1>1 DEF CountAction
  <2>2. Counters' \subseteq Counters \cup {c}
    BY <2>1 DEF Counters, TypeOK
  <2>3. IsFiniteSet(Counters \cup {c})
    BY FS_AddElement
  <2> QED
    BY <2>2, <2>3, FS_Subset
<1>2. ASSUME NEW c \in Calls,
             \/ PassGates(c) \/ SkipCount(c) \/ Debounce(c) \/ SkipDebounce(c) \/ ClaimGranted(c)
             \/ ClaimRefused(c) \/ UndoCount(c) \/ Unwind(c) \/ Perform(c) \/ RefundQuota(c)
             \/ RefundCount(c) \/ Crash(c)
      PROVE  counted' = counted
  BY <1>2
  DEF PassGates, SkipCount, Debounce, SkipDebounce, ClaimGranted, ClaimRefused, UndoCount, Unwind,
      Perform, RefundQuota, RefundCount, Crash
<1>3. CASE NextDay \/ UNCHANGED vars
  BY <1>3 DEF NextDay, vars, Counters
<1> QED
  BY <1>1, <1>2, <1>3 DEF Next, Charge, RefundAction, Counters

\* A step that counts nothing and refuses or keeps its call leaves the ceiling.
LEMMA NothingCounted ==
    ASSUME CeilingInv, counted' = counted, back' = back, used' = used, env' = env,
           \A c \in Calls : at[c] = "refused" => at'[c] = "refused",
           NEW m \in Months
    PROVE  (MonthStrayed(m) \/ Ceiling(m))'
<1>1. MonthStrayed(m)' = MonthStrayed(m) /\ Holding(m)' = Holding(m)
  BY DEF MonthStrayed, Holding
<1>2. Cardinality(Admitted(m)') <= Cardinality(Admitted(m)) /\ Cardinality(Admitted(m)') \in Nat
  <2>1. Admitted(m)' \subseteq Admitted(m)
    BY DEF Admitted
  <2> QED
    BY <2>1, MonthSets, FS_Subset, FS_CardinalityType
<1> QED
  BY <1>1, <1>2, MonthSets, LimitAssumption DEF CeilingInv, Ceiling

\* The upsert returns a counter that covers the calls that hold a count.
LEMMA CountKeeps ==
    ASSUME TypeOK, CeilingInv, NEW c \in Calls, CountAction(c), NEW m \in Months
    PROVE  (MonthStrayed(m) \/ Ceiling(m))'
<1> USE DEF TypeOK, Goes
<1>1. /\ counted[c] = None /\ back[c] = None /\ back' = back /\ env' = env
      /\ counted' = [counted EXCEPT ![c] = Month(today)]
      /\ used' = [used EXCEPT ![Month(today)] = @ + 1]
      /\ \A b \in Calls \ {c} : at'[b] = at[b]
  BY DEF CountAction, CeilingInv, CountsOnce
<1>2. Month(today) \in Months /\ None \notin Months
  BY ClockAssumption DEF Months
<1>3. MonthStrayed(m) => MonthStrayed(m)'
  BY <1>1, <1>2 DEF MonthStrayed
<1>4. CASE m # Month(today)
  <2>1. Holding(m)' = Holding(m) /\ Admitted(m)' = Admitted(m) /\ used'[m] = used[m]
    BY <1>1, <1>2, <1>4 DEF Holding, Admitted
  <2> QED
    BY <1>1, <1>3, <2>1 DEF CeilingInv, Ceiling
<1>5. CASE m = Month(today) /\ ~MonthStrayed(m)
  <2>1. /\ Holding(m)' = Holding(m) \cup {c} /\ c \notin Holding(m)
        /\ used'[m] = used[m] + 1 /\ used[m] \in Nat
    BY <1>1, <1>2, <1>5 DEF Holding
  <2>2. Cardinality(Holding(m)') = Cardinality(Holding(m)) + 1
    BY <2>1, MonthSets, FS_AddElement
  <2>3. CASE at'[c] = "refused"
    <3>1. Admitted(m)' = Admitted(m)
      BY <1>1, <1>2, <2>3 DEF Admitted
    <3> QED
      BY <1>1, <1>5, <2>1, <2>2, <3>1, MonthSets DEF CeilingInv, Ceiling
  <2>4. CASE at'[c] # "refused"
    <3>1. env.abuse = "enforce" => used[m] + 1 <= Limit
      BY <1>5, <2>1, <2>4, LimitAssumption DEF CountAction, OverLimit
    <3>2. Admitted(m)' = Admitted(m) \cup {c} /\ c \notin Admitted(m)
      BY <1>1, <1>2, <1>5, <2>4 DEF Admitted
    <3>3. Cardinality(Admitted(m)') = Cardinality(Admitted(m)) + 1
      BY <3>2, MonthSets, FS_AddElement
    <3> QED
      BY <1>1, <1>5, <2>1, <2>2, <3>1, <3>3, MonthSets, LimitAssumption DEF CeilingInv, Ceiling
  <2> QED
    BY <2>3, <2>4
<1> QED
  BY <1>3, <1>4, <1>5

\* A call gives back its own count, or the count of a month it strayed into.
LEMMA DecrementKeeps ==
    ASSUME TypeOK, CeilingInv, NEW c \in Calls, UndoCount(c) \/ RefundCount(c), NEW m \in Months
    PROVE  (MonthStrayed(m) \/ Ceiling(m))'
<1> USE DEF TypeOK, Goes
<1>1. /\ counted' = counted /\ env' = env /\ back[c] = None
      /\ at[c] \in {"undo", "uncount"} /\ at'[c] # "refused"
      /\ \A b \in Calls \ {c} : at'[b] = at[b]
  BY DEF UndoCount, RefundCount, CeilingInv, CountsOnce
<1>2. CASE used' = used /\ back' = back
  BY <1>1, <1>2, NothingCounted
<1>3. CASE /\ counted[c] # None
           /\ used' = [used EXCEPT ![Month(today)] = Lower(@)]
           /\ back' = [back EXCEPT ![c] = Month(today)]
  <2>1. Month(today) \in Months /\ None \notin Months
    BY ClockAssumption DEF Months
  <2>2. MonthStrayed(m) => MonthStrayed(m)'
    BY <1>1, <1>3, <2>1 DEF MonthStrayed
  <2>3. /\ Admitted(m)' \subseteq Admitted(m) /\ Holding(m)' \subseteq Holding(m)
        /\ counted[c] = m => c \in Holding(m) /\ Holding(m)' = Holding(m) \ {c}
    BY <1>1, <1>3, <2>1 DEF Admitted, Holding
  <2>4. /\ Cardinality(Admitted(m)') <= Cardinality(Admitted(m))
        /\ Cardinality(Holding(m)') <= Cardinality(Holding(m))
        /\ Cardinality(Admitted(m)') \in Nat /\ Cardinality(Holding(m)') \in Nat
    BY <2>3, MonthSets, FS_Subset, FS_CardinalityType
  <2>5. CASE m # Month(today)
    <3>1. used'[m] = used[m] /\ used[m] \in Nat
      BY <1>3, <2>5
    <3> QED
      BY <1>1, <2>2, <2>4, <3>1, MonthSets, LimitAssumption DEF CeilingInv, Ceiling
  <2>6. CASE m = Month(today) /\ counted[c] # m
    BY <1>1, <1>3, <2>6 DEF MonthStrayed
  <2>7. CASE m = Month(today) /\ counted[c] = m
    <3>1. Cardinality(Holding(m)') = Cardinality(Holding(m)) - 1 /\ Cardinality(Holding(m)) # 0
      BY <2>3, <2>7, MonthSets, FS_RemoveElement, FS_EmptySet
    <3>2. used'[m] = Lower(used[m]) /\ used[m] \in Nat
      BY <1>3, <2>7
    <3> QED
      BY <1>1, <2>2, <2>4, <3>1, <3>2, MonthSets, LimitAssumption
      DEF CeilingInv, Ceiling, Lower
  <2> QED
    BY <2>5, <2>6, <2>7
<1> QED
  BY <1>2, <1>3 DEF UndoCount, RefundCount, DecrementUser

LEMMA KeepsCeiling == TypeOK /\ CeilingInv /\ [Next]_vars => CeilingInv'
<1> SUFFICES ASSUME TypeOK, CeilingInv, [Next]_vars, NEW m \in Months
             PROVE  (MonthStrayed(m) \/ Ceiling(m))'
  BY KeepsCountsOnce, KeepsCounters DEF CeilingInv
<1>1. ASSUME NEW c \in Calls,
             \/ PassGates(c) \/ SkipCount(c) \/ Debounce(c) \/ SkipDebounce(c) \/ ClaimGranted(c)
             \/ ClaimRefused(c) \/ Unwind(c) \/ Perform(c) \/ RefundQuota(c) \/ Crash(c)
      PROVE  /\ counted' = counted /\ back' = back /\ used' = used /\ env' = env
             /\ \A b \in Calls : at[b] = "refused" => at'[b] = "refused"
  BY <1>1
  DEF PassGates, SkipCount, Debounce, SkipDebounce, ClaimGranted, ClaimRefused, Unwind, UnwindRow,
      Perform, RefundQuota, Crash, Ended, Goes, TypeOK
<1>2. CASE NextDay \/ UNCHANGED vars
  <2>1. counted' = counted /\ back' = back /\ used' = used /\ env' = env /\ at' = at
    BY <1>2 DEF NextDay, vars
  <2> QED
    BY <2>1, NothingCounted
<1> QED
  BY <1>1, <1>2, NothingCounted, CountKeeps, DecrementKeeps DEF Next, Charge, RefundAction

(***************************************************************************)
(* In enforce mode the limit is a ceiling for the actions of a month,      *)
(* whatever calls race, fail and are refunded, unless a refund crossed     *)
(* into the month (checkUserActionLimit), for any number of calls.         *)
(***************************************************************************)
THEOREM LimitHolds == Spec => []LimitIsCeiling
<1>1. Init => CeilingInv
  <2> SUFFICES ASSUME Init, NEW m \in Months PROVE Ceiling(m)
    <3>1. Init => Counters = {} /\ CountsOnce
      BY DEF Init, Counters, CountsOnce
    <3> QED
      BY <3>1, FS_EmptySet DEF CeilingInv
  <2>1. Holding(m) = {} /\ Admitted(m) = {} /\ used[m] = 0
    BY ClockAssumption DEF Init, Holding, Admitted
  <2> QED
    BY <2>1, FS_EmptySet, LimitAssumption DEF Ceiling
<1>2. CeilingInv => LimitIsCeiling
  BY DEF CeilingInv, Ceiling, LimitIsCeiling
<1> QED
  BY <1>1, <1>2, KeepsCeiling, TypeCorrect, PTL DEF Spec

-----------------------------------------------------------------------------
(***************************************************************************)
(* The row of the day after a refusal                                      *)
(***************************************************************************)
Counting(p, d) == {c \in Opened(p, d) : at[c] # "refused"}

\* A call that is to claim has opened its day if days are debounced at all.
DueKnown ==
    \A c \in Calls :
        /\ at[c] \in {"claim", "undo", "unwind"} => (due[c] # None <=> Debounces(c))
        /\ at[c] = "refused" => due[c] = None \/ unwound[c] # None

\* The row of a day counts the calls that opened it and were not refused.
Traceless(p, d) ==
    UnwoundOnto(d) \/ UnwoundAfter(d) \/ seen[p][d] = Cardinality(Counting(p, d))

\* Finitely many calls have opened a day.
Openers == {c \in Calls : due[c] # None}

TraceInv == IsFiniteSet(Openers) /\ DueKnown /\ \A p \in Products, d \in Days : Traceless(p, d)

LEMMA DaySets ==
    ASSUME TraceInv, NEW p, NEW d \in Days
    PROVE  IsFiniteSet(Counting(p, d)) /\ Cardinality(Counting(p, d)) \in Nat
<1>1. Counting(p, d) \subseteq Openers
  BY ClockAssumption DEF Counting, Opened, Openers
<1>2. IsFiniteSet(Openers)
  BY DEF TraceInv
<1> QED
  BY <1>1, <1>2, FS_Subset, FS_CardinalityType

LEMMA KeepsOpeners == DayInv /\ IsFiniteSet(Openers) /\ [Next]_vars => IsFiniteSet(Openers')
<1> SUFFICES ASSUME DayInv, IsFiniteSet(Openers), [Next]_vars PROVE IsFiniteSet(Openers')
  OBVIOUS
<1>1. ASSUME NEW c \in Calls, Debounce(c) PROVE IsFiniteSet(Openers')
  <2>1. due' = [due EXCEPT ![c] = today]
    BY <1>1 DEF Debounce
  <2>2. Openers' \subseteq Openers \cup {c}
    BY <2>1 DEF Openers, DayInv, TypeOK
  <2>3. IsFiniteSet(Openers \cup {c})
    BY FS_AddElement
  <2> QED
    BY <2>2, <2>3, FS_Subset
<1>2. ASSUME NEW c \in Calls,
             \/ PassGates(c) \/ CountAction(c) \/ SkipCount(c) \/ SkipDebounce(c)
             \/ ClaimGranted(c) \/ ClaimRefused(c) \/ UndoCount(c) \/ Unwind(c) \/ Perform(c)
             \/ RefundQuota(c) \/ RefundCount(c) \/ Crash(c)
      PROVE  due' = due
  BY <1>2
  DEF PassGates, CountAction, SkipCount, SkipDebounce, ClaimGranted, ClaimRefused, UndoCount,
      Unwind, Perform, RefundQuota, RefundCount, Crash
<1>3. CASE NextDay \/ UNCHANGED vars
  BY <1>3 DEF NextDay, vars, Openers
<1> QED
  BY <1>1, <1>2, <1>3 DEF Next, Charge, RefundAction, Openers

\* Whoever has opened a day goes on without touching the row, or refuses.
LEMMA NothingOpened ==
    ASSUME TraceInv, due' = due, unwound' = unwound, seen' = seen,
           \A c \in Calls : due[c] # None => (at'[c] = "refused" <=> at[c] = "refused"),
           NEW p \in Products, NEW d \in Days
    PROVE  Traceless(p, d)'
<1>1. Counting(p, d)' = Counting(p, d)
  BY ClockAssumption DEF Counting, Opened
<1> QED
  BY <1>1 DEF TraceInv, Traceless, UnwoundOnto, UnwoundAfter

LEMMA KeepsDueKnown == ~Faults /\ DayInv /\ DueKnown /\ [Next]_vars => DueKnown'
<1> SUFFICES ASSUME ~Faults, DayInv, DueKnown, [Next]_vars PROVE DueKnown'
  OBVIOUS
<1> USE DEF DayInv, TypeOK, Untouched, DueKnown, Goes, Debounces, Metered
<1>1. ASSUME NEW c \in Calls, PassGates(c) \/ CountAction(c) \/ SkipCount(c) PROVE DueKnown'
  BY <1>1 DEF PassGates, CountAction, SkipCount
<1>2. ASSUME NEW c \in Calls, Debounce(c) \/ SkipDebounce(c) PROVE DueKnown'
  BY <1>2, ClockAssumption DEF Debounce, SkipDebounce
<1>3. ASSUME NEW c \in Calls,
             ClaimGranted(c) \/ ClaimRefused(c) \/ Perform(c) \/ RefundQuota(c) \/ Crash(c)
      PROVE  DueKnown'
  BY <1>3 DEF ClaimGranted, ClaimRefused, Perform, RefundQuota, Crash
<1>4. ASSUME NEW c \in Calls, UndoCount(c) \/ RefundCount(c) PROVE DueKnown'
  BY <1>4 DEF UndoCount, RefundCount
<1>5. ASSUME NEW c \in Calls, Unwind(c) PROVE DueKnown'
  BY <1>5, ClockAssumption DEF Unwind, UnwindRow
<1>6. CASE NextDay \/ UNCHANGED vars
  BY <1>6 DEF NextDay, vars
<1> QED
  BY <1>1, <1>2, <1>3, <1>4, <1>5, <1>6 DEF Next, Charge, RefundAction

LEMMA DebounceCounts ==
    ASSUME DayInv, TraceInv, NEW c \in Calls, Debounce(c), NEW p \in Products, NEW d \in Days
    PROVE  Traceless(p, d)'
<1> USE DEF DayInv, TypeOK, Goes
<1>1. /\ due[c] = None /\ unwound[c] = None /\ unwound' = unwound
      /\ due' = [due EXCEPT ![c] = today] /\ at'[c] # "refused"
      /\ seen' = [seen EXCEPT ![Product[c]][today] = @ + 1]
      /\ \A b \in Calls \ {c} : at'[b] = at[b]
  BY DEF Debounce, Untouched
<1>2. None \notin Days /\ today \in Days /\ Product[c] \in Products
  BY ClockAssumption DEF Products
<1>3. (UnwoundOnto(d) => UnwoundOnto(d)') /\ (UnwoundAfter(d) => UnwoundAfter(d)')
  BY <1>1, <1>2 DEF UnwoundOnto, UnwoundAfter
<1>4. CASE p = Product[c] /\ d = today
  <2>1. Counting(p, d)' = Counting(p, d) \cup {c} /\ c \notin Counting(p, d)
    BY <1>1, <1>2, <1>4 DEF Counting, Opened
  <2>2. Cardinality(Counting(p, d)') = Cardinality(Counting(p, d)) + 1
    BY <2>1, DaySets, FS_AddElement
  <2>3. seen'[p][d] = seen[p][d] + 1
    BY <1>1, <1>2, <1>4
  <2> QED
    BY <1>3, <2>2, <2>3 DEF TraceInv, Traceless
<1>5. CASE ~(p = Product[c] /\ d = today)
  <2>1. Counting(p, d)' = Counting(p, d)
    BY <1>1, <1>2, <1>5 DEF Counting, Opened
  <2>2. seen'[p][d] = seen[p][d]
    BY <1>1, <1>2, <1>5
  <2> QED
    BY <1>3, <2>1, <2>2 DEF TraceInv, Traceless
<1> QED
  BY <1>4, <1>5

LEMMA UnwindCounts ==
    ASSUME ~Faults, DayInv, TraceInv, NEW c \in Calls, Unwind(c), NEW p \in Products, NEW d \in Days
    PROVE  Traceless(p, d)'
<1> USE DEF DayInv, TypeOK, Goes
<1>1. /\ at[c] = "unwind" /\ unwound[c] = None /\ due' = due /\ at' = [at EXCEPT ![c] = "refused"]
      /\ due[c] # None <=> Debounces(c)
  BY DEF Unwind, UnwindRow, Untouched, TraceInv, DueKnown
<1>2. CASE ~Debounces(c)
  <2>1. seen' = seen /\ unwound' = unwound
    BY <1>2 DEF Unwind, UnwindRow
  <2> QED
    BY <1>1, <1>2, <2>1, NothingOpened
<1>3. CASE Debounces(c)
  <2>1. /\ seen' = [seen EXCEPT ![Product[c]][today] = Lower(@)]
        /\ unwound' = [unwound EXCEPT ![c] = today]
    BY <1>3 DEF Unwind, UnwindRow
  <2>2. None \notin Days /\ today \in Days /\ Product[c] \in Products /\ due[c] \in Days
    BY <1>1, <1>3, ClockAssumption DEF Products
  <2>3. (UnwoundOnto(d) => UnwoundOnto(d)') /\ (UnwoundAfter(d) => UnwoundAfter(d)')
    BY <1>1, <2>1, <2>2 DEF UnwoundOnto, UnwoundAfter
  <2>4. CASE due[c] # today /\ d \in {today, due[c]}
    BY <1>1, <2>1, <2>2, <2>4 DEF Traceless, UnwoundOnto, UnwoundAfter
  <2>5. CASE d = today /\ due[c] = today /\ p = Product[c]
    <3>1. Counting(p, d)' = Counting(p, d) \ {c} /\ c \in Counting(p, d)
      BY <1>1, <2>5 DEF Counting, Opened
    <3>0. Cardinality(Counting(p, d)) # 0
      BY <3>1, DaySets, FS_EmptySet
    <3>2. Cardinality(Counting(p, d)') = Cardinality(Counting(p, d)) - 1
      BY <3>1, DaySets, FS_RemoveElement
    <3>3. seen'[p][d] = Lower(seen[p][d])
      BY <2>1, <2>2, <2>5
    <3> QED
      BY <2>3, <3>0, <3>2, <3>3, DaySets DEF TraceInv, Traceless, Lower
  <2>6. CASE /\ due[c] # today => d \notin {today, due[c]}
             /\ d # today \/ due[c] # today \/ p # Product[c]
    <3>1. Counting(p, d)' = Counting(p, d)
      BY <1>1, <2>6 DEF Counting, Opened
    <3>2. seen'[p][d] = seen[p][d]
      BY <2>1, <2>2, <2>6
    <3> QED
      BY <2>3, <3>1, <3>2 DEF TraceInv, Traceless
  <2> QED
    BY <2>4, <2>5, <2>6
<1> QED
  BY <1>2, <1>3

LEMMA KeepsTrace == ~Faults /\ DayInv /\ TraceInv /\ [Next]_vars => TraceInv'
<1> SUFFICES ASSUME ~Faults, DayInv, TraceInv, [Next]_vars, NEW p \in Products, NEW d \in Days
             PROVE  Traceless(p, d)'
  BY KeepsDueKnown, KeepsOpeners DEF TraceInv
<1>1. ASSUME NEW c \in Calls,
             \/ PassGates(c) \/ CountAction(c) \/ SkipCount(c) \/ SkipDebounce(c)
             \/ ClaimGranted(c) \/ ClaimRefused(c) \/ UndoCount(c) \/ Perform(c)
             \/ RefundQuota(c) \/ RefundCount(c) \/ Crash(c)
      PROVE  /\ due' = due /\ unwound' = unwound /\ seen' = seen
             /\ \A b \in Calls : due[b] # None => (at'[b] = "refused" <=> at[b] = "refused")
  BY <1>1
  DEF PassGates, CountAction, SkipCount, SkipDebounce, ClaimGranted, ClaimRefused, UndoCount,
      Perform, RefundQuota, RefundCount, Crash, Ended, Goes, DayInv, TypeOK, Untouched
<1>2. CASE NextDay \/ UNCHANGED vars
  <2>1. due' = due /\ unwound' = unwound /\ seen' = seen /\ at' = at
    BY <1>2 DEF NextDay, vars
  <2> QED
    BY <2>1, NothingOpened
<1> QED
  BY <1>1, <1>2, NothingOpened, DebounceCounts, UnwindCounts DEF Next, Charge, RefundAction

(***************************************************************************)
(* A refused call leaves no trace in the row of its day, as long as its    *)
(* unwinding does not fail (Faults) or meet the row of another day.        *)
(***************************************************************************)
THEOREM NoTrace == Spec => []RefusalLeavesNoTrace
<1>1. CASE Faults
  <2>1. RefusalLeavesNoTrace
    BY <1>1 DEF RefusalLeavesNoTrace
  <2> QED
    BY <2>1, PTL
<1>2. CASE ~Faults
  <2>1. Init => TraceInv
    <3> SUFFICES ASSUME Init, NEW p \in Products, NEW d \in Days PROVE Traceless(p, d)
      <4>1. Init => Openers = {} /\ DueKnown
        BY DEF Init, Openers, DueKnown
      <4> QED
        BY <4>1, FS_EmptySet DEF TraceInv
    <3>1. Counting(p, d) = {} /\ seen[p][d] = 0
      BY ClockAssumption DEF Init, Counting, Opened
    <3> QED
      BY <3>1, FS_EmptySet DEF Traceless
  <2>2. DayInv /\ TraceInv /\ [Next]_vars => TraceInv'
    BY <1>2, KeepsTrace
  <2>3. TraceInv => RefusalLeavesNoTrace
    BY DEF TraceInv, Traceless, Counting, RefusalLeavesNoTrace
  <2> QED
    BY <2>1, <2>2, <2>3, InitDay, KeepsDay, PTL DEF Spec
<1> QED
  BY <1>1, <1>2

=============================================================================
