---------------------------- MODULE ActionProofs ----------------------------
(***************************************************************************)
(* One dispatch per idempotency key, stable outcomes, no slot paid for     *)
(* nothing and a breaker that opens for cause, for every number of         *)
(* requests, users, keys and reconciles.                                   *)
(***************************************************************************)
EXTENDS ActionExecution, FiniteSetTheorems, TLAPS

Early == {"idle", "bind", "check", "lookup", "gate", "claim", "deny", "insert"}

\* A request before its insert has no row and no result, and knows its user.
Before(c) ==
    /\ call[c].pc = "idle" => call[c].ext = None
    /\ call[c].pc # "idle" => call[c].user \in Users
    /\ call[c].pc \in Early \ {"idle", "bind"} => call[c].ext # None
    /\ call[c].pc \in Early => rows[c] = None /\ call[c].res = None
    /\ call[c].pc \in Early \ {"insert"} => ~call[c].claimed
    /\ call[c].ext # None => identity[call[c].user] = call[c].ext

\* A row belongs to its request and says no more than the result allows.
Written(c) ==
    rows[c] # None =>
        /\ rows[c].ext = call[c].ext /\ rows[c].key = call[c].key
        /\ rows[c].status \in {"succeeded", "overage"} => call[c].res \in {"ok", "timeout"}
        /\ rows[c].status = "failed" => call[c].res \in {"error", "timeout"}
        /\ rows[c].status = "unknown" => call[c].res = "timeout"
        /\ rows[c].status = "succeeded" /\ call[c].over => call[c].res = "timeout"

\* A request in the integrator's hands has a dispatched row, and a result has
\* the row of a dispatched request.
After(c) ==
    /\ call[c].pc \in {"post", "settle"} => rows[c] # None /\ rows[c].status = "dispatched"
    /\ call[c].pc = "post" => call[c].res = None
    /\ call[c].pc \in {"settle", "record"} => call[c].res # None
    /\ call[c].res # None => rows[c] # None /\ rows[c].status # "quota_denied"

Stages == \A c \in Calls : Before(c) /\ Written(c) /\ After(c)

\* An identity names one user.
Owned ==
    \A u \in Users : identity[u] # None =>
        /\ call[identity[u]].pc # "idle"
        /\ call[identity[u]].user = u

\* action_invocations_idem_key
UniqueKey ==
    \A c, d \in Calls :
        /\ rows[c] # None /\ rows[d] # None
        /\ rows[c].key # None /\ rows[c].key = rows[d].key /\ rows[c].ext = rows[d].ext
        => c = d

\* A reconcile writes only where the call timed out.
DeskKnows ==
    \A d \in Desks : desk[d].pc = "read" =>
        /\ desk[d].row \in Calls /\ rows[desk[d].row] # None
        /\ rows[desk[d].row].status \notin {"dispatched", "quota_denied"}
        /\ call[desk[d].row].res = "timeout"

\* A replayed answer has a request that earned it.
Earned ==
    \A c \in Calls : call[c].key # None =>
        /\ call[c].pc = "ok" =>
             \E r \in Calls : Same(c, r) /\ call[r].res \in {"ok", "timeout"}
        /\ call[c].pc = "error" =>
             \E r \in Calls : Same(c, r) /\ call[r].res \in {"error", "timeout"}

\* A claimed slot without a row.
Paid ==
    \A c \in Calls : call[c].claimed /\ rows[c] = None =>
        \/ call[c].pc \in {"insert", "died"}
        \/ call[c].pc = "threw" /\ \E d \in Calls \ {c} : Same(c, d) /\ rows[d] # None

IInv == Stages /\ Owned /\ UniqueKey /\ DeskKnows /\ Earned /\ Paid

-----------------------------------------------------------------------------
LEMMA InitInv == Init => TypeOK /\ IInv
<1> SUFFICES ASSUME Init PROVE TypeOK /\ IInv
  OBVIOUS
<1>1. TypeOK
  BY NumbersAssumption DEF Init, TypeOK, CallStates, Steps
<1>2. IInv
  BY NoneAssumption
     DEF Init, IInv, Stages, Before, Written, After, Owned, UniqueKey, DeskKnows, Earned, Paid
<1> QED
  BY <1>1, <1>2

LEMMA Asked ==
    ASSUME NEW c \in Calls, NEW a \in Asks[c]
    PROVE  a.user \in Users /\ a.key \in Keys \cup {None}
<1>1. Asks[c] \subseteq [user : Users, key : Keys \cup {None}, named : {"none", "own", "other"}]
  BY AsksAssumption
<1> QED
  BY <1>1

LEMMA KeepsTypes == TypeOK /\ IInv /\ [Next]_vars => TypeOK'
<1> SUFFICES ASSUME TypeOK, IInv, [Next]_vars PROVE TypeOK'
  OBVIOUS
<1> USE DEF TypeOK, CallStates, Steps, Answers, Results, ledger, billing, world
<1>1. ASSUME NEW c \in Calls, Arrive(c) PROVE TypeOK'
  <2> DEFINE to(a, pc) == [call[c] EXCEPT !.pc = pc, !.user = a.user, !.key = a.key,
                                          !.ext = identity[a.user]]
  <2>1. PICK a \in Asks[c] :
          call' = [call EXCEPT ![c] =
             IF a.named = "other" \/ (a.named = "own" /\ identity[a.user] = None)
             THEN to(a, "refused")
             ELSE IF identity[a.user] = None THEN to(a, "bind") ELSE to(a, "check")]
    BY <1>1 DEF Arrive
  <2>2. a.user \in Users /\ a.key \in Keys \cup {None}
    BY <2>1, Asked
  <2>3. ASSUME NEW pc \in {"refused", "bind", "check"} PROVE to(a, pc) \in CallStates
    <3>1. call[c] \in CallStates /\ identity[a.user] \in Calls \cup {None}
      BY <2>2
    <3> HIDE DEF TypeOK
    <3> QED
      BY <2>2, <3>1
  <2>4. call' \in [Calls -> CallStates]
    <3> HIDE DEF to, CallStates
    <3> QED BY <2>1, <2>3
  <2> QED
    BY <1>1, <2>4 DEF Arrive
<1>2. ASSUME NEW c \in Calls, BindIdentity(c) PROVE TypeOK'
  BY <1>2 DEF BindIdentity
<1>3. ASSUME NEW c \in Calls, LookUp(c) PROVE TypeOK'
  BY <1>3 DEF LookUp, Replays, Earlier
<1>4. ASSUME NEW c \in Calls, Gate(c) PROVE TypeOK'
  <2>1. cache' \in [at : Nat, active : BOOLEAN] \cup {None}
    BY <1>4 DEF Gate
  <2>2. call' \in [Calls -> CallStates]
    BY <1>4 DEF Gate
  <2> QED
    BY <1>4, <2>1, <2>2 DEF Gate
<1>5. ASSUME NEW c \in Calls, Claim(c) PROVE TypeOK'
  <2> DEFINE n == IF due THEN 1 ELSE used + 1
             over == Included # -1 /\ n > Included
  <2>1. n \in Nat /\ over \in BOOLEAN
    OBVIOUS
  <2>2. \/ /\ used' = n /\ due' = FALSE
           /\ call' = [call EXCEPT ![c].pc = "insert", ![c].claimed = TRUE, ![c].over = over]
        \/ used' = used /\ due' = due /\ call' = [call EXCEPT ![c].pc = "deny"]
    BY <1>5 DEF Claim
  <2>3. UNCHANGED <<ledger, metered, active, cache, world>>
    BY <1>5 DEF Claim
  <2> HIDE DEF n, over
  <2>4. call' \in [Calls -> CallStates]
    <3>1. /\ [call[c] EXCEPT !.pc = "insert", !.claimed = TRUE, !.over = over] \in CallStates
          /\ [call[c] EXCEPT !.pc = "deny"] \in CallStates
      <4>1. call[c] \in CallStates
        OBVIOUS
      <4> HIDE DEF TypeOK
      <4> QED
        BY <2>1, <4>1
    <3>2. \/ call' = [call EXCEPT ![c] = [call[c] EXCEPT !.pc = "insert", !.claimed = TRUE,
                                                        !.over = over]]
          \/ call' = [call EXCEPT ![c] = [call[c] EXCEPT !.pc = "deny"]]
      BY <2>2
    <3> HIDE DEF CallStates
    <3> QED
      BY <3>1, <3>2
  <2> QED
    BY <2>1, <2>2, <2>3, <2>4
<1>6. ASSUME NEW c \in Calls, InsertDenied(c) \/ InsertDispatch(c) PROVE TypeOK'
  <2>1. call[c].ext \in Calls
    BY <1>6 DEF IInv, Stages, Before, Early, InsertDenied, InsertDispatch
  <2> QED
    BY <1>6, <2>1 DEF InsertDenied, InsertDispatch, Insert, Rows, Statuses
<1>7. ASSUME NEW c \in Calls, CheckBreaker(c) \/ HmacPost(c) \/ Die(c) PROVE TypeOK'
  BY <1>7 DEF CheckBreaker, HmacPost, Die
<1>8. ASSUME NEW c \in Calls, Settle(c) PROVE TypeOK'
  <2>1. rows[c] \in Rows
    BY <1>8 DEF Settle, IInv, Stages, After
  <2>2. FinalStatus(c) \in Statuses
    BY <1>8 DEF Settle, FinalStatus, Statuses, IInv, Stages, After
  <2> QED
    BY <1>8, <2>1, <2>2 DEF Settle, Rows
<1>9. ASSUME NEW c \in Calls, Record(c) PROVE TypeOK'
  <2>1. call[c].res \in Results
    BY <1>9 DEF Record, IInv, Stages, After
  <2> DEFINE ok == call[c].res = "ok"
  <2>2. ok \in BOOLEAN
    OBVIOUS
  <2>3. bucket' = RecordOutcome(bucket, c, now, ok)
    BY <1>9 DEF Record
  <2> HIDE DEF ok
  <2>4. bucket' \in [events : SUBSET Outcomes, openedUntil : Nat]
    <3>1. [by |-> c, t |-> now, ok |-> ok] \in Outcomes
      BY <2>2 DEF Outcomes
    <3>2. bucket'.events \subseteq Outcomes /\ bucket'.openedUntil \in Nat
      BY <2>3, <3>1, NumbersAssumption DEF RecordOutcome, PruneOld
    <3> QED
      BY <2>3, <3>2 DEF RecordOutcome
  <2>5. call' \in [Calls -> CallStates]
    <3>1. [call[c] EXCEPT !.pc = call[c].res, !.at = now] \in CallStates
      <4>1. call[c] \in CallStates /\ now \in Nat
        OBVIOUS
      <4> HIDE DEF TypeOK
      <4> QED
        BY <2>1, <4>1
    <3>2. call' = [call EXCEPT ![c] = [call[c] EXCEPT !.pc = call[c].res, !.at = now]]
      BY <1>9 DEF Record
    <3> HIDE DEF CallStates
    <3> QED
      BY <3>1, <3>2
  <2> QED
    BY <1>9, <2>4, <2>5 DEF Record
<1>10. ASSUME NEW d \in Desks, ReadUnknown(d) PROVE TypeOK'
  BY <1>10 DEF ReadUnknown
<1>11. ASSUME NEW d \in Desks, Reconcile(d) PROVE TypeOK'
  <2>1. rows[desk[d].row] \in Rows /\ desk[d].row \in Calls
    BY <1>11 DEF Reconcile, IInv, DeskKnows
  <2> QED
    BY <1>11, <2>1 DEF Reconcile, Rows, Statuses
<1>12. CASE Tick
  BY <1>12 DEF Tick
<1>13. CASE PeriodEnds
  BY <1>13 DEF PeriodEnds
<1>14. CASE Lapse
  BY <1>14 DEF Lapse
<1>15. CASE UNCHANGED vars
  BY <1>15 DEF vars
<1> QED
  BY <1>1, <1>2, <1>3, <1>4, <1>5, <1>6, <1>7, <1>8, <1>9, <1>10, <1>11, <1>12, <1>13,
     <1>14, <1>15
     DEF Next, Proceed

-----------------------------------------------------------------------------
\* A request that only goes on: nothing but its place changes.
Moves(c, pc) ==
    /\ call' = [call EXCEPT ![c].pc = pc]
    /\ UNCHANGED <<identity, rows, desk>>

\* What the steps that only move a request do.
LEMMA OnlyMoves ==
    ASSUME TypeOK, IInv, NEW c \in Calls,
           \/ CheckBreaker(c) \/ LookUp(c) \/ Gate(c) \/ Die(c)
    PROVE  \E pc \in Steps \cup Answers :
             /\ Moves(c, pc) /\ call[c].pc # "idle" /\ pc \notin {"idle", "bind", "post", "settle", "record", "threw"}
             /\ pc \in Early => call[c].pc \in Early \ {"idle", "bind", "insert"}
  BY DEF CheckBreaker, LookUp, Gate, Die, Moves, Steps, Answers, Early, ledger, world, Replays, Results

\* A new status leaves the rest of the ledger alone.
LEMMA Rewritten ==
    ASSUME TypeOK, NEW r \in Calls, rows[r] \in Rows, NEW status \in Statuses,
           rows' = [rows EXCEPT ![r].status = status]
    PROVE  /\ rows'[r] # None /\ rows'[r].status = status
           /\ rows'[r].key = rows[r].key /\ rows'[r].ext = rows[r].ext
           /\ \A b \in Calls \ {r} : rows'[b] = rows[b]
<1>1. rows'[r] = [rows[r] EXCEPT !.status = status]
  BY DEF TypeOK
<1>2. rows'[r] \in Rows
  BY <1>1 DEF Rows
<1> QED
  BY <1>1, <1>2, NoneAssumption DEF TypeOK, Rows

LEMMA KeepsStages == TypeOK /\ IInv /\ [Next]_vars => Stages'
<1> SUFFICES ASSUME TypeOK, IInv, [Next]_vars PROVE Stages'
  OBVIOUS
<1> USE DEF TypeOK, CallStates, Steps, Answers, Results, ledger, billing, world,
            IInv, Stages, Before, Written, After, Early
<1>1. ASSUME NEW c \in Calls, Arrive(c) PROVE Stages'
  BY <1>1, Asked DEF Arrive
<1>2. ASSUME NEW c \in Calls, BindIdentity(c) PROVE Stages'
  <2>1. CASE call' = [call EXCEPT ![c].pc = "threw"] /\ identity' = identity
    BY <1>2, <2>1 DEF BindIdentity
  <2>2. CASE /\ identity[call[c].user] = None
             /\ identity' = [identity EXCEPT ![call[c].user] = c]
             /\ call' = [call EXCEPT ![c].pc = "check", ![c].ext = c]
    <3>1. rows' = rows /\ call[c].pc = "bind"
      BY <1>2 DEF BindIdentity
    <3>2. \A b \in Calls \ {c} : call'[b] = call[b]
      BY <2>2
    <3>3. /\ call'[c].pc = "check" /\ call'[c].ext = c /\ call'[c].user = call[c].user
          /\ call'[c].res = None /\ call'[c].claimed = FALSE /\ rows'[c] = None
      BY <2>2, <3>1
    <3>4. \A b \in Calls \ {c} : call[b].ext # None => identity'[call[b].user] = call[b].ext
      BY <2>2
    <3>5. identity'[call[c].user] = c /\ call[c].user \in Users
      BY <2>2, <3>1
    <3>6. \A b \in Calls \ {c} : Before(b)' /\ Written(b)' /\ After(b)'
      BY <3>1, <3>2, <3>4
    <3>7. Before(c)' /\ Written(c)' /\ After(c)'
      BY <3>3, <3>5, NoneAssumption
    <3> QED
      BY <3>6, <3>7
  <2> QED
    BY <1>2, <2>1, <2>2 DEF BindIdentity
<1>3. ASSUME NEW c \in Calls, CheckBreaker(c) \/ LookUp(c) \/ Gate(c) \/ Die(c) PROVE Stages'
  <2>1. PICK pc \in Steps \cup Answers :
          /\ Moves(c, pc) /\ call[c].pc # "idle"
          /\ pc \notin {"idle", "bind", "post", "settle", "record", "threw"}
          /\ pc \in Early => call[c].pc \in Early \ {"idle", "bind", "insert"}
    BY <1>3, OnlyMoves
  <2>2. \A b \in Calls \ {c} : call'[b] = call[b]
    BY <2>1 DEF Moves
  <2>3. /\ call'[c].pc = pc /\ call'[c].ext = call[c].ext /\ call'[c].user = call[c].user
        /\ call'[c].res = call[c].res /\ call'[c].claimed = call[c].claimed
        /\ call'[c].key = call[c].key /\ call'[c].over = call[c].over
        /\ rows' = rows /\ identity' = identity
    BY <2>1 DEF Moves
  <2>4. \A b \in Calls \ {c} : Before(b)' /\ Written(b)' /\ After(b)'
    BY <2>2, <2>3
  <2>5. Before(c)' /\ Written(c)' /\ After(c)'
    BY <2>1, <2>3
  <2> QED
    BY <2>4, <2>5
<1>5. ASSUME NEW c \in Calls, Claim(c) PROVE Stages'
  <2>1. call[c].pc = "claim" /\ rows' = rows /\ identity' = identity
    BY <1>5 DEF Claim
  <2>2. \A b \in Calls \ {c} : call'[b] = call[b]
    BY <1>5 DEF Claim
  <2>3. /\ call'[c].pc \in {"insert", "deny"} /\ call'[c].ext = call[c].ext
        /\ call'[c].user = call[c].user /\ call'[c].res = call[c].res
        /\ call'[c].pc = "deny" => call'[c].claimed = call[c].claimed
    BY <1>5 DEF Claim
  <2>4. \A b \in Calls \ {c} : Before(b)' /\ Written(b)' /\ After(b)'
    BY <2>1, <2>2
  <2>5. Before(c)' /\ Written(c)' /\ After(c)'
    BY <2>1, <2>3
  <2> QED
    BY <2>4, <2>5
<1>6. ASSUME NEW c \in Calls, InsertDenied(c) \/ InsertDispatch(c) PROVE Stages'
  BY <1>6, NoneAssumption DEF InsertDenied, InsertDispatch, Insert, Rows, Statuses
<1>7. ASSUME NEW c \in Calls, HmacPost(c) PROVE Stages'
  <2>1. PICK res \in Results : call' = [call EXCEPT ![c].pc = "settle", ![c].res = res]
    BY <1>7 DEF HmacPost
  <2>2. rows' = rows /\ identity' = identity /\ call[c].pc = "post"
    BY <1>7 DEF HmacPost
  <2>3. \A b \in Calls \ {c} : call'[b] = call[b]
    BY <2>1
  <2>4. /\ call'[c].pc = "settle" /\ call'[c].ext = call[c].ext /\ call'[c].user = call[c].user
        /\ call'[c].res = res /\ call'[c].key = call[c].key
    BY <2>1
  <2>5. \A b \in Calls \ {c} : Before(b)' /\ Written(b)' /\ After(b)'
    BY <2>2, <2>3
  <2>6. res # None
    BY <2>1, NoneAssumption
  <2>7. Before(c)' /\ Written(c)' /\ After(c)'
    BY <2>2, <2>4, <2>6
  <2> QED
    BY <2>5, <2>7
<1>8. ASSUME NEW c \in Calls, Settle(c) PROVE Stages'
  <2>1. rows[c] \in Rows /\ call[c].pc = "settle" /\ call[c].res \in Results
    BY <1>8 DEF Settle
  <2>2. /\ \A b \in Calls \ {c} : call'[b] = call[b] /\ rows'[b] = rows[b]
        /\ identity' = identity
    BY <1>8 DEF Settle
  <2>3. /\ call'[c].pc = "record" /\ call'[c].ext = call[c].ext /\ call'[c].user = call[c].user
        /\ call'[c].res = call[c].res /\ call'[c].key = call[c].key
        /\ call'[c].over = call[c].over
    BY <1>8 DEF Settle
  <2>4. /\ rows'[c].status = FinalStatus(c) /\ rows'[c].ext = rows[c].ext
        /\ rows'[c].key = rows[c].key
    BY <1>8, <2>1 DEF Settle, Rows
  <2>5. rows'[c] # None
    <3>1. FinalStatus(c) \in Statuses
      BY <2>1 DEF FinalStatus, Statuses
    <3> QED
      BY <1>8, <2>1, <3>1, Rewritten DEF Settle
  <2>6. \A b \in Calls \ {c} : Before(b)' /\ Written(b)' /\ After(b)'
    BY <2>2
  <2>7. Before(c)' /\ Written(c)' /\ After(c)'
    BY <2>1, <2>2, <2>3, <2>4, <2>5 DEF FinalStatus
  <2> QED
    BY <2>6, <2>7
<1>9. ASSUME NEW c \in Calls, Record(c) PROVE Stages'
  BY <1>9 DEF Record
<1>10. ASSUME NEW d \in Desks, ReadUnknown(d) PROVE Stages'
  BY <1>10 DEF ReadUnknown
<1>11. ASSUME NEW d \in Desks, Reconcile(d) PROVE Stages'
  BY <1>11, NoneAssumption DEF Reconcile, Rows, Statuses, DeskKnows
<1>12. CASE Tick
  BY <1>12 DEF Tick
<1>13. CASE PeriodEnds
  BY <1>13 DEF PeriodEnds
<1>14. CASE Lapse
  BY <1>14 DEF Lapse
<1>15. CASE UNCHANGED vars
  BY <1>15 DEF vars
<1> QED
  BY <1>1, <1>2, <1>3, <1>5, <1>6, <1>7, <1>8, <1>9, <1>10, <1>11, <1>12, <1>13,
     <1>14, <1>15
     DEF Next, Proceed

LEMMA KeepsOwned == TypeOK /\ IInv /\ [Next]_vars => Owned'
<1> SUFFICES ASSUME TypeOK, IInv, [Next]_vars PROVE Owned'
  OBVIOUS
<1> USE DEF TypeOK, CallStates, ledger, IInv, Owned
\* every step keeps the users of the requests that have started
<1>1. CASE /\ identity' = identity
           /\ \A b \in Calls : call[b].pc # "idle" =>
                call'[b].pc # "idle" /\ call'[b].user = call[b].user
  BY <1>1
<1>2. ASSUME NEW c \in Calls, BindIdentity(c) PROVE Owned'
  BY <1>2, NoneAssumption DEF BindIdentity, Stages, Before
<1>3. ASSUME NEW c \in Calls, Arrive(c) PROVE Owned'
  BY <1>1, <1>3 DEF Arrive
<1>4. ASSUME NEW c \in Calls,
             \/ CheckBreaker(c) \/ LookUp(c) \/ Gate(c) \/ Die(c)
      PROVE  Owned'
  BY <1>1, <1>4, OnlyMoves DEF Moves
<1>5. ASSUME NEW c \in Calls,
             \/ Claim(c) \/ InsertDenied(c) \/ InsertDispatch(c) \/ HmacPost(c)
             \/ Settle(c) \/ Record(c)
      PROVE  Owned'
  <2>1. call'[c].pc # "idle" /\ call'[c].user = call[c].user /\ identity' = identity
    BY <1>5, NoneAssumption
       DEF Claim, InsertDenied, InsertDispatch, Insert, HmacPost, Settle, Record, Stages,
           After, Results
  <2>2. \A b \in Calls \ {c} : call'[b] = call[b]
    BY <1>5 DEF Claim, InsertDenied, InsertDispatch, Insert, HmacPost, Settle, Record
  <2> QED
    BY <1>1, <2>1, <2>2
<1>6. ASSUME NEW d \in Desks, ReadUnknown(d) \/ Reconcile(d) PROVE Owned'
  BY <1>6 DEF ReadUnknown, Reconcile
<1>7. CASE Tick \/ PeriodEnds \/ Lapse \/ UNCHANGED vars
  BY <1>7 DEF Tick, PeriodEnds, Lapse, vars
<1> QED
  BY <1>2, <1>3, <1>4, <1>5, <1>6, <1>7 DEF Next, Proceed

LEMMA KeepsUnique == TypeOK /\ IInv /\ [Next]_vars => UniqueKey'
<1> SUFFICES ASSUME TypeOK, IInv, [Next]_vars PROVE UniqueKey'
  OBVIOUS
<1> USE DEF TypeOK, ledger, IInv, UniqueKey
<1>1. CASE \A c \in Calls : rows'[c] # None =>
              rows[c] # None /\ rows'[c].key = rows[c].key /\ rows'[c].ext = rows[c].ext
  BY <1>1
<1>2. ASSUME NEW c \in Calls, InsertDenied(c) \/ InsertDispatch(c) PROVE UniqueKey'
  <2>1. CASE rows' = rows
    BY <1>1, <2>1
  <2>2. CASE Earlier(c) = {} /\ rows' # rows
    <3>1. /\ rows'[c].ext = call[c].ext /\ rows'[c].key = call[c].key
          /\ \A b \in Calls \ {c} : rows'[b] = rows[b]
      BY <1>2, <2>2 DEF InsertDenied, InsertDispatch, Insert
    <3> QED
      BY <2>2, <3>1 DEF Earlier
  <2> QED
    BY <1>2, <2>1, <2>2 DEF InsertDenied, InsertDispatch, Insert
<1>3. ASSUME NEW c \in Calls, Settle(c) PROVE UniqueKey'
  <2>1. rows[c] \in Rows /\ FinalStatus(c) \in Statuses
    BY <1>3, NoneAssumption
       DEF Settle, Stages, After, CallStates, Results, FinalStatus, Statuses
  <2> QED
    <3>1. rows' = [rows EXCEPT ![c].status = FinalStatus(c)]
      BY <1>3 DEF Settle
    <3>2. /\ rows'[c].key = rows[c].key /\ rows'[c].ext = rows[c].ext
          /\ \A b \in Calls \ {c} : rows'[b] = rows[b]
      BY <2>1, <3>1, Rewritten
    <3> QED
      BY <1>1, <2>1, <3>2, NoneAssumption
<1>4. ASSUME NEW d \in Desks, Reconcile(d) PROVE UniqueKey'
  <2>1. /\ rows[desk[d].row] \in Rows /\ desk[d].row \in Calls
        /\ desk[d].outcome \in Statuses
    BY <1>4 DEF Reconcile, DeskKnows, Statuses
  <2> QED
    <3>1. rows' = [rows EXCEPT ![desk[d].row].status = desk[d].outcome]
      BY <1>4 DEF Reconcile
    <3>2. /\ rows'[desk[d].row].key = rows[desk[d].row].key
          /\ rows'[desk[d].row].ext = rows[desk[d].row].ext
          /\ \A b \in Calls \ {desk[d].row} : rows'[b] = rows[b]
      BY <2>1, <3>1, Rewritten
    <3> QED
      BY <1>1, <2>1, <3>2, NoneAssumption
<1>5. CASE rows' = rows
  BY <1>1, <1>5
<1>6. ASSUME NEW c \in Calls,
             \/ Arrive(c) \/ BindIdentity(c) \/ CheckBreaker(c) \/ LookUp(c) \/ Gate(c)
             \/ Claim(c) \/ HmacPost(c) \/ Record(c) \/ Die(c)
      PROVE  rows' = rows
  BY <1>6 DEF Arrive, BindIdentity, CheckBreaker, LookUp, Gate, Claim, HmacPost, Record, Die
<1>7. ASSUME NEW d \in Desks, ReadUnknown(d) PROVE rows' = rows
  BY <1>7 DEF ReadUnknown
<1>8. CASE Tick \/ PeriodEnds \/ Lapse \/ UNCHANGED vars
  BY <1>5, <1>8 DEF Tick, PeriodEnds, Lapse, vars
<1> QED
  BY <1>2, <1>3, <1>4, <1>5, <1>6, <1>7, <1>8 DEF Next, Proceed

LEMMA KeepsDesk == TypeOK /\ IInv /\ [Next]_vars => DeskKnows'
<1> SUFFICES ASSUME TypeOK, IInv, [Next]_vars PROVE DeskKnows'
  OBVIOUS
<1> USE DEF TypeOK, ledger, world, IInv, DeskKnows
\* a row that a desk has read, and the result of its request, stay
<1>1. CASE /\ desk' = desk
           /\ \A r \in Calls :
                rows[r] # None /\ rows[r].status \notin {"dispatched", "quota_denied"}
                /\ call[r].res = "timeout" => rows'[r] = rows[r] /\ call'[r].res = call[r].res
  BY <1>1
<1>2. ASSUME NEW c \in Calls,
             \/ Arrive(c) \/ BindIdentity(c) \/ Claim(c) \/ InsertDenied(c)
             \/ InsertDispatch(c) \/ HmacPost(c) \/ Settle(c) \/ Record(c)
      PROVE  DeskKnows'
  <2>1. \/ rows[c] = None \/ rows[c].status = "dispatched"
        \/ rows' = rows /\ call'[c].res = call[c].res
    <3>1. CASE call[c].pc \in Early \cup {"post", "settle"}
      BY <3>1 DEF Stages, Before, After
    <3>2. CASE Record(c)
      BY <3>2 DEF Record, CallStates
    <3> QED
      BY <1>2, <3>1, <3>2 DEF Arrive, BindIdentity, Claim, InsertDenied, InsertDispatch,
                              HmacPost, Settle, Early
  <2>2. \A b \in Calls \ {c} : rows'[b] = rows[b] /\ call'[b] = call[b]
    BY <1>2 DEF Arrive, BindIdentity, Claim, InsertDenied, InsertDispatch, Insert, HmacPost,
                Settle, Record
  <2>3. desk' = desk
    BY <1>2 DEF Arrive, BindIdentity, Claim, InsertDenied, InsertDispatch, Insert, HmacPost,
                Settle, Record
  <2> QED
    BY <1>1, <2>1, <2>2, <2>3
<1>3. ASSUME NEW c \in Calls, CheckBreaker(c) \/ LookUp(c) \/ Gate(c) \/ Die(c)
      PROVE  DeskKnows'
  BY <1>1, <1>3, OnlyMoves DEF Moves, CallStates
<1>4. ASSUME NEW d \in Desks, ReadUnknown(d) PROVE DeskKnows'
  BY <1>4 DEF ReadUnknown, Unknown, Stages, Written
<1>5. ASSUME NEW d \in Desks, Reconcile(d) PROVE DeskKnows'
  <2>1. /\ rows[desk[d].row] \in Rows /\ desk[d].row \in Calls
        /\ desk[d].outcome \in Statuses \ {"dispatched", "quota_denied"}
        /\ call' = call
    BY <1>5 DEF Reconcile, Statuses
  <2>2. /\ rows'[desk[d].row] # None
        /\ rows'[desk[d].row].status = desk[d].outcome
        /\ \A b \in Calls \ {desk[d].row} : rows'[b] = rows[b]
    BY <1>5, <2>1, Rewritten DEF Reconcile
  <2>3. \A e \in Desks : desk'[e].pc = "read" => desk[e].pc = "read" /\ desk'[e] = desk[e]
    BY <1>5 DEF Reconcile
  <2> QED
    BY <2>1, <2>2, <2>3
<1>6. CASE Tick \/ PeriodEnds \/ Lapse \/ UNCHANGED vars
  BY <1>6 DEF Tick, PeriodEnds, Lapse, vars
<1> QED
  BY <1>2, <1>3, <1>4, <1>5, <1>6 DEF Next, Proceed

\* One identity, one user: the row of a key was written for the same user.
LEMMA SameCaller ==
    ASSUME TypeOK, IInv, NEW c \in Calls, call[c].pc # "idle", NEW r \in Earlier(c)
    PROVE  Same(c, r)
<1> USE DEF TypeOK, IInv, Earlier
<1>1. rows[r] \in Rows /\ rows[r].ext \in Calls
  BY DEF Rows
<1>2. call[r].pc # "idle" /\ call[r].ext = call[c].ext /\ call[r].key = call[c].key
  BY <1>1 DEF Stages, Before, Written, Early
<1>3. call[c].user \in Users /\ call[r].user \in Users
  BY <1>2 DEF Stages, Before
<1>4. /\ identity[call[c].user] = rows[r].ext
      /\ identity[call[r].user] = rows[r].ext
  BY <1>1, <1>2, NoneAssumption DEF Stages, Before
<1>5. call[c].user = call[r].user
  BY <1>1, <1>3, <1>4, NoneAssumption DEF Owned
<1> QED
  BY <1>2, <1>5 DEF Same

\* No step but Arrive changes who a request is, and no result changes.
LEMMA KeepsCaller ==
    ASSUME TypeOK, IInv, NEW c \in Calls, Proceed(c) \/ Die(c)
    PROVE  \A b \in Calls :
             /\ call'[b].key = call[b].key /\ call'[b].user = call[b].user
             /\ call[b].res # None => call'[b].res = call[b].res
             /\ b # c => call'[b] = call[b]
<1> USE DEF TypeOK, CallStates
<1>1. CASE \/ CheckBreaker(c) \/ LookUp(c) \/ Gate(c) \/ Die(c)
  BY <1>1, OnlyMoves DEF Moves
<1>2. CASE BindIdentity(c) \/ InsertDenied(c) \/ InsertDispatch(c) \/ Settle(c)
  BY <1>2 DEF BindIdentity, InsertDenied, InsertDispatch, Insert, Settle
<1>3. CASE Claim(c)
  BY <1>3 DEF Claim
<1>4. CASE HmacPost(c)
  BY <1>4 DEF HmacPost, IInv, Stages, After
<1>5. CASE Record(c)
  BY <1>5 DEF Record
<1> QED
  BY <1>1, <1>2, <1>3, <1>4, <1>5 DEF Proceed

\* Rows are never removed.
LEMMA KeepsRows ==
    ASSUME TypeOK, IInv, [Next]_vars
    PROVE  \A b \in Calls : rows[b] # None => rows'[b] # None
<1> USE DEF TypeOK, ledger
<1>1. ASSUME NEW c \in Calls,
             \/ Arrive(c) \/ BindIdentity(c) \/ CheckBreaker(c) \/ LookUp(c) \/ Gate(c)
             \/ Claim(c) \/ HmacPost(c) \/ Record(c) \/ Die(c)
      PROVE  rows' = rows
  BY <1>1 DEF Arrive, BindIdentity, CheckBreaker, LookUp, Gate, Claim, HmacPost, Record, Die
<1>2. ASSUME NEW c \in Calls, InsertDenied(c) \/ InsertDispatch(c),
             NEW b \in Calls, rows[b] # None
      PROVE  rows'[b] # None
  BY <1>2 DEF InsertDenied, InsertDispatch, Insert, IInv, Stages, Before, Early
<1>3. ASSUME NEW c \in Calls, Settle(c), NEW b \in Calls, rows[b] # None
      PROVE  rows'[b] # None
  <2>1. rows[c] \in Rows /\ FinalStatus(c) \in Statuses
    BY <1>3, NoneAssumption
       DEF Settle, IInv, Stages, After, CallStates, Results, FinalStatus, Statuses
  <2> QED
    BY <1>3, <2>1, Rewritten DEF Settle
<1>4. ASSUME NEW d \in Desks, Reconcile(d), NEW b \in Calls, rows[b] # None
      PROVE  rows'[b] # None
  <2>1. /\ rows[desk[d].row] \in Rows /\ desk[d].row \in Calls
        /\ desk[d].outcome \in Statuses
    BY <1>4 DEF Reconcile, IInv, DeskKnows, Statuses
  <2> QED
    BY <1>4, <2>1, Rewritten DEF Reconcile
<1>5. ASSUME NEW d \in Desks, ReadUnknown(d) PROVE rows' = rows
  BY <1>5 DEF ReadUnknown
<1>6. CASE Tick \/ PeriodEnds \/ Lapse \/ UNCHANGED vars
  BY <1>6 DEF Tick, PeriodEnds, Lapse, vars
<1> QED
  BY <1>1, <1>2, <1>3, <1>4, <1>5, <1>6 DEF Next, Proceed

LEMMA KeepsEarned == TypeOK /\ IInv /\ [Next]_vars => Earned'
<1> SUFFICES ASSUME TypeOK, IInv, [Next]_vars, NEW b \in Calls, (call[b].key # None)'
             PROVE  /\ call'[b].pc = "ok" =>
                         \E r \in Calls : Same(b, r)' /\ call'[r].res \in {"ok", "timeout"}
                    /\ call'[b].pc = "error" =>
                         \E r \in Calls : Same(b, r)' /\ call'[r].res \in {"error", "timeout"}
  BY DEF Earned
<1> DEFINE Goal == /\ call'[b].pc = "ok" =>
                         \E r \in Calls : Same(b, r)' /\ call'[r].res \in {"ok", "timeout"}
                   /\ call'[b].pc = "error" =>
                         \E r \in Calls : Same(b, r)' /\ call'[r].res \in {"error", "timeout"}
<1>1. CASE /\ \A r \in Calls : call[r].res # None =>
                call'[r].key = call[r].key /\ call'[r].user = call[r].user /\ call'[r].res = call[r].res
           /\ call'[b].key = call[b].key /\ call'[b].user = call[b].user /\ call'[b].pc = call[b].pc
  BY <1>1, NoneAssumption DEF IInv, Earned, Same, Results
<1>2. ASSUME NEW c \in Calls, Arrive(c) PROVE Goal
  <2>1. call[c].res = None /\ call'[c].pc \notin {"ok", "error"}
        /\ \A r \in Calls \ {c} : call'[r] = call[r]
    BY <1>2 DEF Arrive, TypeOK, CallStates, IInv, Stages, Before, Early
  <2> QED
    BY <1>1, <2>1
<1>3. ASSUME NEW c \in Calls, Proceed(c) \/ Die(c) PROVE Goal
  <2>1. CASE b # c \/ call'[b].pc \notin {"ok", "error"}
    BY <1>1, <1>3, <2>1, KeepsCaller
  <2>2. CASE b = c /\ Record(c)
    BY <2>2 DEF Record, Same, TypeOK, CallStates
  <2>3. CASE b = c /\ LookUp(c) /\ call'[c].pc \in {"ok", "error"}
    <3>1. PICK r \in Earlier(c) : call'[c].pc = Replays(rows[r].status)
      BY <2>3 DEF LookUp, TypeOK, CallStates
    <3>2. Same(c, r) /\ rows[r] # None /\ r \in Calls
      BY <2>3, <3>1, SameCaller DEF LookUp, Earlier
    <3>3. Same(c, r)'
      BY <1>3, <3>2, KeepsCaller DEF Same
    <3>4. call'[r].res = call[r].res /\ rows[r].status \in Statuses
      BY <2>3, <3>2 DEF LookUp, TypeOK, CallStates, Rows
    <3>5. /\ call'[c].pc = "ok" => call[r].res \in {"ok", "timeout"}
          /\ call'[c].pc = "error" => call[r].res \in {"error", "timeout"}
      <4>1. /\ rows[r].status \in {"succeeded", "overage"} => call[r].res \in {"ok", "timeout"}
            /\ rows[r].status = "failed" => call[r].res \in {"error", "timeout"}
        BY <3>2 DEF IInv, Stages, Written
      <4>2. /\ call'[c].pc = "ok" => rows[r].status \in {"succeeded", "overage"}
            /\ call'[c].pc = "error" => rows[r].status = "failed"
        BY <2>3, <3>1, <3>4, NoneAssumption DEF Replays, Statuses, Results
      <4> QED
        BY <4>1, <4>2
    <3> QED
      BY <2>3, <3>2, <3>3, <3>4, <3>5
  <2>4. b = c /\ call'[b].pc \in {"ok", "error"} => Record(c) \/ LookUp(c)
    BY <1>3 DEF Proceed, BindIdentity, CheckBreaker, Gate, Claim, InsertDenied, InsertDispatch,
                Insert, HmacPost, Settle, Die, TypeOK, CallStates
  <2> QED
    BY <2>1, <2>2, <2>3, <2>4
<1>4. ASSUME NEW d \in Desks, ReadUnknown(d) \/ Reconcile(d) PROVE Goal
  BY <1>1, <1>4 DEF ReadUnknown, Reconcile
<1>5. CASE Tick \/ PeriodEnds \/ Lapse \/ UNCHANGED vars
  BY <1>1, <1>5 DEF Tick, PeriodEnds, Lapse, vars
<1> QED
  BY <1>2, <1>3, <1>4, <1>5 DEF Next

LEMMA KeepsPaid == TypeOK /\ IInv /\ [Next]_vars => Paid'
<1> SUFFICES ASSUME TypeOK, IInv, [Next]_vars, NEW b \in Calls,
                    call'[b].claimed, rows'[b] = None
             PROVE  \/ call'[b].pc \in {"insert", "died"}
                    \/ call'[b].pc = "threw"
                       /\ \E r \in Calls \ {b} : Same(b, r)' /\ rows'[r] # None
  BY DEF Paid
<1> DEFINE Goal == \/ call'[b].pc \in {"insert", "died"}
                   \/ call'[b].pc = "threw"
                      /\ \E r \in Calls \ {b} : Same(b, r)' /\ rows'[r] # None
<1>0. rows[b] = None /\ \A r \in Calls : rows[r] # None => rows'[r] # None
  BY KeepsRows
<1>1. CASE /\ \A r \in Calls : rows[r] # None =>
                call'[r].key = call[r].key /\ call'[r].user = call[r].user
           /\ call'[b].claimed = call[b].claimed
           /\ call'[b].key = call[b].key /\ call'[b].user = call[b].user
           /\ call'[b].pc = call[b].pc
  BY <1>0, <1>1 DEF IInv, Paid, Same
<1>2. ASSUME NEW c \in Calls, Arrive(c) PROVE Goal
  <2>1. /\ rows[c] = None /\ ~call'[c].claimed
        /\ \A r \in Calls \ {c} : call'[r] = call[r]
    BY <1>2 DEF Arrive, TypeOK, CallStates, IInv, Stages, Before, Early
  <2> QED
    BY <1>1, <2>1
<1>3. ASSUME NEW c \in Calls, Proceed(c) \/ Die(c) PROVE Goal
  <2>1. CASE b # c
    BY <1>1, <1>3, <2>1, KeepsCaller
  <2>2. CASE b = c /\ InsertDispatch(c)
    <3>1. CASE Earlier(c) = {}
      <4> DEFINE row == [ext |-> call[c].ext, key |-> call[c].key, status |-> "dispatched",
                         at |-> now]
      <4>1. rows'[c] = row
        BY <2>2, <3>1 DEF InsertDispatch, Insert, TypeOK
      <4>2. call[c].ext \in Calls /\ call[c].key \in Keys \cup {None} /\ now \in Nat
        BY <2>2 DEF InsertDispatch, TypeOK, CallStates, IInv, Stages, Before, Early
      <4>3. row \in Rows
        BY <4>2 DEF Rows, Statuses
      <4> QED
        BY <2>2, <4>1, <4>3, NoneAssumption
    <3>2. ASSUME NEW r \in Earlier(c) PROVE Goal
      <4>1. call[c].pc # "idle" /\ call'[c].pc = "threw"
        BY <2>2 DEF InsertDispatch, Insert, TypeOK, CallStates
      <4>2. Same(c, r) /\ rows[r] # None /\ r \in Calls
        BY <4>1, SameCaller DEF Earlier
      <4>3. Same(c, r)'
        BY <1>3, <4>2, KeepsCaller DEF Same
      <4> QED
        BY <1>0, <2>2, <4>1, <4>2, <4>3
    <3> QED
      BY <3>1, <3>2
  <2>3. CASE b = c /\ (Die(c) \/ Claim(c))
    BY <2>3 DEF Die, Claim, TypeOK, CallStates, IInv, Stages, Before, Early
  <2>4. CASE b = c /\ ~InsertDispatch(c) /\ ~Die(c) /\ ~Claim(c)
    <3>1. CASE call[c].pc \in Early \ {"insert"}
      <4>1. call'[c].claimed = call[c].claimed
        BY <1>3, <2>4 DEF Proceed, BindIdentity, CheckBreaker, LookUp, Gate, InsertDenied,
                          Insert, HmacPost, Settle, Record, TypeOK, CallStates
      <4> QED
        BY <2>4, <3>1, <4>1 DEF IInv, Stages, Before
    <3>2. CASE call[c].pc \notin Early \ {"insert"}
      BY <1>0, <1>3, <2>4, <3>2
         DEF Proceed, BindIdentity, CheckBreaker, LookUp, Gate, InsertDenied, HmacPost,
             Settle, Record, Early, IInv, Stages, After
    <3> QED
      BY <3>1, <3>2
  <2> QED
    BY <2>1, <2>2, <2>3, <2>4
<1>4. ASSUME NEW d \in Desks, ReadUnknown(d) \/ Reconcile(d) PROVE Goal
  BY <1>1, <1>4 DEF ReadUnknown, Reconcile
<1>5. CASE Tick \/ PeriodEnds \/ Lapse \/ UNCHANGED vars
  BY <1>1, <1>5 DEF Tick, PeriodEnds, Lapse, vars, world, ledger
<1> QED
  BY <1>2, <1>3, <1>4, <1>5 DEF Next

LEMMA KeepsInv == TypeOK /\ IInv /\ [Next]_vars => (TypeOK /\ IInv)'
  BY KeepsTypes, KeepsStages, KeepsOwned, KeepsUnique, KeepsDesk, KeepsEarned, KeepsPaid
     DEF IInv

-----------------------------------------------------------------------------
(* What the invariant is for.                                              *)

\* Two rows of one user and one key are one row.
LEMMA OneRow ==
    ASSUME TypeOK, IInv, NEW c \in Calls, NEW d \in Calls, Same(c, d),
           rows[c] # None, rows[d] # None
    PROVE  c = d
<1>1. /\ rows[c].ext \in Calls /\ rows[d].ext \in Calls
      /\ rows[c].ext = call[c].ext /\ rows[d].ext = call[d].ext
      /\ rows[c].key = call[c].key /\ rows[d].key = call[d].key
  BY DEF TypeOK, Rows, IInv, Stages, Written
<1>2. call[c].ext = call[d].ext
  BY <1>1, NoneAssumption DEF IInv, Stages, Before, Same
<1> QED
  BY <1>1, <1>2 DEF IInv, UniqueKey, Same

LEMMA InvSuffices == TypeOK /\ IInv => OneDispatchPerKey /\ SlotHasInvocation
<1> SUFFICES ASSUME TypeOK, IInv PROVE OneDispatchPerKey /\ SlotHasInvocation
  OBVIOUS
<1>1. OneDispatchPerKey
  BY OneRow DEF OneDispatchPerKey, Sent
<1>2. SlotHasInvocation
  BY DEF SlotHasInvocation, IInv, Stages, Written, Paid
<1> QED
  BY <1>1, <1>2

LEMMA AnswersAgree == TypeOK /\ IInv => RepeatsAgree
<1> SUFFICES ASSUME TypeOK, IInv, NEW c \in Calls, NEW d \in Calls,
                    Same(c, d), call[c].pc = "ok", call[d].pc = "error"
             PROVE  \E r \in Calls : Same(c, r) /\ call[r].res = "timeout"
  BY DEF RepeatsAgree
<1>1. PICK q \in Calls : Same(c, q) /\ call[q].res \in {"ok", "timeout"}
  BY DEF IInv, Earned, Same
<1>2. PICK r \in Calls : Same(d, r) /\ call[r].res \in {"error", "timeout"}
  BY DEF IInv, Earned, Same
<1>3. rows[q] # None /\ rows[r] # None /\ Same(q, r)
  BY <1>1, <1>2, NoneAssumption DEF IInv, Stages, After, Same, Results
<1>4. q = r
  BY <1>3, OneRow
<1> QED
  BY <1>1, <1>2, <1>4

\* Only Settle, of a dispatched row, and Reconcile, of a timeout, rewrite.
LEMMA StepStays ==
    ASSUME TypeOK, IInv, [Next]_vars, NEW c \in Calls,
           Sent(c), rows[c].status # "dispatched", call[c].res # "timeout"
    PROVE  rows'[c] = rows[c]
<1> USE DEF TypeOK, ledger, Sent
<1>1. ASSUME NEW b \in Calls,
             \/ Arrive(b) \/ BindIdentity(b) \/ CheckBreaker(b) \/ LookUp(b) \/ Gate(b)
             \/ Claim(b) \/ HmacPost(b) \/ Record(b) \/ Die(b)
      PROVE  rows' = rows
  BY <1>1 DEF Arrive, BindIdentity, CheckBreaker, LookUp, Gate, Claim, HmacPost, Record, Die
<1>2. ASSUME NEW b \in Calls, InsertDenied(b) \/ InsertDispatch(b) \/ Settle(b)
      PROVE  rows'[c] = rows[c]
  <2>1. b # c
    BY <1>2 DEF InsertDenied, InsertDispatch, Settle, IInv, Stages, Before, After, Early
  <2> QED
    BY <1>2, <2>1 DEF InsertDenied, InsertDispatch, Insert, Settle
<1>3. ASSUME NEW d \in Desks, Reconcile(d) PROVE rows'[c] = rows[c]
  <2>1. desk[d].row # c
    BY <1>3 DEF Reconcile, IInv, DeskKnows
  <2> QED
    BY <1>3, <2>1 DEF Reconcile
<1>4. ASSUME NEW d \in Desks, ReadUnknown(d) PROVE rows' = rows
  BY <1>4 DEF ReadUnknown
<1>5. CASE Tick \/ PeriodEnds \/ Lapse \/ UNCHANGED vars
  BY <1>5 DEF Tick, PeriodEnds, Lapse, vars
<1> QED
  BY <1>1, <1>2, <1>3, <1>4, <1>5 DEF Next, Proceed

-----------------------------------------------------------------------------
LEMMA Always == Spec => [](TypeOK /\ IInv)
  BY InitInv, KeepsInv, PTL DEF Spec

\* Type correctness of the requests, the ledger, the quota and the breaker.
THEOREM TypeCorrect == Spec => []TypeOK
  BY Always, PTL

\* actions.ts, step 6: of all requests of a user with one idempotency key at
\* most one reaches the integrator, though the key is looked up long before
\* the row is inserted.
THEOREM OneDispatch == Spec => []OneDispatchPerKey
  BY Always, InvSuffices, PTL

\* A claimed slot has an invocation, unless its request died or lost the race
\* for its key.
THEOREM SlotUsed == Spec => []SlotHasInvocation
  BY Always, InvSuffices, PTL

\* A replayed answer contradicts the first only after a timeout.
THEOREM RepeatsConsistent == Spec => []RepeatsAgree
  BY Always, AnswersAgree, PTL

\* What the integrator answered is never rewritten.
THEOREM Stays == Spec => OutcomeStays
<1>1. TypeOK /\ IInv /\ [Next]_vars =>
        [\A c \in Calls : Sent(c) /\ rows[c].status # "dispatched" /\ call[c].res # "timeout" =>
            rows'[c] = rows[c]]_vars
  BY StepStays
<1> QED
  BY <1>1, Always, PTL DEF Spec, OutcomeStays

-----------------------------------------------------------------------------
(* The breaker.                                                            *)

\* An outcome in the window is that of a request that has ended, when it did.
Recorded(e) ==
    /\ call[e.by].pc \in Results /\ call[e.by].res # None
    /\ e.t = call[e.by].at /\ e.t <= now
    /\ ~e.ok => call[e.by].pc \in {"timeout", "error"}

FailedAt(t) == {c \in Calls : /\ call[c].pc \in {"timeout", "error"} /\ call[c].res # None
                              /\ call[c].at \in t - Window .. t}

Caused == bucket.openedUntil > 0 =>
              2 * Cardinality(FailedAt(bucket.openedUntil - OpenFor)) >= MinSamples

\* A state has finitely many requests behind it, however many may come.
Begun == {c \in Calls : call[c].pc # "idle"}

BreakerInv ==
    /\ IsFiniteSet(Begun)
    /\ \A e, f \in bucket.events : e.by = f.by => e = f
    /\ \A e \in bucket.events : Recorded(e)
    /\ Caused

\* Outcomes of different requests are as many as the requests.
LEMMA CountOutcomes ==
    ASSUME NEW es \in SUBSET Outcomes, NEW T, IsFiniteSet(T),
           \A e \in es : e.by \in T, \A e, f \in es : e.by = f.by => e = f
    PROVE  /\ IsFiniteSet(es) /\ Cardinality(es) \in Nat /\ Cardinality(T) \in Nat
           /\ Cardinality(es) <= Cardinality(T)
<1> DEFINE by == [e \in es |-> e.by]
<1>1. by \in Injection(es, T)
  BY DEF Injection, IsInjective
<1> HIDE DEF by
<1> QED
  BY <1>1, FS_Injection, FS_CardinalityType

LEMMA BegunFinite == TypeOK /\ IsFiniteSet(Begun) /\ [Next]_vars => IsFiniteSet(Begun')
<1> SUFFICES ASSUME TypeOK, IsFiniteSet(Begun), [Next]_vars PROVE IsFiniteSet(Begun')
  OBVIOUS
<1> DEFINE Alone(c) == \A b \in Calls \ {c} : call'[b] = call[b]
<1>1. (\E c \in Calls : Alone(c)) \/ call' = call
  <2> USE DEF TypeOK
  <2>1. ASSUME NEW c \in Calls, Arrive(c) \/ Proceed(c) \/ Die(c) PROVE Alone(c)
    <3>1. CASE Arrive(c) \/ Die(c) \/ BindIdentity(c) \/ CheckBreaker(c) \/ LookUp(c)
      BY <3>1 DEF Arrive, Die, BindIdentity, CheckBreaker, LookUp
    <3>2. CASE Gate(c) \/ Claim(c) \/ InsertDenied(c) \/ InsertDispatch(c)
      BY <3>2 DEF Gate, Claim, InsertDenied, InsertDispatch, Insert
    <3>3. CASE HmacPost(c) \/ Settle(c) \/ Record(c)
      BY <3>3 DEF HmacPost, Settle, Record
    <3> QED
      BY <2>1, <3>1, <3>2, <3>3 DEF Proceed
  <2>2. ASSUME NEW d \in Desks, ReadUnknown(d) \/ Reconcile(d) PROVE call' = call
    BY <2>2 DEF ReadUnknown, Reconcile
  <2>3. CASE Tick \/ PeriodEnds \/ Lapse \/ UNCHANGED vars
    BY <2>3 DEF Tick, PeriodEnds, Lapse, vars
  <2> HIDE DEF Alone
  <2> QED
    BY <2>1, <2>2, <2>3 DEF Next
<1>2. CASE call' = call
  BY <1>2 DEF Begun
<1>3. ASSUME NEW c \in Calls, Alone(c) PROVE IsFiniteSet(Begun')
  <2>1. Begun' \subseteq Begun \cup {c}
    BY <1>3 DEF Begun
  <2>2. IsFiniteSet(Begun \cup {c})
    BY FS_AddElement
  <2> QED
    BY <2>1, <2>2, FS_Subset
<1> QED
  BY <1>1, <1>2, <1>3

\* Whoever has ended with a result stays as it is.
LEMMA FailuresStay ==
    ASSUME TypeOK, BreakerInv, IsFiniteSet(Begun'), bucket' = bucket, now' >= now, now' \in Nat,
           \A c \in Calls : call[c].pc \in Results /\ call[c].res # None => call'[c] = call[c]
    PROVE  BreakerInv'
<1>1. bucket.events \subseteq Outcomes /\ bucket.openedUntil \in Nat
  BY DEF TypeOK
<1>2. \A e \in bucket.events : e.by \in Calls /\ e.t \in Nat /\ now \in Nat
  BY <1>1 DEF TypeOK, Outcomes
<1>3. \A e \in bucket.events : Recorded(e)'
  BY <1>2 DEF BreakerInv, Recorded
<1>4. ASSUME bucket.openedUntil > 0 PROVE Caused'
  <2> DEFINE t == bucket.openedUntil - OpenFor
  <2>1. FailedAt(t) \subseteq FailedAt(t)'
    BY DEF FailedAt, Results
  <2>2. IsFiniteSet(FailedAt(t)')
    <3>1. FailedAt(t)' \subseteq Begun'
      BY DEF FailedAt, Begun
    <3> QED
      BY <3>1, FS_Subset
  <2>3. /\ Cardinality(FailedAt(t)) <= Cardinality(FailedAt(t)')
        /\ Cardinality(FailedAt(t)) \in Nat /\ Cardinality(FailedAt(t)') \in Nat
    BY <2>1, <2>2, FS_Subset, FS_CardinalityType
  <2>4. 2 * Cardinality(FailedAt(t)) >= MinSamples
    BY <1>4 DEF BreakerInv, Caused
  <2>5. 2 * Cardinality(FailedAt(t)') >= MinSamples
    BY <2>3, <2>4, NumbersAssumption
  <2> QED
    BY <2>5 DEF Caused, FailedAt
<1> QED
  BY <1>3, <1>4 DEF BreakerInv, Caused

LEMMA RecordKeepsBreaker ==
    ASSUME TypeOK, BreakerInv, IsFiniteSet(Begun'), NEW c \in Calls, Record(c), call[c].res # None
    PROVE  BreakerInv'
<1> DEFINE new == [by |-> c, t |-> now, ok |-> call[c].res = "ok"]
           es  == PruneOld(bucket.events, now) \cup {new}
           bad == {e \in es : ~e.ok}
<1>1. /\ bucket.events \subseteq Outcomes /\ bucket.openedUntil \in Nat /\ now \in Nat
      /\ call[c] \in CallStates /\ call[c].pc = "record" /\ now' = now
      /\ call' = [call EXCEPT ![c].pc = call[c].res, ![c].at = now]
      /\ bucket'.events = es
  BY DEF TypeOK, Record, world, RecordOutcome
<1>2. call[c].res \in Results
  BY <1>1 DEF CallStates
<1>3. \A e \in bucket.events : Recorded(e) /\ e.by \in Calls /\ e.by # c /\ e.t \in Nat
  BY <1>1 DEF BreakerInv, Recorded, Outcomes, Results
<1>4. es \subseteq Outcomes /\ \A e, f \in es : e.by = f.by => e = f
  <2>1. new \in Outcomes /\ new.by = c
    BY <1>1 DEF Outcomes
  <2>2. PruneOld(bucket.events, now) \subseteq bucket.events
    BY DEF PruneOld
  <2> HIDE DEF new
  <2> QED
    BY <1>1, <1>3, <2>1, <2>2 DEF BreakerInv
<1>5. /\ call'[c].pc = call[c].res /\ call'[c].res = call[c].res /\ call'[c].at = now
      /\ \A b \in Calls \ {c} : call'[b] = call[b]
  BY <1>1 DEF TypeOK, CallStates
<1>6. \A e \in es : Recorded(e)'
  <2>1. \A e \in PruneOld(bucket.events, now) : Recorded(e)'
    BY <1>1, <1>3, <1>5 DEF Recorded, PruneOld
  <2>2. \A e : e = new => Recorded(e)'
    <3> SUFFICES ASSUME NEW e, e = new PROVE Recorded(e)'
      OBVIOUS
    <3>1. e.by = c /\ e.t = now /\ (e.ok <=> call[c].res = "ok")
      OBVIOUS
    <3> QED
      BY <3>1, <1>1, <1>2, <1>5 DEF Recorded, Results
  <2> QED
    BY <2>1, <2>2
<1>7. Caused'
  <2> DEFINE opens == /\ Cardinality(es) >= MinSamples /\ bucket.openedUntil <= now
                      /\ 2 * Cardinality(bad) >= Cardinality(es)
  <2>1. bucket'.openedUntil = IF opens THEN now + OpenFor ELSE bucket.openedUntil
    BY DEF Record, RecordOutcome
  <2>2. CASE opens
    <3>1. \A e \in bad : e.by \in FailedAt(now)'
      <4>1. \A e \in es : e.t \in now - Window .. now
        BY <1>1, <1>3, NumbersAssumption DEF PruneOld, BreakerInv, Recorded
      <4> QED
        BY <4>1, <1>1, <1>4, <1>6 DEF FailedAt, Recorded, Outcomes
    <3>2. IsFiniteSet(FailedAt(now)')
      <4>1. FailedAt(now)' \subseteq Begun'
        BY DEF FailedAt, Begun
      <4> QED
        BY <4>1, FS_Subset
    <3>3. /\ Cardinality(bad) \in Nat /\ Cardinality(FailedAt(now)') \in Nat
          /\ Cardinality(bad) <= Cardinality(FailedAt(now)')
      <4>1. bad \in SUBSET Outcomes /\ \A e, f \in bad : e.by = f.by => e = f
        BY <1>4
      <4> HIDE DEF bad
      <4> QED
        BY <4>1, <3>1, <3>2, CountOutcomes
    <3>4. Cardinality(es) \in Nat
      <4>1. \A e \in es : e.by \in Begun'
        BY <1>4, <1>6 DEF Outcomes, Recorded, Begun, Results
      <4> HIDE DEF es
      <4> QED
        BY <4>1, <1>4, CountOutcomes
    <3>5. 2 * Cardinality(FailedAt(now)') >= MinSamples
      <4> HIDE DEF bad, es
      <4> QED
        BY <2>2, <3>3, <3>4, NumbersAssumption
    <3>6. bucket'.openedUntil - OpenFor = now
      BY <2>1, <2>2, <1>1, NumbersAssumption
    <3> QED
      BY <1>1, <3>5, <3>6 DEF Caused, FailedAt
  <2>3. CASE ~opens
    <3> DEFINE t == bucket.openedUntil - OpenFor
    <3>1. bucket'.openedUntil = bucket.openedUntil
      BY <2>1, <2>3
    <3>2. FailedAt(t) \subseteq FailedAt(t)'
      BY <1>1, <1>5, <3>1 DEF FailedAt
    <3>3. IsFiniteSet(FailedAt(t)')
      <4>1. FailedAt(t)' \subseteq Begun'
        BY DEF FailedAt, Begun
      <4> QED
        BY <4>1, FS_Subset
    <3>4. /\ Cardinality(FailedAt(t)) <= Cardinality(FailedAt(t)')
          /\ Cardinality(FailedAt(t)) \in Nat /\ Cardinality(FailedAt(t)') \in Nat
      BY <3>2, <3>3, FS_Subset, FS_CardinalityType
    <3>5. bucket.openedUntil > 0 => 2 * Cardinality(FailedAt(t)) >= MinSamples
      BY DEF BreakerInv, Caused
    <3>6. bucket.openedUntil > 0 => 2 * Cardinality(FailedAt(t)') >= MinSamples
      BY <3>4, <3>5, NumbersAssumption
    <3> QED
      BY <3>1, <3>6 DEF Caused, FailedAt
  <2> QED
    BY <2>2, <2>3
<1> QED
  BY <1>1, <1>4, <1>6, <1>7 DEF BreakerInv

LEMMA KeepsBreaker ==
    ASSUME TypeOK, IInv, BreakerInv, [Next]_vars
    PROVE  BreakerInv'
<1> DEFINE Ends == \A c \in Calls :
                       call[c].pc \in Results /\ call[c].res # None => call'[c] = call[c]
<1>0. now \in Nat /\ IsFiniteSet(Begun')
  BY BegunFinite DEF TypeOK, BreakerInv
<1> USE DEF TypeOK, ledger, billing, world, Results, Steps
<1>1. ASSUME NEW b \in Calls,
             \/ Arrive(b) \/ BindIdentity(b) \/ CheckBreaker(b) \/ LookUp(b) \/ Gate(b)
             \/ Claim(b) \/ InsertDenied(b) \/ InsertDispatch(b) \/ HmacPost(b) \/ Settle(b) \/ Die(b)
      PROVE  Ends /\ bucket' = bucket /\ now' = now
  <2>1. CASE Arrive(b) \/ BindIdentity(b) \/ CheckBreaker(b) \/ LookUp(b)
    BY <1>1, <2>1 DEF Arrive, BindIdentity, CheckBreaker, LookUp
  <2>2. CASE Gate(b) \/ Claim(b) \/ InsertDenied(b) \/ InsertDispatch(b)
    BY <1>1, <2>2 DEF Gate, Claim, InsertDenied, InsertDispatch, Insert
  <2>3. CASE HmacPost(b) \/ Settle(b) \/ Die(b)
    BY <1>1, <2>3 DEF HmacPost, Settle, Die
  <2> QED
    BY <1>1, <2>1, <2>2, <2>3
<1>2. ASSUME NEW d \in Desks, ReadUnknown(d) \/ Reconcile(d)
      PROVE  Ends /\ bucket' = bucket /\ now' = now
  BY <1>2 DEF ReadUnknown, Reconcile
<1>3. CASE Tick \/ PeriodEnds \/ Lapse \/ UNCHANGED vars
  <2>1. Ends /\ bucket' = bucket /\ now' \in Nat /\ now' >= now
    BY <1>3 DEF Tick, PeriodEnds, Lapse, vars
  <2> QED
    BY <1>0, <2>1, FailuresStay
<1>4. ASSUME NEW b \in Calls, Record(b) PROVE BreakerInv'
  <2>1. call[b].res # None
    BY <1>4 DEF Record, IInv, Stages, After
  <2> QED
    BY <1>0, <1>4, <2>1, RecordKeepsBreaker
<1>5. ASSUME Ends, bucket' = bucket, now' = now PROVE BreakerInv'
  BY <1>0, <1>5, FailuresStay
<1> HIDE DEF Ends
<1> QED
  BY <1>1, <1>2, <1>3, <1>4, <1>5 DEF Next, Proceed

\* breaker.ts: whenever the breaker has opened, requests that really failed
\* within its window were at least half of the smallest sample.
THEOREM Cause == Spec => []OpenForCause
<1>1. Init => BreakerInv
  <2>1. Init => Begun = {}
    BY DEF Init, Begun
  <2> QED
    BY <2>1, FS_EmptySet DEF Init, BreakerInv, Caused
<1>2. TypeOK /\ IInv /\ BreakerInv /\ [Next]_vars => BreakerInv'
  BY KeepsBreaker
<1>3. BreakerInv => OpenForCause
  BY DEF BreakerInv, Caused, FailedAt, OpenForCause
<1> QED
  BY <1>1, <1>2, <1>3, Always, PTL DEF Spec

=============================================================================
