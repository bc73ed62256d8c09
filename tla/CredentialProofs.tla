-------------------------- MODULE CredentialProofs --------------------------
(***************************************************************************)
(* The two stores that rotate secrets: the API keys of an account          *)
(* (KeyRing) and the access tokens of a workspace (TokenStore).            *)
(*                                                                         *)
(* Rotation never leaves an account without a key, a deletion is final, a  *)
(* refunded request has left behind only what is named, and the list       *)
(* agrees with the provider, for every number of requests and keys.        *)
(*                                                                         *)
(* The token file tells a consistent story for every set of requests,      *)
(* although any of them may write back a stale copy.  The reason is that a *)
(* rotation revokes the old token and adds the new one in a single         *)
(* document: what is asked of the file is asked of every copy in memory    *)
(* (Sane), and a request that changes a copy keeps it sane.                *)
(***************************************************************************)
EXTENDS KeyRing, TokenStore, Naturals, TLAPS

\* What a request does where it stands.
Path(c) ==
    /\ call[c].op \in {"rotate", "reveal"} => call[c].old \in Keys \ {c}
    /\ call[c].pc # "idle" => call[c].op \in Ops
    /\ call[c].pc = "idle" => call[c].op = None
    /\ call[c].pc \in {"own", "revoke", "forget"} => call[c].op = "rotate"
    /\ call[c].pc = "read" => call[c].op \in {"rotate", "reveal"}
    /\ call[c].pc \in {"decrypt", "scrub"} => call[c].op = "reveal"
    /\ call[c].pc \in {"create", "insert"} => call[c].op \in {"mint", "rotate"}
    /\ call[c].pc \in {"teardown", "erase", "unlink", "remove"} => call[c].op = "delete"
    /\ call[c].receipt = "returned" => call[c].pc = "failed"
    /\ call[c].pc = "idle" => call[c].receipt = "none"
    /\ call[c].pc = "read" /\ call[c].op = "reveal" => call[c].receipt = "none"
Paths == \A c \in Calls : Path(c)

\* An account that is gone has no keys and no job, and an answered deletion
\* has removed it.
Gone ==
    /\ ~account => Stored = {} /\ ~linked
    /\ \A c \in Calls : Deletes(c) /\ call[c].pc \in {"audit", "done"} => ~account

\* A new key is in the ring once its insert is through.
Inserted(c) == row[c] # "none"
Rings ==
    \A c \in Calls :
        /\ Inserted(c) => /\ call[c].op \in {"mint", "rotate"}
                          /\ call[c].pc \in {"revoke", "forget", "audit", "refund", "done",
                                             "failed", "died"}
                          /\ call[c].op = "mint" => call[c].pc \in {"audit", "done", "died"}
                          /\ call[c].pc \in {"refund", "failed"} => call[c].broke = "revoke"
        /\ call[c].pc \in {"revoke", "forget"} => Inserted(c)

\* Request d has replaced key k.
Replaced(d, k) ==
    /\ call[d].op = "rotate" /\ call[d].old = k /\ Inserted(d)
    /\ call[d].pc \in {"forget", "audit", "done", "died"}
Replacement == \A k \in Keys : row[k] = "revoked" => \E d \in Calls : Replaced(d, k)

\* Request c wants the bytes of a key and may still be given them.
Wants(c) ==
    /\ call[c].op = "reveal"
    /\ call[c].pc \in {"gate", "decrypt", "scrub", "refund"} \/ call[c].receipt = "returned"
Scrubbed(d, k) ==
    call[d].op = "reveal" /\ call[d].old = k /\ call[d].pc \in {"audit", "done", "died"}
Bytes ==
    \A c \in Calls : Wants(c) /\ call[c].old \notin bytes =>
        \E d \in Calls : Scrubbed(d, call[c].old) \/ Erases(d)

\* The bytes of a key that was revealed are gone, and a reveal that came after
\* the answer has not got beyond reading the key.
Revealing ==
    /\ \A c \in Calls : call[c].op = "reveal" /\ call[c].pc \in {"audit", "done"} =>
          call[c].old \notin bytes
    /\ \A c \in Calls : call[c].late =>
          /\ call[c].op = "reveal" /\ call[c].receipt = "none"
          /\ call[c].pc \in {"missing", "read", "gone", "failed", "died"}
          /\ call[c].old \notin bytes

\* The keys can be numbered in the order of their inserts: a rotation inserts
\* its key after the key it replaces, so the last of all is not revoked.
Ordered(rank, last) ==
    /\ row[last] # "none"
    /\ \A k \in Keys : row[k] # "none" => rank[k] <= rank[last]
    /\ \A d \in Calls : call[d].op = "rotate" /\ Inserted(d) =>
          row[call[d].old] # "none" /\ rank[call[d].old] < rank[d]
Order == \E rank \in [Keys -> Nat], last \in Keys : Ordered(rank, last)

\* The key that a rotation has read is there.
Read ==
    \A c \in Calls : call[c].op = "rotate" /\ call[c].pc \in {"create", "insert", "revoke", "forget"} =>
        row[call[c].old] # "none"

\* What a deletion undoes has a deletion that got so far.
Erased ==
    /\ \A k \in Keys : row[k] = "deleted" => \E c \in Calls : Erases(c)
    /\ ~linked => \E c \in Calls : Unlinks(c)
    /\ ~account => \E c \in Calls : Removes(c)

IInv == Paths /\ Gone /\ Rings /\ Replacement /\ Bytes /\ Revealing /\ Order /\ Read /\ Erased

-----------------------------------------------------------------------------
LEMMA InitInv == Init => TypeOK /\ IInv
<1> SUFFICES ASSUME Init PROVE TypeOK /\ IInv
  OBVIOUS
<1> USE KeysAssumption DEF Init, Keys, Ops, Vias
<1>1. TypeOK
  BY DEF TypeOK
<1>2. Paths /\ Gone /\ Rings /\ Read
  BY DEF Paths, Path, Gone, Stored, Deletes, Rings, Inserted, Read
<1>3. Replacement /\ Bytes /\ Revealing /\ Erased
  BY DEF Replacement, Bytes, Wants, Revealing, Erased
<1>4. Order
  <2>1. Ordered([k \in Keys |-> 0], First)
    BY DEF Ordered, Inserted
  <2>2. [k \in Keys |-> 0] \in [Keys -> Nat] /\ First \in Keys
    OBVIOUS
  <2> QED
    BY <2>1, <2>2 DEF Order
<1> QED
  BY <1>1, <1>2, <1>3, <1>4 DEF IInv

LEMMA Asked ==
    ASSUME NEW c \in Calls, NEW a \in Asks[c]
    PROVE  /\ a.op \in Ops /\ a.via \in Vias /\ a.old \in Keys \cup {None}
           /\ a.op \in {"rotate", "reveal"} => a.old \in Keys \ {c}
           /\ a.via = "session" => a.op \in {"mint", "rotate"}
<1>1. Asks[c] \subseteq [op : Ops, via : Vias, old : Keys \cup {None}]
  BY AsksAssumption
<1> QED
  BY <1>1, AsksAssumption

\* Start: what is asked, and where the request begins.
Late(a) == a.op = "reveal" /\ Revealed(a.old)
Starts(c, a, pc) ==
    /\ call' = [call EXCEPT ![c] = [call[c] EXCEPT !.pc = pc, !.op = a.op, !.via = a.via,
                                                   !.old = a.old, !.late = Late(a)]]
    /\ pc = "read" => a.op \in {"rotate", "reveal"}
    /\ pc = "create" => a.op = "mint"
    /\ pc = "gate" => a.op # "reveal"
    /\ a.op = "reveal" => pc \in {"missing", "read"}

LEMMA StartShape ==
    ASSUME TypeOK, NEW c \in Calls, Start(c)
    PROVE  /\ call[c].pc = "idle" /\ UNCHANGED <<tables, remote>>
           /\ \E a \in Asks[c] : \E pc \in {"missing", "read", "create", "gate"} :
                Starts(c, a, pc)
<1>1. call[c].pc = "idle" /\ UNCHANGED <<tables, remote>>
  BY DEF Start
<1> DEFINE to(a, pc) == [call EXCEPT ![c].pc = pc, ![c].op = a.op, ![c].via = a.via,
                                     ![c].old = a.old, ![c].late = Late(a)]
<1>2. PICK a \in Asks[c] :
        call' = IF ~account THEN to(a, "missing")
                ELSE IF a.op = "reveal" \/ (a.op = "rotate" /\ a.via = "session") THEN to(a, "read")
                ELSE IF a.via = "session" THEN to(a, "create")
                ELSE to(a, "gate")
  BY DEF Start, Late
<1>3. ASSUME NEW pc
      PROVE  to(a, pc) = [call EXCEPT ![c] = [call[c] EXCEPT !.pc = pc, !.op = a.op,
                                                             !.via = a.via, !.old = a.old,
                                                             !.late = Late(a)]]
  BY DEF TypeOK
<1>4. PICK pc \in {"missing", "read", "create", "gate"} :
        /\ call' = to(a, pc)
        /\ pc = "read" => a.op \in {"rotate", "reveal"}
        /\ pc = "create" => a.via = "session" /\ a.op # "rotate"
        /\ pc = "gate" => a.op # "reveal"
        /\ a.op = "reveal" => pc \in {"missing", "read"}
  <2> HIDE DEF to
  <2>1. CASE call' = to(a, "missing")
    BY <2>1
  <2>2. CASE call' = to(a, "read") /\ a.op \in {"rotate", "reveal"}
    BY <2>2
  <2>3. CASE /\ call' = to(a, "create") /\ a.via = "session"
             /\ a.op \notin {"rotate", "reveal"}
    BY <2>3
  <2>4. CASE call' = to(a, "gate") /\ a.op # "reveal"
    BY <2>4
  <2> QED
    BY <1>2, <2>1, <2>2, <2>3, <2>4
<1>5. pc = "create" => a.op = "mint"
  BY <1>4, Asked
<1> HIDE DEF to
<1>6. Starts(c, a, pc)
  BY <1>3, <1>4, <1>5 DEF Starts
<1> QED
  BY <1>1, <1>6

Requests == [pc : {"idle"} \cup Steps \cup Ends, op : Ops \cup {None}, via : Vias \cup {None},
             old : Keys \cup {None}, receipt : {"none", "held", "returned"}, lapse : BOOLEAN,
             broke : InTry \cup {None}, late : BOOLEAN]

LEMMA KeepsTypes == TypeOK /\ Paths /\ [Next]_vars => TypeOK'
<1> SUFFICES ASSUME TypeOK, Paths, [Next]_vars PROVE TypeOK'
  OBVIOUS
<1> USE DEF tables, remote, Goes, Fail, Failing, Steps, InTry, Ends
<1>1. ASSUME NEW c \in Calls, Start(c) PROVE TypeOK'
  <2>0. PICK a \in Asks[c] : \E pc \in {"missing", "read", "create", "gate"} :
          Starts(c, a, pc)
    BY <1>1, StartShape
  <2>1. PICK pc \in {"missing", "read", "create", "gate"} : Starts(c, a, pc)
    BY <2>0
  <2>2. call[c] \in Requests
    BY DEF TypeOK, Requests
  <2>3. [call[c] EXCEPT !.pc = pc, !.op = a.op, !.via = a.via, !.old = a.old,
                        !.late = Late(a)] \in Requests
    <3>1. Late(a) \in BOOLEAN
      BY DEF Late
    <3>2. a.op \in Ops /\ a.via \in Vias /\ a.old \in Keys \cup {None}
      BY Asked
    <3> QED
      BY <2>2, <3>1, <3>2 DEF Requests
  <2>4. call' \in [Calls -> Requests]
    BY <2>1, <2>3 DEF Starts, TypeOK, Requests
  <2> QED
    BY <1>1, <2>4 DEF Start, TypeOK, Requests
<1>2. ASSUME NEW c \in Calls,
             \/ Gate(c) \/ Refund(c) \/ Own(c) \/ ReadKey(c) \/ Decrypt(c) \/ Answer(c)
             \/ Throw(c) \/ Die(c)
      PROVE  TypeOK'
  <2>1. UNCHANGED <<tables, remote>>
    BY <1>2 DEF Gate, Refund, Own, ReadKey, Decrypt, Answer, Throw, Die
  <2>2. call' \in [Calls -> Requests]
    BY <1>2 DEF Gate, Charged, Refund, Own, ReadKey, Decrypt, Answer, Throw, Die, TypeOK,
                Requests, Ops, Paths, Path
  <2> QED
    BY <2>1, <2>2 DEF TypeOK, Requests
<1>3. ASSUME NEW c \in Calls, CreateApiKey(c) PROVE TypeOK'
  <2>1. Made(c) \in [Keys -> {"none", "live", "dead"}]
    BY DEF Made, Keys, TypeOK
  <2> QED
    BY <1>3, <2>1 DEF CreateApiKey, TypeOK
<1>4. ASSUME NEW c \in Calls, InsertKey(c) PROVE TypeOK'
  BY <1>4 DEF InsertKey, Keys, TypeOK
<1>5. ASSUME NEW c \in Calls, RevokeOld(c) PROVE TypeOK'
  <2>1. call' \in [Calls -> Requests]
    BY <1>5 DEF RevokeOld, TypeOK, Requests
  <2>2. row' \in [Keys -> {"none", "live", "revoked", "deleted"}]
    BY <1>5 DEF RevokeOld, TypeOK
  <2> QED
    BY <1>5, <2>1, <2>2 DEF RevokeOld, TypeOK, Requests
<1>6. ASSUME NEW c \in Calls, RevokeApiKey(c) PROVE TypeOK'
  BY <1>6 DEF RevokeApiKey, TypeOK
<1>7. ASSUME NEW c \in Calls, Scrub(c) PROVE TypeOK'
  BY <1>7 DEF Scrub, TypeOK
<1>8. ASSUME NEW c \in Calls, Teardown(c) PROVE TypeOK'
  <2>1. call' \in [Calls -> Requests]
    BY <1>8 DEF Teardown, TypeOK, Requests
  <2>2. vendor' \in [Keys -> {"none", "live", "dead"}] /\ torn' \in BOOLEAN
    <3>1. CASE UNCHANGED remote
      BY <3>1 DEF TypeOK
    <3>2. CASE /\ torn' = TRUE
               /\ vendor' = [k \in Keys |-> IF vendor[k] = "live" THEN "dead" ELSE vendor[k]]
      <4>1. \A k \in Keys : vendor[k] \in {"none", "live", "dead"}
        BY DEF TypeOK
      <4> QED
        BY <3>2, <4>1
    <3> QED
      BY <1>8, <3>1, <3>2 DEF Teardown
  <2>3. UNCHANGED tables
    BY <1>8 DEF Teardown
  <2> QED
    BY <2>1, <2>2, <2>3 DEF TypeOK, Requests
<1>9. ASSUME NEW c \in Calls, EraseKeys(c) PROVE TypeOK'
  BY <1>9 DEF EraseKeys, TypeOK
<1>10. ASSUME NEW c \in Calls, UnlinkJobs(c) PROVE TypeOK'
  <2>1. call' \in [Calls -> Requests]
    BY <1>10 DEF UnlinkJobs, TypeOK, Requests
  <2>2. linked' \in BOOLEAN /\ UNCHANGED <<account, row, bytes, handle, remote>>
    BY <1>10 DEF UnlinkJobs
  <2> QED
    BY <2>1, <2>2 DEF TypeOK, Requests
<1>12. ASSUME NEW c \in Calls, RemoveAccount(c) PROVE TypeOK'
  <2>1. call' \in [Calls -> Requests]
    BY <1>12 DEF RemoveAccount, TypeOK, Requests
  <2>2. account' \in BOOLEAN /\ UNCHANGED <<linked, row, bytes, handle, remote>>
    BY <1>12 DEF RemoveAccount, TypeOK
  <2> QED
    BY <2>1, <2>2 DEF TypeOK, Requests
<1>11. CASE UNCHANGED vars
  BY <1>11 DEF vars, TypeOK
<1> QED
  BY <1>1, <1>2, <1>3, <1>4, <1>5, <1>6, <1>7, <1>8, <1>9, <1>10, <1>11,
     <1>12 DEF Next, Proceed

\* After Start a request keeps what it was asked, and only it moves.
LEMMA Keeps ==
    ASSUME TypeOK, Paths, NEW c \in Calls, Proceed(c) \/ Throw(c) \/ Die(c)
    PROVE  /\ call[c].pc # "idle" /\ call'[c].pc # "idle"
           /\ call'[c].op = call[c].op /\ call'[c].via = call[c].via
           /\ call'[c].old = call[c].old
           /\ \A b \in Calls \ {c} : call'[b] = call[b]
<1> USE DEF tables, remote, Goes, Fail, Failing, Steps, InTry, TypeOK
<1>1. CASE Gate(c) \/ Refund(c)
  <2>1. /\ call[c].pc \in {"gate", "refund"}
        /\ \A b \in Calls \ {c} : call'[b] = call[b]
    BY <1>1 DEF Gate, Refund
  <2>2. ASSUME NEW pc, NEW receipt, pc # "idle",
               call' = [call EXCEPT ![c].pc = pc, ![c].receipt = receipt]
        PROVE  /\ call'[c].pc # "idle" /\ call'[c].op = call[c].op
               /\ call'[c].via = call[c].via /\ call'[c].old = call[c].old
    BY <2>2
  <2>3. CASE Goes(c, "refused")
    BY <2>1, <2>3
  <2>4. CASE Gate(c) /\ ~Goes(c, "refused")
    <3>1. call[c].op \in Ops
      BY <2>1 DEF Paths, Path
    <3>2. Charged(call[c].op) # "idle"
      BY <3>1 DEF Charged, Ops
    <3> QED
      BY <2>1, <2>2, <2>4, <3>2 DEF Gate
  <2>5. CASE Refund(c)
    BY <2>1, <2>2, <2>5 DEF Refund
  <2> QED
    BY <1>1, <2>1, <2>3, <2>4, <2>5
<1>2. CASE Own(c) \/ ReadKey(c) \/ Decrypt(c) \/ Answer(c) \/ Throw(c) \/ Die(c)
  BY <1>2 DEF Own, ReadKey, Decrypt, Answer, Throw, Die
<1>3. CASE CreateApiKey(c) \/ InsertKey(c) \/ RevokeOld(c) \/ RevokeApiKey(c) \/ Scrub(c)
  BY <1>3 DEF CreateApiKey, InsertKey, RevokeOld, RevokeApiKey, Scrub
<1>4. CASE Teardown(c) \/ EraseKeys(c) \/ UnlinkJobs(c) \/ RemoveAccount(c)
  BY <1>4 DEF Teardown, EraseKeys, UnlinkJobs, RemoveAccount
<1> QED
  BY <1>1, <1>2, <1>3, <1>4 DEF Proceed

LEMMA KeepsPaths == TypeOK /\ Paths /\ [Next]_vars => Paths'
<1> SUFFICES ASSUME TypeOK, Paths, [Next]_vars PROVE Paths'
  OBVIOUS
<1> USE DEF Goes, Fail, Failing, Steps, InTry, TypeOK, Paths, Path, Ops
<1>1. ASSUME NEW c \in Calls, Start(c) PROVE Paths'
  <2>0. PICK a \in Asks[c] : \E pc \in {"missing", "read", "create", "gate"} :
          Starts(c, a, pc)
    BY <1>1, StartShape
  <2>1. PICK pc \in {"missing", "read", "create", "gate"} : Starts(c, a, pc)
    BY <2>0
  <2>2. call[c].pc = "idle" /\ call[c].receipt # "returned"
    BY <1>1 DEF Start
  <2>3. Path(c)'
    BY <2>1, <2>2, Asked DEF Starts
  <2> QED
    BY <2>1, <2>3 DEF Starts
<1>2. ASSUME NEW c \in Calls, Proceed(c) \/ Throw(c) \/ Die(c) PROVE Paths'
  <2>1. CASE Gate(c) \/ Refund(c)
    BY <2>1 DEF Gate, Refund, Charged
  <2>2. CASE Own(c) \/ ReadKey(c) \/ Decrypt(c) \/ Answer(c) \/ Throw(c) \/ Die(c)
    BY <2>2 DEF Own, ReadKey, Decrypt, Answer, Throw, Die
  <2>3. CASE CreateApiKey(c) \/ InsertKey(c) \/ RevokeOld(c) \/ RevokeApiKey(c) \/ Scrub(c)
    BY <2>3 DEF CreateApiKey, InsertKey, RevokeOld, RevokeApiKey, Scrub
  <2>4. CASE Teardown(c) \/ EraseKeys(c) \/ UnlinkJobs(c) \/ RemoveAccount(c)
    BY <2>4 DEF Teardown, EraseKeys, UnlinkJobs, RemoveAccount
  <2> QED
    BY <1>2, <2>1, <2>2, <2>3, <2>4 DEF Proceed
<1>3. CASE UNCHANGED vars
  BY <1>3 DEF vars
<1> QED
  BY <1>1, <1>2, <1>3 DEF Next

-----------------------------------------------------------------------------
\* The rows change by an insert, a revocation of a live key, or the erasing.
LEMMA RowStep ==
    ASSUME TypeOK, Paths, [Next]_vars
    PROVE  \/ row' = row
           \/ \E c \in Calls :
                /\ InsertKey(c) /\ account
                /\ row' = [row EXCEPT ![c] = "live"]
           \/ \E c \in Calls :
                /\ RevokeOld(c) /\ row[call[c].old] = "live"
                /\ row' = [row EXCEPT ![call[c].old] = "revoked"]
           \/ \E c \in Calls :
                /\ EraseKeys(c)
                /\ row' = [k \in Keys |-> IF k \in Stored THEN "deleted" ELSE row[k]]
<1> USE DEF tables, TypeOK
<1>1. ASSUME NEW c \in Calls, RevokeOld(c)
      PROVE  \/ row' = row
             \/ (row[call[c].old] = "live" /\ row' = [row EXCEPT ![call[c].old] = "revoked"])
  BY <1>1 DEF RevokeOld, Paths, Path
<1>2. ASSUME NEW c \in Calls, InsertKey(c)
      PROVE  row' = row \/ (account /\ row' = [row EXCEPT ![c] = "live"])
  <2>1. CASE account
    BY <1>2, <2>1 DEF InsertKey
  <2>2. CASE ~account
    BY <1>2, <2>2 DEF InsertKey
  <2> QED
    BY <2>1, <2>2
<1>3. ASSUME NEW c \in Calls,
             \/ Start(c) \/ Gate(c) \/ Refund(c) \/ Own(c) \/ ReadKey(c)
             \/ CreateApiKey(c) \/ RevokeApiKey(c) \/ Decrypt(c) \/ Scrub(c)
             \/ Teardown(c) \/ UnlinkJobs(c) \/ RemoveAccount(c)
             \/ Answer(c) \/ Throw(c) \/ Die(c)
      PROVE  row' = row
  BY <1>3 DEF Start, Gate, Refund, Own, ReadKey, CreateApiKey, RevokeApiKey, Decrypt, Scrub,
              Teardown, UnlinkJobs, RemoveAccount, Answer, Throw, Die
<1>4. ASSUME NEW c \in Calls, EraseKeys(c)
      PROVE  row' = [k \in Keys |-> IF k \in Stored THEN "deleted" ELSE row[k]]
  BY <1>4 DEF EraseKeys
<1>5. CASE UNCHANGED vars
  BY <1>5 DEF vars
<1> QED
  BY <1>1, <1>2, <1>3, <1>4, <1>5, Zenon DEF Next, Proceed

LEMMA KeepsGone == TypeOK /\ IInv /\ [Next]_vars => Gone'
<1> SUFFICES ASSUME TypeOK, IInv, [Next]_vars PROVE Gone'
  OBVIOUS
<1> USE DEF IInv
\* the account, its link and its keys never come back
<1>1. ASSUME ~account PROVE Stored' = {} /\ ~linked' /\ ~account'
  <2>1. row' = row \/ \E c \in Calls : EraseKeys(c) /\ row' = [k \in Keys |-> IF k \in Stored THEN "deleted" ELSE row[k]]
    <3>1. ASSUME NEW c \in Calls, RevokeOld(c) PROVE row[call[c].old] # "live"
      BY <1>1, <3>1 DEF Gone, Stored, RevokeOld, Paths, Path
    <3> QED
      BY <1>1, <3>1, RowStep
  <2>2. Stored' = {}
    BY <1>1, <2>1 DEF Gone, Stored
  <2>3. ~linked' /\ ~account'
    <3>1. ~linked
      BY <1>1 DEF Gone
    <3>2. ASSUME NEW c \in Calls, UnlinkJobs(c) \/ RemoveAccount(c) PROVE ~linked' /\ ~account'
      BY <1>1, <3>1, <3>2 DEF UnlinkJobs, RemoveAccount
    <3>3. ASSUME NEW c \in Calls, Start(c) \/ Proceed(c) \/ Throw(c) \/ Die(c),
                 ~UnlinkJobs(c), ~RemoveAccount(c)
          PROVE  linked' = linked /\ account' = account
      BY <3>3 DEF Proceed, Start, Gate, Refund, Own, ReadKey, CreateApiKey, InsertKey,
                  RevokeOld, RevokeApiKey, Decrypt, Scrub, Teardown, EraseKeys, Answer,
                  Throw, Die, tables
    <3>4. CASE UNCHANGED vars
      BY <1>1, <3>1, <3>4 DEF vars
    <3> QED
      BY <1>1, <3>1, <3>2, <3>3, <3>4 DEF Next
  <2> QED
    BY <2>2, <2>3
<1>2. ASSUME account, ~account' PROVE Stored' = {} /\ ~linked'
  <2>1. PICK c \in Calls : RemoveAccount(c)
    BY <1>2 DEF Next, Proceed, Start, Gate, Refund, Own, ReadKey, CreateApiKey, InsertKey,
                RevokeOld, RevokeApiKey, Decrypt, Scrub, Teardown, EraseKeys, UnlinkJobs,
                Answer, Throw, Die, vars, tables
  <2> QED
    BY <1>2, <2>1 DEF RemoveAccount, Stored
<1>3. ASSUME NEW b \in Calls, Deletes(b)', call'[b].pc \in {"audit", "done"} PROVE ~account'
  <2>1. CASE Deletes(b) /\ call[b].pc \in {"audit", "done"}
    BY <1>1, <2>1 DEF Gone
  <2>2. CASE ~(Deletes(b) /\ call[b].pc \in {"audit", "done"})
    <3>1. ASSUME NEW c \in Calls, Start(c) PROVE FALSE
      <4>1. PICK a \in Asks[c] : \E pc \in {"missing", "read", "create", "gate"} : Starts(c, a, pc)
        BY <3>1, StartShape
      <4> QED
        BY <1>3, <2>2, <4>1 DEF Starts, Deletes, TypeOK
    <3>2. ASSUME NEW c \in Calls, Proceed(c) \/ Throw(c) \/ Die(c) PROVE ~account'
      <4>1. b = c /\ Deletes(b)
        BY <1>3, <2>2, <3>2, Keeps DEF Deletes
      <4>2. CASE RemoveAccount(c)
        BY <1>3, <4>1, <4>2 DEF RemoveAccount, Fail, Failing, Goes, TypeOK
      <4>3. CASE Gate(c) \/ Refund(c) \/ Answer(c)
        BY <1>3, <2>2, <4>1, <4>3 DEF Gate, Refund, Answer, Goes, TypeOK, Charged, Deletes
      <4>4. CASE \/ Own(c) \/ ReadKey(c) \/ CreateApiKey(c) \/ InsertKey(c) \/ RevokeOld(c)
                 \/ RevokeApiKey(c) \/ Decrypt(c) \/ Scrub(c)
        BY <4>1, <4>4 DEF Own, ReadKey, CreateApiKey, InsertKey, RevokeOld, RevokeApiKey,
                          Decrypt, Scrub, Paths, Path, Deletes
      <4>5. CASE Teardown(c) \/ EraseKeys(c) \/ UnlinkJobs(c) \/ Throw(c) \/ Die(c)
        BY <1>3, <4>1, <4>5
           DEF Teardown, EraseKeys, UnlinkJobs, Throw, Die, Fail, Failing, Goes, TypeOK
      <4> QED
        BY <3>2, <4>2, <4>3, <4>4, <4>5 DEF Proceed
    <3>3. CASE UNCHANGED vars
      BY <1>3, <2>2, <3>3 DEF vars, Deletes
    <3> QED
      BY <3>1, <3>2, <3>3 DEF Next
  <2> QED
    BY <2>1, <2>2
<1> QED
  BY <1>1, <1>2, <1>3 DEF Gone, TypeOK

\* A key is inserted once, and a row never goes back.
LEMMA RowsStay ==
    ASSUME TypeOK, Paths, [Next]_vars
    PROVE  \A k \in Keys : row[k] # "none" => row'[k] # "none"
<1> USE DEF TypeOK
<1>1. CASE row' = row
  BY <1>1
<1>2. ASSUME NEW c \in Calls, row' = [row EXCEPT ![c] = "live"]
      PROVE  \A k \in Keys : row[k] # "none" => row'[k] # "none"
  BY <1>2 DEF Keys
<1>3. ASSUME NEW c \in Calls, RevokeOld(c), row' = [row EXCEPT ![call[c].old] = "revoked"]
      PROVE  \A k \in Keys : row[k] # "none" => row'[k] # "none"
  BY <1>3 DEF RevokeOld, Paths, Path
<1>4. ASSUME row' = [k \in Keys |-> IF k \in Stored THEN "deleted" ELSE row[k]]
      PROVE  \A k \in Keys : row[k] # "none" => row'[k] # "none"
  BY <1>4
<1> QED
  BY <1>1, <1>2, <1>3, <1>4, RowStep

LEMMA KeepsRings == TypeOK /\ IInv /\ [Next]_vars => Rings'
<1> SUFFICES ASSUME TypeOK, IInv, [Next]_vars PROVE Rings'
  OBVIOUS
<1> USE DEF IInv, TypeOK, Rings, Inserted, Goes, Fail, Failing
\* nothing is inserted: it is enough to look at who moves
<1>1. ASSUME \A k \in Keys : row'[k] = row[k] \/ (row[k] # "none" /\ row'[k] # "none")
      PROVE  \A b \in Calls : Inserted(b)' <=> Inserted(b)
  BY <1>1 DEF Keys
<1>2. ASSUME NEW c \in Calls, Start(c) PROVE Rings'
  <2>1. row' = row /\ row[c] = "none"
    BY <1>2 DEF Start, tables
  <2>2. PICK a \in Asks[c] : \E pc \in {"missing", "read", "create", "gate"} : Starts(c, a, pc)
    BY <1>2, StartShape
  <2> QED
    BY <2>1, <2>2 DEF Starts
<1>3. ASSUME NEW c \in Calls,
             \/ Gate(c) \/ Refund(c) \/ Own(c) \/ ReadKey(c) \/ Decrypt(c) \/ Answer(c)
             \/ Throw(c) \/ Die(c)
      PROVE  Rings'
  <2>1. row' = row /\ \A b \in Calls \ {c} : call'[b] = call[b]
    BY <1>3 DEF Gate, Refund, Own, ReadKey, Decrypt, Answer, Throw, Die, tables
  <2>2. /\ call'[c].op = call[c].op
        /\ call'[c].pc \notin {"revoke", "forget"}
        /\ Inserted(c) => /\ call[c].pc \in {"refund", "revoke", "forget", "audit"}
                          /\ call'[c].pc \in {"audit", "refund", "done", "failed", "died"}
                          /\ call[c].op = "mint" => call'[c].pc \in {"done", "died"}
                          /\ call'[c].pc \in {"refund", "failed"} => call'[c].broke = "revoke"
    <3>1. call'[c].op = call[c].op
      BY <1>3, Keeps DEF Proceed
    <3>2. CASE Gate(c)
      BY <3>2 DEF Gate, Charged, Paths, Path, Ops
    <3>3. CASE Refund(c)
      BY <3>3 DEF Refund
    <3>4. CASE Throw(c)
      BY <3>4 DEF Throw, InTry, Paths, Path
    <3>5. CASE Die(c) \/ Answer(c)
      BY <3>5 DEF Die, Answer, Steps, InTry
    <3>6. CASE Own(c) \/ ReadKey(c) \/ Decrypt(c)
      BY <3>6 DEF Own, ReadKey, Decrypt
    <3> QED
      BY <1>3, <3>1, <3>2, <3>3, <3>4, <3>5, <3>6
  <2> QED
    BY <2>1, <2>2
<1>4. ASSUME NEW c \in Calls,
             \/ CreateApiKey(c) \/ RevokeApiKey(c) \/ Scrub(c) \/ Teardown(c)
             \/ UnlinkJobs(c) \/ RemoveAccount(c)
      PROVE  Rings'
  BY <1>4 DEF CreateApiKey, RevokeApiKey, Scrub, Teardown, UnlinkJobs, RemoveAccount, tables, Paths, Path
<1>5. ASSUME NEW c \in Calls, InsertKey(c) PROVE Rings'
  <2>1. \A b \in Calls \ {c} : call'[b] = call[b] /\ row'[b] = row[b]
    BY <1>5, Keeps, RowStep DEF Proceed, InsertKey, Keys
  <2>2. row[c] = "none" /\ call[c].op \in {"mint", "rotate"}
    BY <1>5 DEF InsertKey, Paths, Path
  <2>3. CASE row' = row /\ Fail(c)
    BY <2>1, <2>2, <2>3
  <2>4. CASE Goes(c, IF call[c].op = "mint" THEN "audit" ELSE "revoke")
             /\ row' = [row EXCEPT ![c] = "live"]
    BY <2>1, <2>2, <2>4 DEF Keys
  <2> QED
    BY <1>5, <2>3, <2>4 DEF InsertKey
<1>6. ASSUME NEW c \in Calls, RevokeOld(c) \/ EraseKeys(c) PROVE Rings'
  <2>1. \A b \in Calls : Inserted(b)' <=> Inserted(b)
    BY <1>1, <1>6 DEF RevokeOld, EraseKeys, Stored, Paths, Path, Keys
  <2>2. CASE RevokeOld(c)
    BY <2>1, <2>2 DEF RevokeOld
  <2>3. CASE EraseKeys(c)
    BY <2>1, <2>3 DEF EraseKeys, Paths, Path
  <2> QED
    BY <1>6, <2>2, <2>3
<1>7. CASE UNCHANGED vars
  BY <1>7 DEF vars
<1> QED
  BY <1>2, <1>3, <1>4, <1>5, <1>6, <1>7 DEF Next, Proceed

Past == {"forget", "audit", "done", "died"}
Over == {"audit", "done", "died"}

\* What a request is does not change, and where it has been it does not return.
LEMMA Forward ==
    ASSUME TypeOK, Paths, [Next]_vars, NEW d \in Calls, call[d].pc # "idle"
    PROVE  /\ call'[d].op = call[d].op /\ call'[d].old = call[d].old /\ call'[d].pc # "idle"
           /\ call[d].pc \in Past => call'[d].pc \in Past
           /\ call[d].pc \in Over => call'[d].pc \in Over
           /\ Deletes(d) /\ ~Given(d) /\ call[d].pc \notin {"teardown", "erase"} =>
                ~Given(d)' /\ call'[d].pc \notin {"teardown", "erase"}
<1> USE DEF Goes, Fail, Failing, Given, Deletes, Past, Over, TypeOK
<1>1. CASE call'[d] = call[d]
  BY <1>1
<1>2. ASSUME NEW c \in Calls, Start(c) PROVE call'[d] = call[d]
  BY <1>2 DEF Start
<1>3. ASSUME NEW c \in Calls, Proceed(c) \/ Throw(c) \/ Die(c), c # d PROVE call'[d] = call[d]
  BY <1>3, Keeps
<1>4. ASSUME Proceed(d) \/ Throw(d) \/ Die(d)
      PROVE  /\ call[d].pc \in Past => call'[d].pc \in Past
             /\ call[d].pc \in Over => call'[d].pc \in Over
             /\ Deletes(d) /\ ~Given(d) /\ call[d].pc \notin {"teardown", "erase"} =>
                  ~Given(d)' /\ call'[d].pc \notin {"teardown", "erase"}
  <2>1. CASE Gate(d) \/ Own(d) \/ ReadKey(d)
    BY <2>1 DEF Gate, Own, ReadKey, Paths, Path
  <2>2. CASE CreateApiKey(d) \/ InsertKey(d) \/ RevokeOld(d) \/ Decrypt(d) \/ Scrub(d)
    BY <2>2 DEF CreateApiKey, InsertKey, RevokeOld, Decrypt, Scrub, Paths, Path
  <2>3. CASE RevokeApiKey(d) \/ Teardown(d) \/ EraseKeys(d) \/ UnlinkJobs(d) \/ RemoveAccount(d)
    BY <2>3 DEF RevokeApiKey, Teardown, EraseKeys, UnlinkJobs, RemoveAccount
  <2>4. CASE Refund(d) \/ Answer(d) \/ Die(d)
    BY <2>4 DEF Refund, Answer, Die, Steps, InTry
  <2>5. CASE Throw(d)
    BY <2>5 DEF Throw, InTry
  <2> QED
    BY <1>4, <2>1, <2>2, <2>3, <2>4, <2>5 DEF Proceed
<1>5. ASSUME Proceed(d) \/ Throw(d) \/ Die(d)
      PROVE  call'[d].op = call[d].op /\ call'[d].old = call[d].old /\ call'[d].pc # "idle"
  BY <1>5, Keeps
<1>6. CASE UNCHANGED vars
  BY <1>1, <1>6 DEF vars
<1> QED
  BY <1>1, <1>2, <1>3, <1>4, <1>5, <1>6 DEF Next

LEMMA KeepsReplacement == TypeOK /\ IInv /\ [Next]_vars => Replacement'
<1> SUFFICES ASSUME TypeOK, IInv, [Next]_vars, NEW k \in Keys, row'[k] = "revoked"
             PROVE  \E d \in Calls : Replaced(d, k)'
  BY DEF Replacement
<1> USE DEF IInv
<1>1. ASSUME NEW d \in Calls, Replaced(d, k) PROVE Replaced(d, k)'
  <2>1. d \in Keys /\ call[d].pc # "idle" /\ call[d].pc \in Past
    BY <1>1 DEF Replaced, Keys, Past
  <2> QED
    BY <1>1, <2>1, Forward, RowsStay DEF Replaced, Inserted, Past
<1>2. CASE row[k] = "revoked"
  BY <1>1, <1>2 DEF Replacement
<1>3. CASE row[k] # "revoked"
  <2>1. PICK c \in Calls : RevokeOld(c) /\ k = call[c].old
    BY <1>3, RowStep DEF TypeOK, Stored, Keys
  <2>2. call[c].op = "rotate" /\ Inserted(c) /\ call'[c].pc \in {"forget", "audit"}
    BY <2>1 DEF RevokeOld, Goes, TypeOK, Paths, Path, Rings
  <2> QED
    BY <2>1, <2>2, Keeps, RowsStay DEF Replaced, Inserted, Proceed, Keys
<1> QED
  BY <1>2, <1>3

\* What may have been undone may have been undone for good.
LEMMA BeyondStays ==
    ASSUME TypeOK, Paths, [Next]_vars, NEW d \in Calls,
           NEW later \in {{"unlink", "remove"}, {"remove"}, {}}, Beyond(d, later)
    PROVE  Beyond(d, later)'
<1> USE DEF Beyond, Goes, Fail, Failing, Deletes, TypeOK
<1>1. /\ call[d].op = "delete"
      /\ call[d].pc \in {"unlink", "remove", "refund", "failed", "audit", "done", "died"}
  OBVIOUS
<1>2. call'[d].op = "delete"
  BY <1>1, Forward
<1>3. CASE call'[d] = call[d]
  BY <1>3
<1>4. ASSUME Gate(d) \/ Own(d) \/ ReadKey(d) \/ CreateApiKey(d) \/ InsertKey(d) \/ RevokeOld(d)
             \/ RevokeApiKey(d) \/ Decrypt(d) \/ Scrub(d) \/ Teardown(d) \/ EraseKeys(d) \/ Start(d)
      PROVE  FALSE
  BY <1>1, <1>4 DEF Gate, Own, ReadKey, CreateApiKey, InsertKey, RevokeOld, RevokeApiKey,
                    Decrypt, Scrub, Teardown, EraseKeys, Start
<1>5. CASE UnlinkJobs(d) \/ RemoveAccount(d)
  BY <1>2, <1>5 DEF UnlinkJobs, RemoveAccount
<1>6. CASE Refund(d)
  BY <1>2, <1>6 DEF Refund
<1>7. CASE Answer(d) \/ Die(d)
  BY <1>2, <1>7 DEF Answer, Die
<1>8. CASE Throw(d)
  <2>1. call[d].pc \in {"unlink", "remove"}
    BY <1>1, <1>8 DEF Throw, InTry
  <2> QED
    BY <1>2, <1>8, <2>1 DEF Throw
<1>9. ASSUME NEW c \in Calls, Start(c) \/ Proceed(c) \/ Throw(c) \/ Die(c), c # d
      PROVE  call'[d] = call[d]
  <2>1. CASE Start(c)
    BY <1>9, <2>1 DEF Start
  <2>2. CASE ~Start(c)
    BY <1>9, <2>2, Keeps
  <2> QED
    BY <2>1, <2>2
<1>10. CASE UNCHANGED vars
  BY <1>3, <1>10 DEF vars
<1> QED
  BY <1>3, <1>4, <1>5, <1>6, <1>7, <1>8, <1>9, <1>10 DEF Next, Proceed

LEMMA KeepsErased == TypeOK /\ IInv /\ [Next]_vars => Erased'
<1> SUFFICES ASSUME TypeOK, IInv, [Next]_vars PROVE Erased'
  OBVIOUS
<1> USE DEF IInv
<1>1. ASSUME NEW k \in Keys, row'[k] = "deleted" PROVE \E c \in Calls : Erases(c)'
  <2>1. CASE row[k] = "deleted"
    BY <2>1, BeyondStays DEF Erased, Erases
  <2>2. CASE row[k] # "deleted"
    <3>1. PICK c \in Calls : EraseKeys(c)
      BY <1>1, <2>2, RowStep DEF TypeOK
    <3>2. call[c].op = "delete" /\ call'[c].pc = "unlink"
      BY <3>1 DEF EraseKeys, Goes, TypeOK, Paths, Path
    <3> QED
      BY <3>1, <3>2, Keeps DEF Deletes, Erases, Beyond, Proceed
  <2> QED
    BY <2>1, <2>2
<1>2. ASSUME ~linked' PROVE \E c \in Calls : Unlinks(c)'
  <2>1. CASE ~linked
    BY <2>1, BeyondStays DEF Erased, Unlinks
  <2>2. CASE linked
    <3>1. PICK c \in Calls : UnlinkJobs(c)
      BY <1>2, <2>2
         DEF Next, Proceed, Start, Gate, Refund, Own, ReadKey, CreateApiKey, InsertKey, RevokeOld,
             RevokeApiKey, Decrypt, Scrub, Teardown, EraseKeys, RemoveAccount, Answer, Throw, Die,
             vars, tables
    <3>2. call[c].op = "delete" /\ call'[c].pc = "remove"
      BY <3>1 DEF UnlinkJobs, Goes, TypeOK, Paths, Path
    <3> QED
      BY <3>1, <3>2, Keeps DEF Deletes, Unlinks, Beyond, Proceed
  <2> QED
    BY <2>1, <2>2
<1>3. ASSUME ~account' PROVE \E c \in Calls : Removes(c)'
  <2>1. CASE ~account
    BY <2>1, BeyondStays DEF Erased, Removes
  <2>2. CASE account
    <3>1. PICK c \in Calls : RemoveAccount(c)
      BY <1>3, <2>2
         DEF Next, Proceed, Start, Gate, Refund, Own, ReadKey, CreateApiKey, InsertKey, RevokeOld,
             RevokeApiKey, Decrypt, Scrub, Teardown, EraseKeys, UnlinkJobs, Answer, Throw, Die,
             vars, tables
    <3>2. call[c].op = "delete" /\ call'[c].pc = "audit"
      <4>1. call[c].op = "delete" /\ Goes(c, "audit")
        BY <1>3, <2>2, <3>1 DEF RemoveAccount, Paths, Path
      <4> QED
        BY <4>1 DEF Goes, TypeOK
    <3> QED
      BY <3>1, <3>2, Keeps DEF Deletes, Removes, Beyond, Proceed
  <2> QED
    BY <2>1, <2>2
<1> QED
  BY <1>1, <1>2, <1>3 DEF Erased

LEMMA KeepsRead == TypeOK /\ IInv /\ [Next]_vars => Read'
<1> SUFFICES ASSUME TypeOK, IInv, [Next]_vars, NEW b \in Calls, (call[b].op = "rotate")',
                    call'[b].pc \in {"create", "insert", "revoke", "forget"}
             PROVE  row'[call'[b].old] # "none"
  BY DEF Read
<1> USE DEF IInv, Goes, Fail, Failing
<1>1. CASE /\ call[b].op = "rotate" /\ call'[b].old = call[b].old
           /\ call[b].pc \in {"create", "insert", "revoke", "forget"}
  <2>1. call[b].old \in Keys
    BY <1>1 DEF Paths, Path
  <2> QED
    BY <1>1, <2>1, RowsStay DEF Read
<1>2. ASSUME NEW c \in Calls, Start(c) PROVE row'[call'[b].old] # "none"
  <2>1. PICK a \in Asks[c] : \E pc \in {"missing", "read", "create", "gate"} : Starts(c, a, pc)
    BY <1>2, StartShape
  <2> QED
    BY <1>1, <2>1 DEF Starts, TypeOK
<1>3. ASSUME NEW c \in Calls, Proceed(c) \/ Throw(c) \/ Die(c) PROVE row'[call'[b].old] # "none"
  <2>1. CASE b # c
    BY <1>1, <1>3, <2>1, Keeps
  <2>2. CASE b = c
    <3>1. call[c].op = "rotate" /\ call'[c].old = call[c].old /\ call[c].pc # "idle"
      BY <1>3, <2>2, Keeps
    <3>2. CASE ReadKey(c)
      <4>1. call[c].old \in Listed
        BY <2>2, <3>2 DEF ReadKey, TypeOK
      <4>2. call[c].old \in Keys /\ row[call[c].old] # "none"
        BY <4>1 DEF Listed
      <4> QED
        BY <2>2, <3>1, <4>2, RowsStay
    <3>3. CASE call[c].pc \in {"create", "insert", "revoke", "forget"}
      BY <1>1, <2>2, <3>1, <3>3
    <3>4. CASE ~ReadKey(c) /\ call[c].pc \notin {"create", "insert", "revoke", "forget"}
      BY <1>3, <2>2, <3>1, <3>4
         DEF Proceed, Gate, Charged, Refund, Own, CreateApiKey, InsertKey, RevokeOld, RevokeApiKey,
             Decrypt, Scrub, Teardown, EraseKeys, UnlinkJobs, RemoveAccount, Answer, Throw, Die,
             TypeOK
    <3> QED
      BY <3>2, <3>3, <3>4
  <2> QED
    BY <2>1, <2>2
<1>4. CASE UNCHANGED vars
  BY <1>1, <1>4 DEF vars
<1> QED
  BY <1>2, <1>3, <1>4 DEF Next

LEMMA KeepsBytes == TypeOK /\ IInv /\ [Next]_vars => Bytes'
<1> SUFFICES ASSUME TypeOK, IInv, [Next]_vars, NEW b \in Calls, Wants(b)', call'[b].old \notin bytes'
             PROVE  \E d \in Calls : Scrubbed(d, call[b].old)' \/ Erases(d)'
  BY DEF Bytes
<1> USE DEF IInv, Goes, Fail, Failing
<1> DEFINE Goal == \E d \in Calls : Scrubbed(d, call[b].old)' \/ Erases(d)'
<1>1. CASE Wants(b) /\ call'[b].old = call[b].old /\ call[b].old \notin bytes
  <2>1. PICK d \in Calls : Scrubbed(d, call[b].old) \/ Erases(d)
    BY <1>1 DEF Bytes
  <2>2. CASE Scrubbed(d, call[b].old)
    <3>1. call[d].pc # "idle"
      BY <2>2 DEF Scrubbed
    <3> QED
      BY <1>1, <2>2, <3>1, Forward DEF Scrubbed, Over
  <2>3. CASE Erases(d)
    BY <2>3, BeyondStays DEF Erases
  <2> QED
    BY <2>1, <2>2, <2>3
<1>2. ASSUME NEW c \in Calls, Start(c) PROVE Goal
  <2>1. PICK a \in Asks[c] : \E pc \in {"missing", "read", "create", "gate"} : Starts(c, a, pc)
    BY <1>2, StartShape
  <2>2. bytes' = bytes /\ call[c].receipt = "none"
    BY <1>2 DEF Start, tables, Paths, Path
  <2> QED
    BY <1>1, <2>1, <2>2 DEF Starts, TypeOK, Wants
<1>3. ASSUME NEW c \in Calls, Proceed(c) \/ Throw(c) \/ Die(c) PROVE Goal
  <2>1. call'[b].old = call[b].old /\ call'[b].op = call[b].op
    BY <1>3, Keeps
  <2>2. Wants(b) \/ (b = c /\ ReadKey(c) /\ call[c].old \in bytes)
    <3>1. CASE b # c
      BY <1>3, <3>1, Keeps DEF Wants
    <3>2. CASE b = c /\ ReadKey(c)
      BY <2>1, <3>2 DEF ReadKey, Wants, TypeOK, Paths, Path
    <3>3. CASE b = c /\ ~ReadKey(c) /\ ~Refund(c)
      BY <1>3, <2>1, <3>3
         DEF Proceed, Gate, Charged, Own, CreateApiKey, InsertKey, RevokeOld, RevokeApiKey,
             Decrypt, Scrub, Teardown, EraseKeys, UnlinkJobs, RemoveAccount, Answer, Throw, Die,
             TypeOK, Wants, Paths, Path, Steps, InTry
    <3>4. CASE b = c /\ Refund(c)
      BY <2>1, <3>4 DEF Refund, Wants
    <3> QED
      BY <3>1, <3>2, <3>3, <3>4
  <2>3. CASE Scrub(c)
    <3>1. CASE call[b].old = call[c].old
      <4>1. call'[c].pc = "audit" /\ call[c].op = "reveal"
        BY <2>3 DEF Scrub, TypeOK, Paths, Path
      <4>2. call'[c].op = call[c].op /\ call'[c].old = call[c].old
        BY <1>3, Keeps
      <4> QED
        <5>1. Scrubbed(c, call[b].old)'
          BY <2>1, <3>1, <4>1, <4>2 DEF Scrubbed
        <5> QED
          BY <5>1
    <3>2. CASE call[b].old # call[c].old
      <4>1. Wants(b) /\ call[b].old \notin bytes
        BY <2>1, <2>2, <2>3, <3>2 DEF Scrub
      <4> QED
        BY <1>1, <2>1, <4>1
    <3> QED
      BY <3>1, <3>2
  <2>4. CASE EraseKeys(c)
    <3>1. call[c].op = "delete" /\ call'[c].pc = "unlink"
      BY <2>4 DEF EraseKeys, TypeOK, Paths, Path
    <3> QED
      BY <1>3, <3>1, Keeps DEF Erases, Beyond, Deletes
  <2>5. CASE bytes' = bytes
    BY <1>1, <2>1, <2>2, <2>5
  <2>6. Scrub(c) \/ EraseKeys(c) \/ bytes' = bytes
    BY <1>3 DEF Proceed, Gate, Refund, Own, ReadKey, CreateApiKey, InsertKey, RevokeOld,
                RevokeApiKey, Decrypt, Teardown, UnlinkJobs, RemoveAccount, Answer, Throw, Die,
                tables
  <2> QED
    BY <2>3, <2>4, <2>5, <2>6
<1>4. CASE UNCHANGED vars
  BY <1>1, <1>4 DEF vars, Wants
<1> QED
  BY <1>2, <1>3, <1>4 DEF Next

LEMMA KeepsRevealing == TypeOK /\ IInv /\ [Next]_vars => Revealing'
<1> SUFFICES ASSUME TypeOK, IInv, [Next]_vars PROVE Revealing'
  OBVIOUS
<1> USE DEF IInv, Revealing, Goes, Fail, Failing
\* the bytes of a key are never stored again
<1>1. bytes' \subseteq bytes
  <2>1. ASSUME NEW c \in Calls,
               \/ Start(c) \/ Gate(c) \/ Refund(c) \/ Own(c) \/ ReadKey(c) \/ CreateApiKey(c)
               \/ RevokeApiKey(c) \/ Decrypt(c) \/ Teardown(c) \/ Answer(c) \/ Throw(c) \/ Die(c)
        PROVE  bytes' = bytes
    BY <2>1 DEF Start, Gate, Refund, Own, ReadKey, CreateApiKey, RevokeApiKey, Decrypt, Teardown,
                Answer, Throw, Die, tables
  <2>2. ASSUME NEW c \in Calls,
               \/ InsertKey(c) \/ RevokeOld(c) \/ Scrub(c) \/ EraseKeys(c) \/ UnlinkJobs(c)
               \/ RemoveAccount(c)
        PROVE  bytes' \subseteq bytes
    BY <2>2 DEF InsertKey, RevokeOld, Scrub, EraseKeys, UnlinkJobs, RemoveAccount
  <2>3. CASE UNCHANGED vars
    BY <2>3 DEF vars
  <2> QED
    BY <2>1, <2>2, <2>3 DEF Next, Proceed
<1>2. ASSUME NEW c \in Calls, Start(c) PROVE Revealing'
  <2>1. PICK a \in Asks[c] : \E pc \in {"missing", "read", "create", "gate"} : Starts(c, a, pc)
    BY <1>2, StartShape
  <2>2. PICK pc \in {"missing", "read", "create", "gate"} : Starts(c, a, pc)
    BY <2>1
  <2>3. /\ call'[c].pc = pc /\ call'[c].op = a.op /\ call'[c].old = a.old
        /\ call'[c].late = Late(a) /\ call'[c].receipt = call[c].receipt
        /\ \A b \in Calls \ {c} : call'[b] = call[b]
    BY <2>2 DEF Starts, TypeOK
  <2>4. call[c].receipt = "none"
    BY <1>2 DEF Start, Paths, Path
  <2>5. Late(a) => a.op = "reveal" /\ a.old \notin bytes
    BY DEF Late, Revealed
  <2>6. a.op = "reveal" => pc \in {"missing", "read"}
    BY <2>2 DEF Starts
  <2> QED
    BY <1>1, <2>3, <2>4, <2>5, <2>6
<1>3. ASSUME NEW c \in Calls, Proceed(c) \/ Throw(c) \/ Die(c) PROVE Revealing'
  <2>1. /\ call'[c].op = call[c].op /\ call'[c].old = call[c].old
        /\ \A b \in Calls \ {c} : call'[b] = call[b]
    BY <1>3, Keeps
  <2>2. ASSUME call[c].op = "reveal", call'[c].pc \in {"audit", "done"}
        PROVE  call[c].old \notin bytes'
    <3>1. CASE Scrub(c)
      BY <3>1 DEF Scrub
    <3>2. CASE Answer(c)
      BY <1>1, <2>2, <3>2 DEF Answer, TypeOK
    <3>3. CASE ~Scrub(c) /\ ~Answer(c)
      BY <1>3, <2>2, <3>3
         DEF Proceed, Gate, Charged, Refund, Own, ReadKey, CreateApiKey, InsertKey, RevokeOld,
             RevokeApiKey, Decrypt, Teardown, EraseKeys, UnlinkJobs, RemoveAccount, Throw, Die,
             TypeOK, Paths, Path
    <3> QED
      BY <3>1, <3>2, <3>3
  <2>3. ASSUME call'[c].late
        PROVE  /\ call[c].late /\ call'[c].receipt = "none"
               /\ call'[c].pc \in {"missing", "read", "gone", "failed", "died"}
    <3>1. call[c].late
      BY <1>3, <2>3
         DEF Proceed, Gate, Charged, Refund, Own, ReadKey, CreateApiKey, InsertKey, RevokeOld,
             RevokeApiKey, Decrypt, Scrub, Teardown, EraseKeys, UnlinkJobs, RemoveAccount, Answer,
             Throw, Die, TypeOK
    <3>2. /\ call[c].op = "reveal" /\ call[c].receipt = "none" /\ call[c].old \notin bytes
          /\ call[c].pc \in {"missing", "read", "gone", "failed", "died"}
      BY <3>1
    <3>3. CASE ReadKey(c)
      BY <3>1, <3>2, <3>3 DEF ReadKey, TypeOK
    <3>4. CASE Throw(c) \/ Die(c)
      BY <3>1, <3>2, <3>4 DEF Throw, Die, InTry, Steps, TypeOK
    <3>5. ASSUME Proceed(c), ~ReadKey(c) PROVE FALSE
      BY <3>2, <3>5
         DEF Proceed, Gate, Refund, Own, CreateApiKey, InsertKey, RevokeOld, RevokeApiKey,
             Decrypt, Scrub, Teardown, EraseKeys, UnlinkJobs, RemoveAccount, Answer
    <3> QED
      BY <1>3, <3>3, <3>4, <3>5
  <2> QED
    BY <1>1, <2>1, <2>2, <2>3
<1>4. CASE UNCHANGED vars
  BY <1>4 DEF vars
<1> QED
  BY <1>2, <1>3, <1>4 DEF Next

LEMMA KeepsOrder == TypeOK /\ IInv /\ [Next]_vars => Order'
<1> SUFFICES ASSUME TypeOK, IInv, [Next]_vars PROVE Order'
  OBVIOUS
<1> USE DEF IInv
<1>1. PICK rank \in [Keys -> Nat] : \E last \in Keys : Ordered(rank, last)
  BY DEF Order
<1>2. PICK last \in Keys : Ordered(rank, last)
  BY <1>1
<1>3. ASSUME NEW d \in Calls, Inserted(d)
      PROVE  /\ call'[d].op = call[d].op /\ call'[d].old = call[d].old
             /\ call[d].op = "rotate" => call[d].old \in Keys
  <2>1. call[d].pc # "idle"
    BY <1>3 DEF Rings
  <2> QED
    BY <2>1, Forward DEF Paths, Path
<1>4. CASE \A k \in Keys : row[k] = "none" => row'[k] = "none"
  <2>1. \A k \in Keys : row[k] = "none" <=> row'[k] = "none"
    BY <1>4, RowsStay
  <2>2. Ordered(rank, last)'
    BY <1>2, <1>3, <2>1 DEF Ordered, Inserted, Keys
  <2> QED
    BY <1>1, <1>2, <2>2 DEF Order
<1>5. ASSUME NEW c \in Calls, InsertKey(c), row' = [row EXCEPT ![c] = "live"]
      PROVE  Order'
  <2> DEFINE next == [rank EXCEPT ![c] = rank[last] + 1]
  <2>1. row[c] = "none" /\ c \in Keys
    BY <1>5 DEF InsertKey, Rings, Inserted, Keys
  <2>2. /\ next \in [Keys -> Nat] /\ next[c] = rank[last] + 1
        /\ \A k \in Keys \ {c} : next[k] = rank[k]
    BY <1>1, <2>1
  <2>3. /\ row'[c] = "live" /\ \A k \in Keys \ {c} : row'[k] = row[k]
    BY <1>5, <2>1 DEF TypeOK
  <2> HIDE DEF next
  <2>4. ASSUME NEW k \in Keys, row'[k] # "none" PROVE next[k] <= next[c]
    BY <1>1, <1>2, <2>2, <2>3, <2>4 DEF Ordered
  <2>5. ASSUME NEW d \in Calls, call'[d].op = "rotate", Inserted(d)'
        PROVE  row'[call'[d].old] # "none" /\ next[call'[d].old] < next[d]
    <3>1. CASE d = c
      <4>1. call'[c].op = call[c].op /\ call'[c].old = call[c].old
        BY <1>5, Keeps DEF Proceed
      <4>2. call[c].old \in Keys \ {c} /\ row[call[c].old] # "none"
        BY <1>5, <2>5, <3>1, <4>1 DEF InsertKey, Paths, Path, Read
      <4>3. rank[call[c].old] <= rank[last] /\ rank[call[c].old] \in Nat /\ rank[last] \in Nat
        BY <1>1, <1>2, <4>2 DEF Ordered
      <4> QED
        BY <2>2, <2>3, <3>1, <4>1, <4>2, <4>3
    <3>2. CASE d # c
      <4>1. Inserted(d) /\ d \in Keys
        BY <2>3, <2>5, <3>2 DEF Inserted, Keys
      <4>2. /\ call'[d].old = call[d].old /\ call[d].old \in Keys
            /\ row[call[d].old] # "none" /\ rank[call[d].old] < rank[d]
        BY <1>2, <1>3, <2>5, <4>1 DEF Ordered
      <4> QED
        BY <2>1, <2>2, <2>3, <3>2, <4>1, <4>2
    <3> QED
      BY <3>1, <3>2
  <2>6. Ordered(next, c)'
    <3>1. row'[c] # "none"
      BY <2>3
    <3> QED
      BY <2>4, <2>5, <3>1 DEF Ordered
  <2> QED
    BY <2>1, <2>2, <2>6 DEF Order
<1>6. (\A k \in Keys : row[k] = "none" => row'[k] = "none")
      \/ \E c \in Calls : InsertKey(c) /\ row' = [row EXCEPT ![c] = "live"]
  BY RowStep DEF TypeOK, Stored
<1> QED
  BY <1>4, <1>5, <1>6

LEMMA KeepsInv == TypeOK /\ IInv /\ [Next]_vars => (TypeOK /\ IInv)'
<1> SUFFICES ASSUME TypeOK, IInv, [Next]_vars PROVE (TypeOK /\ IInv)'
  OBVIOUS
<1>1. TypeOK' /\ Paths'
  BY KeepsTypes, KeepsPaths DEF IInv
<1>2. Gone' /\ Rings' /\ Replacement' /\ Bytes' /\ Revealing' /\ Order' /\ Read' /\ Erased'
  BY KeepsGone, KeepsRings, KeepsReplacement, KeepsBytes, KeepsRevealing, KeepsOrder, KeepsRead,
     KeepsErased
<1> QED
  BY <1>1, <1>2 DEF IInv

-----------------------------------------------------------------------------
(* What the invariant is for.                                              *)

\* The key that was inserted last is not revoked, so it is listed or erased.
LEMMA LastKeyStands == TypeOK /\ IInv => KeyOutlivesRotation
<1> SUFFICES ASSUME TypeOK, IInv PROVE KeyOutlivesRotation
  OBVIOUS
<1>1. PICK rank \in [Keys -> Nat] : \E last \in Keys : Ordered(rank, last)
  BY DEF IInv, Order
<1>2. PICK last \in Keys : Ordered(rank, last)
  BY <1>1
<1>3. row[last] # "revoked"
  <2>1. SUFFICES ASSUME NEW d \in Calls, Replaced(d, last) PROVE FALSE
    BY DEF IInv, Replacement
  <2>2. d \in Keys /\ rank[last] < rank[d] /\ rank[d] <= rank[last]
    BY <1>2, <2>1 DEF Replaced, Ordered, Inserted, Keys
  <2>3. rank[d] \in Nat /\ rank[last] \in Nat
    BY <1>1, <2>2
  <2> QED
    BY <2>2, <2>3
<1>4. CASE row[last] = "live"
  BY <1>4 DEF KeyOutlivesRotation, Listed
<1>5. CASE row[last] = "deleted"
  BY <1>5 DEF KeyOutlivesRotation, IInv, Erased, Erases, Beyond, Given, Deletes
<1> QED
  BY <1>2, <1>3, <1>4, <1>5 DEF Ordered, TypeOK

LEMMA GoneIsFinal == TypeOK /\ IInv => DeletionIsFinal
  BY DEF DeletionIsFinal, IInv, Gone

LEMMA RefundIsClean == TypeOK /\ IInv => ChargedForEffect
<1> SUFFICES ASSUME TypeOK, IInv, NEW c \in Calls
             PROVE  /\ call[c].receipt = "returned" =>
                         /\ MintUndone(c) /\ RotationUndone(c)
                         /\ RevealUndone(c) /\ DeletionUndone(c)
                    /\ call[c].late => call[c].receipt = "none" /\ call[c].pc # "done"
  BY DEF ChargedForEffect
<1>1. call[c].late => call[c].receipt = "none" /\ call[c].pc # "done"
  BY DEF IInv, Revealing
<1>2. SUFFICES ASSUME call[c].receipt = "returned"
               PROVE  MintUndone(c) /\ RotationUndone(c) /\ RevealUndone(c) /\ DeletionUndone(c)
  BY <1>1
<1>3. call[c].pc = "failed"
  BY <1>2 DEF IInv, Paths, Path
<1>4. MintUndone(c)
  BY <1>3 DEF IInv, Rings, Inserted, MintUndone
<1>5. RotationUndone(c)
  <2>1. SUFFICES ASSUME call[c].op = "rotate"
                 PROVE  /\ row[c] # "none" => call[c].broke = "revoke"
                        /\ row[call[c].old] = "revoked" =>
                             \E d \in Calls \ {c} : /\ call[d].op = "rotate"
                                                    /\ call[d].old = call[c].old
                                                    /\ row[d] # "none"
    BY DEF RotationUndone
  <2>2. row[c] # "none" => call[c].broke = "revoke"
    BY <1>3 DEF IInv, Rings, Inserted
  <2>3. ASSUME row[call[c].old] = "revoked"
        PROVE  \E d \in Calls \ {c} : /\ call[d].op = "rotate"
                                      /\ call[d].old = call[c].old /\ row[d] # "none"
    <3>1. call[c].old \in Keys
      BY <2>1 DEF IInv, Paths, Path
    <3>2. PICK d \in Calls : Replaced(d, call[c].old)
      BY <2>3, <3>1 DEF IInv, Replacement
    <3> QED
      BY <1>3, <3>2 DEF Replaced, Inserted
  <2> QED
    BY <2>2, <2>3
<1>6. RevealUndone(c)
  <2>1. SUFFICES ASSUME call[c].op = "reveal", call[c].old \notin bytes
                 PROVE  \E d \in Calls \ {c} :
                          \/ Erases(d)
                          \/ /\ call[d].op = "reveal" /\ call[d].old = call[c].old
                             /\ call[d].pc \in {"audit", "done", "died"}
    BY DEF RevealUndone
  <2>2. PICK d \in Calls : Scrubbed(d, call[c].old) \/ Erases(d)
    BY <1>2, <2>1 DEF IInv, Bytes, Wants
  <2>3. d # c
    BY <1>3, <2>1, <2>2 DEF Scrubbed, Erases, Beyond, Deletes
  <2> QED
    BY <2>2, <2>3 DEF Scrubbed
<1>7. DeletionUndone(c)
  <2>1. account \/ \E d \in Calls \ {c} : Removes(d)
    BY <1>3 DEF IInv, Erased, Removes, Beyond
  <2>2. linked \/ call[c].broke = "remove" \/ \E d \in Calls \ {c} : Unlinks(d)
    BY <1>3 DEF IInv, Erased, Unlinks, Beyond
  <2>3. \/ \A k \in Keys : row[k] # "deleted"
        \/ call[c].broke \in {"unlink", "remove"}
        \/ \E d \in Calls \ {c} : Erases(d)
    BY <1>3 DEF IInv, Erased, Erases, Beyond
  <2> QED
    BY <2>1, <2>2, <2>3 DEF DeletionUndone
<1> QED
  BY <1>4, <1>5, <1>6, <1>7

-----------------------------------------------------------------------------
LEMMA Always == Spec => [](TypeOK /\ IInv)
  BY InitInv, KeepsInv, PTL DEF Spec

\* Type correctness of the account, its keys and the requests.
THEOREM TypeCorrect == Spec => []TypeOK
  BY Always, PTL

\* However many rotations race, fail half-way or die, the account keeps a
\* listed key until a deletion erases it (rotateApiKeyForUser).
THEOREM KeyStays == Spec => []KeyOutlivesRotation
  BY Always, LastKeyStands, PTL

\* An answered deletion leaves no account, no key and no job that points at
\* it, whatever requests are still under way (DELETE /v1/accounts/:id).
THEOREM DeletionFinal == Spec => []DeletionIsFinal
  BY Always, GoneIsFinal, PTL

\* A refunded mint or reveal has done nothing; a refunded rotation has its new key
\* listed only if the statement that revokes the old one failed (ops.ts:171, caught
\* at api-keys.ts:580); a refunded deletion has erased keys or unlinked jobs only if
\* a later statement of it failed (accounts.ts:388).  A reveal that comes after an
\* answered one is neither charged nor answered.
THEOREM RefundClean == Spec => []ChargedForEffect
  BY Always, RefundIsClean, PTL

-----------------------------------------------------------------------------
(***************************************************************************)
(* The list and the provider                                               *)
(***************************************************************************)
\* A teardown leaves no working key, and somebody has it behind him.
TornDown ==
    torn => /\ \A k \in Keys : vendor[k] # "live"
            /\ \E c \in Calls : /\ Deletes(c)
                                /\ call[c].pc \in {"erase", "unlink", "remove", "refund", "failed",
                                                   "died", "audit", "done"}

\* Before it, a listed key works, and so does one that is about to be listed.
Alive ==
    ~torn => /\ \A k \in Keys : row[k] = "live" => vendor[k] = "live"
             /\ \A c \in Calls : call[c].pc = "insert" => vendor[c] = "live"

\* The key that the provider is told to forget is listed no more.
Forgotten == \A c \in Calls : call[c].pc = "forget" => row[call[c].old] \notin {"live", "none"}

\* A key without a row is that of a request on its way to the row, or failed.
Unlisted ==
    /\ row[First] # "none"
    /\ \A c \in Calls : row[c] = "none" /\ vendor[c] # "none" =>
          call[c].pc \in {"insert", "refund", "failed", "died"}

\* Nobody told the provider, or somebody is about to, or could not.
Blamed(c, k) == /\ call[c].pc # "idle" /\ call[c].old = k
                /\ call[c].lapse \/ call[c].pc \in {"forget", "died"}
Spared ==
    \A k \in Keys : row[k] = "revoked" /\ vendor[k] = "live" =>
        \/ k \notin handle
        \/ \E c \in Calls : Blamed(c, k)

\* A deletion that is past the teardown has torn the account down, or failed to.
PastTeardown ==
    \A c \in Calls : Deletes(c) /\ ~Given(c) /\ call[c].pc # "teardown" =>
        torn \/ call[c].lapse \/ call[c].pc = "died"

Vend == TornDown /\ Alive /\ Forgotten /\ Unlisted /\ Spared /\ PastTeardown

LEMMA InitVend == Init => Vend
<1> SUFFICES ASSUME Init PROVE Vend
  OBVIOUS
<1> QED
  BY KeysAssumption
  DEF Init, Keys, Vend, TornDown, Alive, Forgotten, Unlisted, Spared, PastTeardown, Deletes, Given

\* The provider makes a key, forgets one, or tears the account down.
LEMMA VendorStep ==
    ASSUME TypeOK, Paths, [Next]_vars
    PROVE  \/ vendor' = vendor /\ torn' = torn
           \/ \E c \in Calls : CreateApiKey(c) /\ torn' = torn /\ vendor' = Made(c)
           \/ \E c \in Calls : /\ RevokeApiKey(c) /\ torn' = torn
                               /\ vendor' = [vendor EXCEPT ![call[c].old] = "dead"]
           \/ \E c \in Calls : /\ Teardown(c) /\ torn' = TRUE /\ Goes(c, "erase")
                               /\ vendor' = [k \in Keys |-> IF vendor[k] = "live" THEN "dead"
                                                            ELSE vendor[k]]
<1> USE DEF remote
<1>1. ASSUME NEW c \in Calls, CreateApiKey(c)
      PROVE  torn' = torn /\ (vendor' = vendor \/ vendor' = Made(c))
  BY <1>1 DEF CreateApiKey
<1>2. ASSUME NEW c \in Calls, RevokeApiKey(c)
      PROVE  torn' = torn /\ (vendor' = vendor \/ vendor' = [vendor EXCEPT ![call[c].old] = "dead"])
  BY <1>2 DEF RevokeApiKey
<1>3. ASSUME NEW c \in Calls, Teardown(c)
      PROVE  \/ vendor' = vendor /\ torn' = torn
             \/ /\ torn' = TRUE /\ Goes(c, "erase")
                /\ vendor' = [k \in Keys |-> IF vendor[k] = "live" THEN "dead" ELSE vendor[k]]
  BY <1>3 DEF Teardown
<1>4. ASSUME NEW c \in Calls,
             \/ Start(c) \/ Gate(c) \/ Refund(c) \/ Own(c) \/ ReadKey(c) \/ InsertKey(c)
             \/ RevokeOld(c) \/ Decrypt(c) \/ Scrub(c) \/ EraseKeys(c) \/ UnlinkJobs(c)
             \/ RemoveAccount(c) \/ Answer(c) \/ Throw(c) \/ Die(c)
      PROVE  vendor' = vendor /\ torn' = torn
  BY <1>4 DEF Start, Gate, Refund, Own, ReadKey, InsertKey, RevokeOld, Decrypt, Scrub, EraseKeys,
              UnlinkJobs, RemoveAccount, Answer, Throw, Die
<1>5. CASE UNCHANGED vars
  BY <1>5 DEF vars
<1> QED
  BY <1>1, <1>2, <1>3, <1>4, <1>5, Zenon DEF Next, Proceed

Told == {"refund", "failed", "died"}
Ended == {"erase", "unlink", "remove", "refund", "failed", "died", "audit", "done"}

\* A lapse, a death, and the way a request has failed stay.
LEMMA Stands ==
    ASSUME TypeOK, Paths, [Next]_vars, NEW d \in Calls, call[d].pc # "idle"
    PROVE  /\ call[d].lapse => call'[d].lapse
           /\ call[d].pc = "died" => call'[d].pc = "died"
           /\ call[d].pc \in Told => call'[d].pc \in Told
           /\ Deletes(d) /\ call[d].pc \in Ended => call'[d].pc \in Ended
           /\ call[d].pc = "insert" => call'[d].pc \in {"insert", "audit", "revoke"} \cup Told
           /\ call'[d].pc = "forget" => call[d].pc \in {"forget", "revoke"}
           /\ call'[d].pc = "insert" => call[d].pc \in {"insert", "create"}
<1> USE DEF Goes, Fail, Failing, Told, Ended, Deletes, TypeOK
<1>1. CASE call'[d] = call[d]
  BY <1>1
<1>2. ASSUME NEW c \in Calls, Start(c) PROVE call'[d] = call[d]
  BY <1>2 DEF Start
<1>3. ASSUME NEW c \in Calls, Proceed(c) \/ Throw(c) \/ Die(c), c # d PROVE call'[d] = call[d]
  BY <1>3, Keeps
<1> DEFINE Goal ==
      /\ call[d].lapse => call'[d].lapse
      /\ call[d].pc = "died" => call'[d].pc = "died"
      /\ call[d].pc \in Told => call'[d].pc \in Told
      /\ Deletes(d) /\ call[d].pc \in Ended => call'[d].pc \in Ended
      /\ call[d].pc = "insert" => call'[d].pc \in {"insert", "audit", "revoke"} \cup Told
      /\ call'[d].pc = "forget" => call[d].pc \in {"forget", "revoke"}
      /\ call'[d].pc = "insert" => call[d].pc \in {"insert", "create"}
<1>4. ASSUME Proceed(d) \/ Throw(d) \/ Die(d) PROVE Goal
  <2>1. CASE Gate(d) \/ Own(d) \/ ReadKey(d)
    BY <2>1 DEF Gate, Charged, Own, ReadKey, Paths, Path, Ops
  <2>2. CASE CreateApiKey(d) \/ InsertKey(d)
    BY <2>2 DEF CreateApiKey, InsertKey, Paths, Path
  <2>3. CASE RevokeOld(d) \/ Decrypt(d) \/ Scrub(d)
    BY <2>3 DEF RevokeOld, Decrypt, Scrub, Paths, Path
  <2>4. CASE RevokeApiKey(d) \/ Teardown(d)
    BY <2>4 DEF RevokeApiKey, Teardown
  <2>5. CASE EraseKeys(d) \/ UnlinkJobs(d) \/ RemoveAccount(d)
    BY <2>5 DEF EraseKeys, UnlinkJobs, RemoveAccount
  <2>6. CASE Refund(d) \/ Answer(d) \/ Die(d)
    BY <2>6 DEF Refund, Answer, Die, Steps, InTry
  <2>7. CASE Throw(d)
    BY <2>7 DEF Throw, InTry
  <2> QED
    BY <1>4, <2>1, <2>2, <2>3, <2>4, <2>5, <2>6, <2>7 DEF Proceed
<1>5. CASE UNCHANGED vars
  BY <1>1, <1>5 DEF vars
<1>6. call'[d] = call[d] => Goal
  OBVIOUS
<1> HIDE DEF Goal
<1>7. Goal
  BY <1>2, <1>3, <1>4, <1>5, <1>6 DEF Next, vars
<1> QED
  BY <1>7 DEF Goal

\* A request that begins has only been admitted, or not even that.
LEMMA Begins ==
    ASSUME TypeOK, Paths, [Next]_vars, NEW d \in Calls, call[d].pc = "idle"
    PROVE  call'[d].pc \in {"idle", "missing", "read", "create", "gate"}
<1>1. ASSUME NEW c \in Calls, Start(c)
      PROVE  call'[d].pc \in {"idle", "missing", "read", "create", "gate"}
  <2>1. PICK a \in Asks[c] : \E pc \in {"missing", "read", "create", "gate"} : Starts(c, a, pc)
    BY <1>1, StartShape
  <2> QED
    BY <2>1 DEF Starts, TypeOK
<1>2. ASSUME NEW c \in Calls, Proceed(c) \/ Throw(c) \/ Die(c) PROVE call'[d] = call[d]
  BY <1>2, Keeps
<1>3. CASE UNCHANGED vars
  BY <1>3 DEF vars
<1> QED
  BY <1>1, <1>2, <1>3 DEF Next

\* Only its own steps move a request that has begun.
LEMMA Moves ==
    ASSUME TypeOK, Paths, [Next]_vars, NEW d \in Calls, call[d].pc # "idle", call'[d] # call[d]
    PROVE  Proceed(d) \/ Throw(d) \/ Die(d)
<1>1. ASSUME NEW c \in Calls, Proceed(c) \/ Throw(c) \/ Die(c) PROVE c = d
  BY <1>1, Keeps
<1>2. ASSUME NEW c \in Calls, Start(c) PROVE FALSE
  BY <1>2 DEF Start, TypeOK
<1>3. call' # call
  OBVIOUS
<1> QED
  BY <1>1, <1>2, <1>3 DEF Next, vars

\* A row that is new is that of a request at its insert; a row that is listed
\* was listed before, or is new.
LEMMA RowMoves ==
    ASSUME TypeOK, IInv, [Next]_vars, NEW k \in Keys
    PROVE  /\ row[k] = "none" /\ row'[k] # "none" =>
                k \in Calls /\ InsertKey(k) /\ row'[k] = "live"
           /\ row'[k] = "live" => row[k] \in {"live", "none"}
           /\ row[k] # "revoked" /\ row'[k] = "revoked" =>
                \E c \in Calls : RevokeOld(c) /\ call[c].old = k
<1> USE DEF TypeOK, IInv
<1>1. ASSUME NEW c \in Calls, InsertKey(c), row' = [row EXCEPT ![c] = "live"]
      PROVE  c \in Keys /\ row[c] = "none" /\ row'[c] = "live" /\ \A j \in Keys \ {c} : row'[j] = row[j]
  BY <1>1 DEF InsertKey, Rings, Inserted, Keys
<1>2. ASSUME NEW c \in Calls, RevokeOld(c), row[call[c].old] = "live",
             row' = [row EXCEPT ![call[c].old] = "revoked"]
      PROVE  \A j \in Keys : IF j = call[c].old THEN row[j] = "live" /\ row'[j] = "revoked"
                             ELSE row'[j] = row[j]
  BY <1>2
<1>3. ASSUME row' = [j \in Keys |-> IF j \in Stored THEN "deleted" ELSE row[j]]
      PROVE  IF row[k] \in {"live", "revoked"} THEN row'[k] = "deleted" ELSE row'[k] = row[k]
  BY <1>3 DEF Stored
<1> QED
  BY <1>1, <1>2, <1>3, RowStep

LEMMA KeepsTornDown == TypeOK /\ IInv /\ Vend /\ [Next]_vars => TornDown'
<1> SUFFICES ASSUME TypeOK, IInv, Vend, [Next]_vars, torn' = TRUE PROVE TornDown'
  BY DEF TornDown
<1> USE DEF IInv, TypeOK, Vend
<1>1. CASE torn
  <2>1. PICK d \in Calls : Deletes(d) /\ call[d].pc \in Ended
    BY <1>1 DEF TornDown, Ended
  <2>2. call[d].pc # "idle"
    BY <2>1 DEF Ended
  <2>3. Deletes(d)' /\ call'[d].pc \in Ended
    BY <2>1, <2>2, Forward, Stands DEF Deletes
  <2>4. \A k \in Keys : vendor'[k] # "live"
    BY <1>1, VendorStep DEF TornDown, Made, Keys
  <2> QED
    BY <2>3, <2>4 DEF TornDown, Ended
<1>2. CASE ~torn
  <2>1. PICK c \in Calls : /\ Teardown(c) /\ Goes(c, "erase")
                           /\ vendor' = [k \in Keys |-> IF vendor[k] = "live" THEN "dead"
                                                        ELSE vendor[k]]
    BY <1>2, VendorStep
  <2>2. Deletes(c)' /\ call'[c].pc = "erase"
    BY <2>1 DEF Teardown, Goes, Paths, Path, Deletes
  <2> QED
    BY <2>1, <2>2 DEF TornDown
<1> QED
  BY <1>1, <1>2

LEMMA KeepsAlive == TypeOK /\ IInv /\ Vend /\ [Next]_vars => Alive'
<1> SUFFICES ASSUME TypeOK, IInv, Vend, [Next]_vars, ~torn' PROVE Alive'
  BY DEF Alive
<1> USE DEF IInv, TypeOK, Vend
<1>0. ~torn
  BY VendorStep
\* what worked and is listed or about to be is not told to the provider
<1>1. ASSUME NEW k \in Keys, vendor[k] = "live",
             row[k] = "live" \/ (row[k] = "none" /\ row[First] # "none")
      PROVE  vendor'[k] = "live"
  <2>1. ASSUME NEW c \in Calls, RevokeApiKey(c) PROVE call[c].old \in Keys \ {k}
    BY <1>1, <2>1 DEF RevokeApiKey, Forgotten, Paths, Path
  <2> QED
    BY <1>0, <1>1, <2>1, VendorStep DEF Made, Keys
<1>2. ASSUME NEW k \in Keys, row'[k] = "live" PROVE vendor'[k] = "live"
  <2>1. CASE row[k] = "live"
    BY <1>0, <1>1, <2>1 DEF Alive
  <2>2. CASE row[k] = "none"
    <3>1. k \in Calls /\ InsertKey(k)
      BY <1>2, <2>2, RowMoves
    <3>2. call[k].pc = "insert"
      BY <3>1 DEF InsertKey
    <3> QED
      BY <1>0, <1>1, <2>2, <3>1, <3>2 DEF Alive, Unlisted
  <2> QED
    BY <1>2, <2>1, <2>2, RowMoves
<1>3. ASSUME NEW c \in Calls, call'[c].pc = "insert" PROVE vendor'[c] = "live"
  <2>0. c \in Keys
    BY DEF Keys
  <2>1. CASE call[c].pc = "insert"
    <3>1. vendor[c] = "live" /\ row[c] = "none"
      BY <1>0, <2>1 DEF Alive, Rings, Inserted
    <3> QED
      BY <1>1, <2>0, <3>1 DEF Unlisted
  <2>2. CASE call[c].pc # "insert" /\ call[c].pc # "idle"
    <3>1. call[c].pc = "create"
      BY <1>3, <2>2, Stands
    <3>2. CreateApiKey(c)
      <4>4. Proceed(c) \/ Throw(c) \/ Die(c)
        BY <1>3, <3>1, Moves
      <4>5. ~Throw(c) /\ ~Die(c)
        BY <1>3, <3>1 DEF Throw, Die, Goes
      <4> QED
        BY <3>1, <4>4, <4>5
        DEF Proceed, Gate, Refund, Own, ReadKey, InsertKey, RevokeOld, RevokeApiKey, Decrypt,
            Scrub, Teardown, EraseKeys, UnlinkJobs, RemoveAccount, Answer
    <3> QED
      BY <1>0, <1>3, <2>0, <3>2 DEF CreateApiKey, Made, Fail, Failing, Goes
  <2>3. CASE call[c].pc = "idle"
    BY <1>3, <2>3, Begins
  <2> QED
    BY <2>1, <2>2, <2>3
<1> QED
  BY <1>2, <1>3 DEF Alive

LEMMA KeepsForgotten == TypeOK /\ IInv /\ Vend /\ [Next]_vars => Forgotten'
<1> SUFFICES ASSUME TypeOK, IInv, Vend, [Next]_vars, NEW c \in Calls, call'[c].pc = "forget"
             PROVE  row'[call'[c].old] \notin {"live", "none"}
  BY DEF Forgotten
<1> USE DEF IInv, TypeOK, Vend
<1>1. call[c].pc \in {"forget", "revoke"} /\ call'[c].old = call[c].old
  BY Begins, Stands, Forward
<1>2. call[c].old \in Keys /\ row[call[c].old] # "none"
  BY <1>1 DEF Paths, Path, Read
<1>3. CASE call[c].pc = "forget"
  BY <1>1, <1>2, <1>3, RowsStay, RowMoves DEF Forgotten
<1>4. CASE call[c].pc = "revoke"
  <2>3. RevokeOld(c)
    <3>2. Proceed(c) \/ Throw(c) \/ Die(c)
      BY <1>4, Moves
    <3>3. ~Throw(c) /\ ~Die(c)
      BY <1>4 DEF Throw, Die, Goes, Fail, Failing
    <3> QED
      BY <1>4, <3>2, <3>3
      DEF Proceed, Gate, Refund, Own, ReadKey, CreateApiKey, InsertKey, RevokeApiKey, Decrypt,
          Scrub, Teardown, EraseKeys, UnlinkJobs, RemoveAccount, Answer
  <2> QED
    BY <1>1, <1>2, <2>3 DEF RevokeOld
<1> QED
  BY <1>1, <1>3, <1>4

LEMMA KeepsUnlisted == TypeOK /\ IInv /\ Vend /\ [Next]_vars => Unlisted'
<1> SUFFICES ASSUME TypeOK, IInv, Vend, [Next]_vars PROVE Unlisted'
  OBVIOUS
<1> USE DEF IInv, TypeOK, Vend
<1>1. row'[First] # "none"
  BY RowsStay DEF Unlisted, Keys
<1>2. ASSUME NEW c \in Calls, row'[c] = "none", vendor'[c] # "none"
      PROVE  call'[c].pc \in {"insert", "refund", "failed", "died"}
  <2>0. c \in Keys /\ row[c] = "none"
    BY <1>2, RowsStay DEF Keys
  <2>1. CASE vendor[c] # "none"
    <3>1. call[c].pc \in {"insert", "refund", "failed", "died"}
      BY <2>0, <2>1 DEF Unlisted
    <3>2. call'[c].pc \in {"insert", "audit", "revoke"} \cup Told
      BY <3>1, Stands DEF Told
    <3>3. call[c].pc = "insert" => call'[c].pc \notin {"audit", "revoke"}
      <4>1. SUFFICES ASSUME call[c].pc = "insert", call'[c].pc \in {"audit", "revoke"} PROVE FALSE
        OBVIOUS
      <4>4. Proceed(c) \/ Throw(c) \/ Die(c)
        BY <4>1, Moves
      <4>5. ~Throw(c) /\ ~Die(c)
        BY <4>1 DEF Throw, Die, Goes, Fail, Failing
      <4>6. InsertKey(c)
        BY <4>1, <4>4, <4>5
        DEF Proceed, Gate, Refund, Own, ReadKey, CreateApiKey, RevokeOld, RevokeApiKey, Decrypt,
            Scrub, Teardown, EraseKeys, UnlinkJobs, RemoveAccount, Answer
      <4>7. row'[c] = "live"
        BY <2>0, <4>1, <4>6 DEF InsertKey, Fail, Failing, Goes
      <4> QED
        BY <1>2, <4>7
    <3> QED
      BY <3>1, <3>2, <3>3, Stands DEF Told
  <2>2. CASE vendor[c] = "none"
    <3>1. CreateApiKey(c)
      <4>1. ASSUME NEW b \in Calls, RevokeApiKey(b) PROVE call[b].old # c
        BY <2>0, <4>1 DEF RevokeApiKey, Forgotten
      <4>2. ASSUME NEW b \in Calls, vendor' = Made(b) PROVE b = c
        BY <1>2, <2>0, <2>2, <4>2 DEF Made
      <4>3. ASSUME NEW b \in Calls, RevokeApiKey(b),
                   vendor' = [vendor EXCEPT ![call[b].old] = "dead"]
            PROVE  FALSE
        BY <1>2, <2>0, <2>2, <4>1, <4>3
      <4>4. vendor' # [k \in Keys |-> IF vendor[k] = "live" THEN "dead" ELSE vendor[k]]
        BY <1>2, <2>0, <2>2
      <4> QED
        BY <1>2, <2>2, <4>2, <4>3, <4>4, VendorStep
    <3> QED
      BY <3>1 DEF CreateApiKey, Fail, Failing, Goes
  <2> QED
    BY <2>0, <2>1, <2>2
<1> QED
  BY <1>1, <1>2 DEF Unlisted

LEMMA KeepsSpared == TypeOK /\ IInv /\ Vend /\ [Next]_vars => Spared'
<1> SUFFICES ASSUME TypeOK, IInv, Vend, [Next]_vars,
                    NEW k \in Keys, row'[k] = "revoked", vendor'[k] = "live", k \in handle'
             PROVE  \E c \in Calls : Blamed(c, k)'
  BY DEF Spared
<1> USE DEF IInv, TypeOK, Vend
<1>1. row[k] # "none"
  BY RowMoves
<1>2. vendor[k] = "live"
  <2>1. ASSUME NEW c \in Calls, CreateApiKey(c), vendor' = Made(c) PROVE c # k
    <3>1. row[c] = "none"
      BY <2>1 DEF CreateApiKey, Rings, Inserted
    <3> QED
      BY <1>1, <3>1
  <2>2. ASSUME NEW c \in Calls, c # k, vendor' = Made(c) PROVE vendor[k] = "live"
    BY <2>2 DEF Made
  <2>3. ASSUME NEW j, vendor' = [vendor EXCEPT ![j] = "dead"] PROVE vendor[k] = "live"
    BY <2>3
  <2>4. vendor' # [j \in Keys |-> IF vendor[j] = "live" THEN "dead" ELSE vendor[j]]
    OBVIOUS
  <2> QED
    BY <2>1, <2>2, <2>3, <2>4, VendorStep
<1>3. k \in handle
  <2>1. ASSUME NEW c \in Calls, InsertKey(c) PROVE row[c] = "none"
    BY <2>1 DEF InsertKey, Rings, Inserted
  <2>2. ASSUME NEW c \in Calls, InsertKey(c) PROVE k \in handle
    BY <1>1, <2>1, <2>2 DEF InsertKey
  <2>3. ASSUME NEW c \in Calls, Start(c) \/ Proceed(c) \/ Throw(c) \/ Die(c), ~InsertKey(c)
        PROVE  handle' = handle
    BY <2>3 DEF Proceed, Start, Gate, Refund, Own, ReadKey, CreateApiKey, RevokeOld, RevokeApiKey,
                Decrypt, Scrub, Teardown, EraseKeys, UnlinkJobs, RemoveAccount, Answer, Throw,
                Die, tables
  <2> QED
    BY <2>2, <2>3 DEF Next, vars
<1>4. CASE row[k] = "revoked"
  <2>1. PICK c \in Calls : Blamed(c, k)
    BY <1>2, <1>3, <1>4 DEF Spared
  <2>2. call[c].pc # "idle" /\ call[c].old = k
    BY <2>1 DEF Blamed
  <2>3. call'[c].pc # "idle" /\ call'[c].old = k /\ (call[c].lapse => call'[c].lapse)
        /\ (call[c].pc = "died" => call'[c].pc = "died")
    BY <2>1, <2>2, Forward, Stands
  <2>4. CASE call[c].pc = "forget" /\ call'[c] # call[c]
    <3>1. RevokeApiKey(c) \/ Die(c)
      BY <2>4, Moves
      DEF Proceed, Gate, Refund, Own, ReadKey, CreateApiKey, InsertKey, RevokeOld, Decrypt, Scrub,
          Teardown, EraseKeys, UnlinkJobs, RemoveAccount, Answer, Throw
    <3>2. CASE RevokeApiKey(c)
      <4>1. vendor' # [vendor EXCEPT ![k] = "dead"]
        OBVIOUS
      <4>2. call'[c].lapse = TRUE
        BY <2>2, <3>2, <4>1 DEF RevokeApiKey
      <4> QED
        BY <2>3, <4>2 DEF Blamed
    <3>3. CASE Die(c)
      BY <2>3, <3>3 DEF Die, Goes, Blamed
    <3> QED
      BY <3>1, <3>2, <3>3
  <2>5. CASE call'[c] = call[c] \/ call[c].lapse \/ call[c].pc = "died"
    BY <2>1, <2>3, <2>5 DEF Blamed
  <2> QED
    BY <2>1, <2>4, <2>5 DEF Blamed
<1>5. CASE row[k] # "revoked"
  <2>1. PICK c \in Calls : RevokeOld(c) /\ call[c].old = k
    BY <1>5, RowMoves
  <2>2. call'[c].old = k /\ call'[c].pc = "forget"
    BY <1>3, <2>1 DEF RevokeOld, Goes
  <2> QED
    BY <2>2 DEF Blamed
<1> QED
  BY <1>4, <1>5

LEMMA KeepsPast == TypeOK /\ IInv /\ Vend /\ [Next]_vars => PastTeardown'
<1> SUFFICES ASSUME TypeOK, IInv, Vend, [Next]_vars, NEW c \in Calls,
                    (Deletes(c) /\ ~Given(c) /\ call[c].pc # "teardown")'
             PROVE  torn' \/ call'[c].lapse \/ call'[c].pc = "died"
  BY DEF PastTeardown
<1> USE DEF IInv, TypeOK, Vend
<1>1. torn => torn'
  BY VendorStep
<1>2. CASE call[c].pc = "idle"
  <2>1. call'[c].pc \in {"read", "create"}
    BY <1>2, Begins DEF Given
  <2> QED
    BY <2>1, KeepsPaths DEF Deletes, Paths, Path
<1>3. CASE call'[c] = call[c]
  BY <1>1, <1>3 DEF PastTeardown, Deletes, Given
<1>4. CASE call[c].pc # "idle" /\ call'[c] # call[c]
  <2>2. call[c].lapse => call'[c].lapse
    BY <1>4, Stands
  <2>3. CASE ~Given(c) /\ call[c].pc # "teardown"
    BY <1>1, <1>4, <2>2, <2>3, Forward, Stands DEF PastTeardown, Deletes
  <2>4. CASE Teardown(c)
    BY <2>4 DEF Teardown
  <2>5. CASE Die(c)
    BY <2>5 DEF Die, Goes
  <2>6. CASE Gate(c)
    BY <1>4, <2>6, Forward DEF Gate, Goes, Charged, Deletes, Given
  <2>7. CASE /\ Given(c) \/ call[c].pc = "teardown"
             /\ ~Teardown(c) /\ ~Die(c) /\ ~Gate(c)
    BY <1>4, <2>7, Moves
    DEF Given, Proceed, Refund, Own, ReadKey, CreateApiKey, InsertKey, RevokeOld, RevokeApiKey,
        Decrypt, Scrub, EraseKeys, UnlinkJobs, RemoveAccount, Answer, Throw, InTry
  <2> QED
    BY <2>3, <2>4, <2>5, <2>6, <2>7
<1> QED
  BY <1>2, <1>3, <1>4

LEMMA VendInvariance == Spec => [](TypeOK /\ IInv /\ Vend)
<1>1. TypeOK /\ IInv /\ Vend /\ [Next]_vars => Vend'
  BY KeepsTornDown, KeepsAlive, KeepsForgotten, KeepsUnlisted, KeepsSpared, KeepsPast DEF Vend
<1> QED
  BY <1>1, InitVend, Always, PTL DEF Spec

LEMMA ListAgrees == TypeOK /\ IInv /\ Vend => ListMatchesProvider
<1> SUFFICES ASSUME TypeOK, IInv, Vend PROVE ListMatchesProvider
  OBVIOUS
<1> USE DEF IInv, TypeOK, Vend
<1>1. \/ Listed \subseteq Working
      \/ \E c \in Calls : Deletes(c) /\ call[c].pc \in {"erase", "unlink", "remove", "refund",
                                                        "failed", "died"}
  <2>1. CASE ~torn
    BY <2>1 DEF Alive, Listed, Working
  <2>2. CASE torn
    <3>1. PICK c \in Calls : Deletes(c) /\ call[c].pc \in Ended
      BY <2>2 DEF TornDown, Ended
    <3>2. call[c].pc \in {"audit", "done"} => Listed = {}
      BY <3>1 DEF Gone, Stored, Listed
    <3> QED
      BY <3>1, <3>2 DEF Ended
  <2> QED
    BY <2>1, <2>2
<1>2. ASSUME NEW k \in Working \ Listed
      PROVE  \/ k \in Calls /\ call[k].pc \in {"insert", "refund", "failed", "died"}
             \/ k \notin handle
             \/ \E c \in Calls : /\ call[c].old = k \/ Deletes(c)
                                 /\ call[c].lapse \/ call[c].pc \in {"forget", "died"}
  <2>1. k \in Keys /\ vendor[k] = "live" /\ row[k] \in {"none", "revoked", "deleted"} /\ ~torn
    BY DEF Working, Listed, TornDown
  <2>2. CASE row[k] = "none"
    BY <2>1, <2>2 DEF Unlisted, Keys
  <2>3. CASE row[k] = "revoked"
    BY <2>1, <2>3 DEF Spared, Blamed
  <2>4. CASE row[k] = "deleted"
    BY <2>1, <2>4 DEF Erased, PastTeardown, Erases, Beyond, Given, Deletes
  <2> QED
    BY <2>1, <2>2, <2>3, <2>4
<1> QED
  BY <1>1, <1>2 DEF ListMatchesProvider

\* The list of keys and the provider agree but for the lapses that the code
\* gives up on, however requests interleave, fail or die.
THEOREM ListAndProvider == Spec => []ListMatchesProvider
  BY VendInvariance, ListAgrees, PTL

-----------------------------------------------------------------------------
(***************************************************************************)
(* The access tokens of a workspace                                        *)
(***************************************************************************)

Issuers == Creators \union Rotators
Killers == Revokers \union Sweepers

\* Issuers whose token is in no document yet.
Young == {o \in Issuers : at[o] \notin {"done", "refused"}}

\* RotationChains and RevokedForCause, of a document d.
Chained(d, g) ==
    \A r \in Rotators : Has(d, r) =>
        /\ Has(d, g[r]) /\ ~Live(d, g[r])
        /\ d[r].agent = d[g[r]].agent
        /\ \A s \in Rotators \ {r} : Has(d, s) => g[s] # g[r]

Caused(d, g, a) ==
    \A t \in Tokens : Has(d, t) /\ ~Live(d, t) =>
        \/ \E r \in Rotators : Has(d, r) /\ g[r] = t
        \/ \E o \in TokenOps : t \in a[o]

Sane(d, g, a, young) ==
    /\ d \in Files /\ \A r \in Rotators : Has(d, r) => g[r] \in Tokens
    /\ Chained(d, g) /\ Caused(d, g, a)
    /\ \A o \in young : ~Has(d, o)

\* Where a request stands, and what it has in its hands there.
Standing(o) ==
    /\ at[o] = "idle" => asked[o] = {}
    /\ at[o] = "list" => o \in Sweepers
    /\ o \in Sweepers /\ at[o] \in {"stamp", "list"} => asked[o] = {}
    /\ o \notin Killers => left[o] = {}
    /\ at[o] \in {"ready", "write"} => o \notin Readers
    /\ o \in Rotators /\ at[o] # "idle" => goal[o] \in Tokens
    /\ copy[o] # Nothing <=> at[o] \in {"stamp", "write"}
    /\ at[o] = "write" =>
         /\ o \in Rotators => Live(copy[o], goal[o])
         /\ o \in Killers => Has(copy[o], goal[o]) /\ goal[o] \in left[o]

TokenInv ==
    /\ TSTypeOK
    /\ \A o \in TokenOps : Standing(o)
    /\ Sane(file, goal, asked, Young)
    /\ \A o \in TokenOps : copy[o] # Nothing => Sane(copy[o], goal, asked, Young)

-----------------------------------------------------------------------------
\* No request is of two kinds, and Nothing is no document and no token.
LEMMA Kinds ==
    /\ Readers \subseteq TokenOps /\ Issuers \subseteq TokenOps /\ Killers \subseteq TokenOps
    /\ Issuers \intersect Killers = {} /\ Readers \intersect Issuers = {}
    /\ Readers \intersect Killers = {} /\ Creators \intersect Rotators = {}
    /\ Revokers \intersect Sweepers = {}
    /\ Issuers \subseteq Tokens /\ Tokens \intersect Killers = {}
    /\ TokenOps = Readers \union Issuers \union Killers /\ Nothing \notin Tokens
  BY KindsAssumption DEF TokenOps, Tokens, Issuers, Killers

LEMMA InitToken == TSInit => TokenInv
<1> SUFFICES ASSUME TSInit PROVE TokenInv
  OBVIOUS
<1> USE DEF TSInit
<1>1. file \in Files
  BY DEF Files, Records
<1>2. TSTypeOK
  BY <1>1 DEF TSTypeOK, Phases
<1>3. \A o \in TokenOps : Standing(o)
  BY DEF Standing
<1>4. \A t \in Tokens : Has(file, t) => t \in Founders /\ Live(file, t)
  BY DEF Has, Live
<1>5. \A o \in Issuers : ~Has(file, o)
  BY <1>4, KindsAssumption DEF Issuers, Tokens, TokenOps
<1>6. Sane(file, goal, asked, Young)
  BY <1>1, <1>4, <1>5 DEF Sane, Chained, Caused, Young, Issuers
<1> QED
  BY <1>2, <1>3, <1>6 DEF TokenInv

-----------------------------------------------------------------------------
(***************************************************************************)
(* Documents                                                               *)
(***************************************************************************)

\* A document stays sane when requests are only asked for more, and no token
\* it has is newly aimed at another one.
LEMMA SaneStays ==
    ASSUME NEW d, NEW g, NEW a, NEW y, NEW g2, NEW a2, NEW y2,
           Sane(d, g, a, y), y2 \subseteq y,
           \A r \in Rotators \ y : g2[r] = g[r],
           \A o \in TokenOps : a[o] \subseteq a2[o]
    PROVE  Sane(d, g2, a2, y2)
<1>1. \A r \in Rotators : Has(d, r) => g2[r] = g[r]
  BY DEF Sane
<1>2. Chained(d, g2)
  BY <1>1 DEF Sane, Chained
<1>3. Caused(d, g2, a2)
  BY <1>1 DEF Sane, Caused
<1> QED
  BY <1>1, <1>2, <1>3 DEF Sane

\* Records of tokens that are there are records.
LEMMA HasRecord ==
    ASSUME NEW d \in Files, NEW t \in Tokens, Has(d, t) PROVE d[t] \in Records
  BY DEF Files, Has

\* createToken makes a sane document of a sane one.
LEMMA CreatedSane ==
    ASSUME NEW o \in Creators, NEW d, NEW y \in SUBSET Issuers,
           Sane(d, goal, asked, y), o \in y
    PROVE  Sane(Created(d, o), goal, asked, y \ {o})
<1> DEFINE e == Created(d, o)
<1>1. d \in Files /\ ~Has(d, o) /\ o \in Tokens /\ o \notin Rotators
  BY Kinds DEF Sane, Issuers
<1>2. e[o] = [live |-> TRUE, agent |-> FALSE] /\ \A t \in Tokens \ {o} : e[t] = d[t]
  BY <1>1 DEF Files, Created
<1>3. e \in Files
  BY <1>1 DEF Files, Created, Records
<1>4. e[o] \in Records
  BY <1>2 DEF Records
<1>5. \A p \in y \ {o} : Has(e, p) => Has(d, p)
  BY <1>2, Kinds DEF Has
<1> HIDE DEF e
<1>6. e[o].live = TRUE
  BY <1>2
<1>7. e[o] # Nothing
  BY <1>4, NothingAssumption
<1>8. Live(e, o)
  BY <1>6, <1>7, Zenon DEF Has, Live
<1>9. \A t \in Tokens \ {o} : (Has(e, t) <=> Has(d, t)) /\ (Live(e, t) <=> Live(d, t))
  BY <1>2, Zenon DEF Has, Live
<1>10. Live(e, o) /\ \A t \in Tokens \ {o} : /\ Has(e, t) <=> Has(d, t)
                                             /\ Live(e, t) <=> Live(d, t)
  BY <1>8, <1>9
<1>11. \A r \in Rotators : r \in Tokens /\ r # o /\ (Has(d, r) => goal[r] \in Tokens \ {o})
  BY <1>1, Kinds DEF Sane, Chained, Issuers
<1>12. Chained(e, goal)
  BY <1>2, <1>10, <1>11 DEF Sane, Chained
<1>13. Caused(e, goal, asked)
  BY <1>1, <1>10, <1>11 DEF Sane, Caused
<1>14. \A r \in Rotators : Has(e, r) => goal[r] \in Tokens
  BY <1>10, <1>11
<1>15. Sane(e, goal, asked, y \ {o})
  BY <1>3, <1>12, <1>13, <1>14, <1>5 DEF Sane
<1> QED
  BY <1>15 DEF e

\* rotateToken makes a sane document of a sane one.
LEMMA RotatedSane ==
    ASSUME NEW o \in Rotators, NEW d, NEW y \in SUBSET Issuers,
           Sane(d, goal, asked, y), o \in y,
           goal[o] \in Tokens, Live(d, goal[o])
    PROVE  Sane(Rotated(d, o), goal, asked, y \ {o})
<1> DEFINE e == Rotated(d, o)
           g == goal[o]
<1>1. d \in Files /\ ~Has(d, o) /\ o \in Tokens /\ g # o /\ d[g] \in Records
  BY Kinds, HasRecord DEF Sane, Issuers, Live
<1>2. /\ e[g] = [live |-> FALSE, agent |-> d[g].agent]
      /\ e[o] = [live |-> TRUE, agent |-> d[g].agent]
      /\ \A t \in Tokens \ {o, g} : e[t] = d[t]
  BY <1>1 DEF Files, Rotated, Owner, Records
<1>3. e \in Files
  <2>1. e \in [Tokens -> Records \union {Nothing}]
    BY <1>1, <1>2 DEF Files, Rotated, Owner, Records
  <2> QED
    BY <2>1 DEF Files
<1>4. e[g] \in Records /\ e[o] \in Records
  BY <1>1, <1>2 DEF Records
<1>5. \A p \in y \ {o} : p \in Tokens /\ e[p] = IF p = g THEN e[g] ELSE d[p]
  BY <1>1, <1>2, Kinds
<1> HIDE DEF e
<1>6. e[o].live = TRUE /\ e[g].live = FALSE
  BY <1>2
<1>7. e[o] # Nothing /\ e[g] # Nothing
  BY <1>4, NothingAssumption
<1>8. Live(e, o) /\ Has(e, g) /\ ~Live(e, g)
  BY <1>6, <1>7, Zenon DEF Has, Live
<1>9. \A t \in Tokens \ {o, g} : (Has(e, t) <=> Has(d, t)) /\ (Live(e, t) <=> Live(d, t))
  BY <1>2, Zenon DEF Has, Live
<1>10. /\ Live(e, o) /\ Has(e, g) /\ ~Live(e, g)
       /\ \A t \in Tokens \ {o, g} : /\ Has(e, t) <=> Has(d, t)
                                     /\ Live(e, t) <=> Live(d, t)
  BY <1>8, <1>9
<1>11. \A t \in Tokens \ {o} : (Has(e, t) <=> Has(d, t)) /\ e[t].agent = d[t].agent
  BY <1>1, <1>2, <1>10, NothingAssumption DEF Has
<1>12. \A r \in Rotators \ {o} : Has(e, r) =>
          Has(d, r) /\ goal[r] \in Tokens \ {o, g} /\ Has(d, goal[r])
  BY <1>1, <1>11, Kinds DEF Sane, Chained, Issuers
<1>13. Chained(e, goal)
  <2> SUFFICES ASSUME NEW r \in Rotators, Has(e, r)
               PROVE  /\ Has(e, goal[r]) /\ ~Live(e, goal[r])
                      /\ e[r].agent = e[goal[r]].agent
                      /\ \A s \in Rotators \ {r} : Has(e, s) => goal[s] # goal[r]
    BY DEF Chained
  <2>1. CASE r = o
    BY <2>1, <1>2, <1>10, <1>12
  <2>2. CASE r # o
    <3>1. r \in Tokens /\ Has(d, r) /\ goal[r] \in Tokens \ {o, g}
      BY <2>2, <1>12, Kinds DEF Issuers
    <3>2. Has(e, goal[r]) /\ ~Live(e, goal[r]) /\ e[r].agent = e[goal[r]].agent
      BY <2>2, <3>1, <1>10, <1>11 DEF Sane, Chained
    <3>3. \A s \in Rotators \ {r} : Has(e, s) => goal[s] # goal[r]
      BY <2>2, <3>1, <1>12 DEF Sane, Chained
    <3> QED
      BY <3>2, <3>3
  <2> QED
    BY <2>1, <2>2
<1>14. Caused(e, goal, asked)
  <2>1. \A r \in Rotators : Has(d, r) => Has(e, r) /\ r \in Tokens \ {o}
    BY <1>1, <1>11, Kinds DEF Issuers
  <2>2. Has(e, o)
    BY <1>10 DEF Live
  <2> QED
    BY <2>1, <2>2, <1>10 DEF Sane, Caused
<1>15. \A p \in y \ {o} : ~Has(e, p)
  <2> SUFFICES ASSUME NEW p \in y \ {o}, Has(e, p) PROVE FALSE
    OBVIOUS
  <2> QED
    BY <1>5, <1>1 DEF Sane, Has, Live
<1> HIDE DEF g
<1>16. \A r \in Rotators : Has(e, r) => goal[r] \in Tokens
  BY <1>12 DEF g
<1>17. Sane(e, goal, asked, y \ {o})
  BY <1>3, <1>13, <1>14, <1>15, <1>16 DEF Sane
<1> QED
  BY <1>17 DEF e

\* revokeToken touches one record, and there only revokedAt.
LEMMA RevokedRecord ==
    ASSUME NEW d \in Files, NEW t \in Tokens, d[t] \in Records
    PROVE  /\ Revoked(d, t)[t] = [live |-> FALSE, agent |-> d[t].agent]
           /\ \A u \in Tokens \ {t} : Revoked(d, t)[u] = d[u]
  BY DEF Files, Revoked, Records

\* revokeToken makes a sane document of a sane one.
LEMMA RevokedSane ==
    ASSUME NEW o \in TokenOps, NEW t, t \in asked[o], t \in Tokens,
           NEW d, NEW y \in SUBSET Issuers, Sane(d, goal, asked, y), Has(d, t)
    PROVE  Sane(Revoked(d, t), goal, asked, y)
<1> DEFINE e == Revoked(d, t)
<1>1. d \in Files /\ d[t] \in Records
  BY HasRecord DEF Sane
<1>2. /\ e[t] = [live |-> FALSE, agent |-> d[t].agent]
      /\ \A u \in Tokens \ {t} : e[u] = d[u]
  BY <1>1, RevokedRecord
<1>3. e \in Files
  BY <1>1, <1>2 DEF Files, Revoked, Records
<1>4. e[t] \in Records
  BY <1>1, <1>2 DEF Records
<1>5. \A p \in y : ~Has(e, p)
  BY <1>1, <1>2, Kinds DEF Has, Sane
<1> HIDE DEF e
<1>6. /\ Has(e, t) /\ ~Live(e, t)
      /\ \A u \in Tokens : /\ Has(e, u) <=> Has(d, u)
                           /\ e[u].agent = d[u].agent
                           /\ Live(e, u) => Live(d, u)
                           /\ u # t => (Live(e, u) <=> Live(d, u))
  <2>3. e[t].live = FALSE /\ e[t].agent = d[t].agent
    BY <1>2
  <2>4. e[t] # Nothing
    BY <1>4, NothingAssumption
  <2>1. Has(e, t) /\ ~Live(e, t) /\ Has(d, t) /\ e[t].agent = d[t].agent
    BY <2>3, <2>4, <1>1, Zenon DEF Has, Live
  <2>2. \A u \in Tokens \ {t} :
           /\ e[u].agent = d[u].agent
           /\ Has(e, u) <=> Has(d, u)
           /\ Live(e, u) <=> Live(d, u)
    BY <1>2, Zenon DEF Has, Live
  <2> QED
    BY <2>1, <2>2
<1>7. \A r \in Rotators : r \in Tokens /\ (Has(d, r) => goal[r] \in Tokens)
  BY Kinds DEF Sane, Issuers
<1>8. Chained(e, goal)
  BY <1>6, <1>7 DEF Sane, Chained
<1>9. Caused(e, goal, asked)
  BY <1>6, <1>7 DEF Sane, Caused
<1>10. Sane(e, goal, asked, y)
  BY <1>3, <1>6, <1>7, <1>8, <1>9, <1>5 DEF Sane
<1> QED
  BY <1>10 DEF e

\* Whatever a request writes is sane, and its token is then in a document.
LEMMA ChangedSane ==
    ASSUME TokenInv, NEW o \in TokenOps, at[o] = "write"
    PROVE  Sane(Changed(o), goal, asked, Young \ {o})
<1>1. Sane(copy[o], goal, asked, Young) /\ Standing(o) /\ copy[o] # Nothing
  BY DEF TokenInv, Standing
<1>2. Young \in SUBSET Issuers
  BY DEF Young
<1>3. CASE o \in Creators
  <2>1. o \in Young
    BY <1>3 DEF Young, Issuers
  <2> QED
    BY <1>1, <1>2, <1>3, <2>1, CreatedSane DEF Changed
<1>4. CASE o \in Rotators
  <2>1. o \in Young /\ o \notin Creators /\ goal[o] \in Tokens /\ Live(copy[o], goal[o])
    BY <1>1, <1>4, Kinds DEF Young, Issuers, Standing
  <2> QED
    BY <1>1, <1>2, <1>4, <2>1, RotatedSane DEF Changed
<1>5. CASE o \in Killers
  <2>1. o \notin Issuers /\ o \notin Creators /\ o \notin Rotators /\ Young \ {o} = Young
    BY <1>2, <1>5, Kinds DEF Issuers
  <2>2. goal[o] \in asked[o] /\ goal[o] \in Tokens /\ Has(copy[o], goal[o])
    BY <1>1, <1>5 DEF TokenInv, TSTypeOK, Standing
  <2> QED
    BY <1>1, <1>2, <2>1, <2>2, RevokedSane DEF Changed
<1> QED
  BY <1>1, <1>3, <1>4, <1>5, Kinds DEF Standing, Issuers

-----------------------------------------------------------------------------
(***************************************************************************)
(* Steps                                                                   *)
(***************************************************************************)

\* No step adds an issuer to the young ones, turns a request that has written
\* to another token, or takes back what a request was asked to revoke.
LEMMA NothingTurns ==
    ASSUME TokenInv, NEW o \in TokenOps, Step(o)
    PROVE  /\ Young' \subseteq Young
           /\ \A r \in Rotators \ Young : goal'[r] = goal[r]
           /\ \A p \in TokenOps : asked[p] \subseteq asked'[p]
<1> USE Kinds DEF Young, MovesTo
<1>1. Standing(o) /\ TSTypeOK
  BY DEF TokenInv
<1>2. \A p \in TokenOps \ {o} : at'[p] = at[p] /\ asked'[p] = asked[p]
  BY <1>1 DEF TSTypeOK, Step, Authenticate, Trust, Stamp, ListTokens, ReadToIssue, ReadToRevoke,
              Write, FailWrite, Receives, work
<1>3. \A p \in TokenOps \ {o} : goal'[p] = goal[p]
  BY <1>1 DEF TSTypeOK, Step, Authenticate, Trust, Stamp, ListTokens, ReadToIssue, ReadToRevoke,
              Write, FailWrite, Receives, work
<1>4. at[o] \notin {"done", "refused"}
  BY DEF Step, Authenticate, Trust, Stamp, ListTokens, ReadToIssue, ReadToRevoke, Write, FailWrite
<1>5. o \in Issuers => o \in Young
  BY <1>4
<1>6. asked[o] \subseteq asked'[o]
  BY <1>1 DEF TSTypeOK, Standing, Step, Authenticate, Trust, Stamp, ListTokens, ReadToIssue,
              ReadToRevoke, Write, FailWrite, Receives, work
<1>7. Rotators \subseteq Issuers
  BY DEF Issuers
<1> QED
  BY <1>2, <1>3, <1>5, <1>6, <1>7

\* So a document that was sane is sane after a step.
LEMMA DocumentStays ==
    ASSUME TokenInv, NEW o \in TokenOps, Step(o), NEW d, Sane(d, goal, asked, Young)
    PROVE  Sane(d, goal', asked', Young')
  BY NothingTurns, SaneStays

\* The file after a step is one that was read or written whole.
LEMMA FileStays ==
    ASSUME TokenInv, NEW o \in TokenOps, Step(o)
    PROVE  Sane(file, goal, asked, Young)'
<1>1. Sane(file, goal, asked, Young) /\ TSTypeOK
  BY DEF TokenInv
<1>2. CASE file' = file
  BY <1>1, <1>2, DocumentStays
<1>3. CASE at[o] = "stamp" /\ file' = copy[o]
  <2>1. Sane(copy[o], goal, asked, Young)
    BY <1>3 DEF TokenInv, Standing
  <2> QED
    BY <1>3, <2>1, DocumentStays
<1>4. CASE at[o] = "write" /\ file' = Changed(o)
  <2>1. Sane(Changed(o), goal, asked, Young \ {o})
    BY <1>4, ChangedSane
  <2>2. goal' = goal /\ asked' = asked
    BY <1>4 DEF Step, Authenticate, Trust, Stamp, ListTokens, ReadToIssue, ReadToRevoke,
                Write, FailWrite, work
  <2>3. Young' \subseteq Young \ {o}
    <3>1. o \in Issuers => at'[o] \in {"done", "refused"}
      <4>1. CASE Write(o)
        BY <4>1, <1>1, Kinds DEF TokenInv, TSTypeOK, Standing, Write, MovesTo
      <4>2. CASE FailWrite(o)
        BY <4>2, <1>1 DEF TSTypeOK, FailWrite, MovesTo
      <4> QED
        BY <4>1, <4>2, <1>4 DEF Step, Authenticate, Trust, Stamp, ListTokens, ReadToIssue,
                                ReadToRevoke
    <3> QED
      BY <3>1, NothingTurns DEF Young
  <2>4. \A r \in Rotators \ (Young \ {o}) : goal'[r] = goal[r]
    BY <2>2
  <2> QED
    BY <1>4, <2>1, <2>2, <2>3, <2>4, SaneStays
<1> QED
  BY <1>2, <1>3, <1>4
     DEF Step, Authenticate, Trust, Stamp, ListTokens, ReadToIssue, ReadToRevoke, Write, FailWrite

\* What a request has in memory it had before the step, or has just read.
LEMMA CopiesStay ==
    ASSUME TokenInv, NEW o \in TokenOps, Step(o)
    PROVE  (\A p \in TokenOps : copy[p] # Nothing => Sane(copy[p], goal, asked, Young))'
<1>1. \A p \in TokenOps : copy'[p] \in {copy[p], file, Nothing}
  BY DEF TokenInv, TSTypeOK, Step, Authenticate, Trust, Stamp, ListTokens, ReadToIssue,
         ReadToRevoke, Write, FailWrite, Reads, Forgets
<1>2. \A p \in TokenOps : copy'[p] # Nothing => Sane(copy'[p], goal', asked', Young')
  <2> SUFFICES ASSUME NEW p \in TokenOps, copy'[p] # Nothing
               PROVE  Sane(copy'[p], goal', asked', Young')
    OBVIOUS
  <2>1. Sane(copy'[p], goal, asked, Young)
    BY <1>1 DEF TokenInv
  <2> QED
    BY <2>1, DocumentStays
<1> QED
  BY <1>2

LEMMA TypeStays ==
    ASSUME TokenInv, NEW o \in TokenOps, Step(o)
    PROVE  TSTypeOK'
<1>1. TSTypeOK /\ Standing(o)
  BY DEF TokenInv
<1>2. file' \in Files
  BY FileStays DEF Sane
<1>3. copy' \in [TokenOps -> Files \union {Nothing}]
  BY <1>1 DEF TSTypeOK, Step, Authenticate, Trust, Stamp, ListTokens, ReadToIssue,
              ReadToRevoke, Write, FailWrite, Reads, Forgets
<1>4. at' \in [TokenOps -> Phases]
  BY <1>1 DEF TSTypeOK, Step, Authenticate, Trust, Stamp, ListTokens, ReadToIssue,
              ReadToRevoke, Write, FailWrite, MovesTo, Admitted, Phases
<1>5. /\ goal' \in [TokenOps -> Tokens \union {Nothing}]
      /\ asked' \in [TokenOps -> SUBSET Tokens]
      /\ left' \in [TokenOps -> SUBSET Tokens]
      /\ \A p \in TokenOps : left'[p] \subseteq asked'[p]
  <2>1. CASE Authenticate(o) \/ Trust(o)
    <3> PICK t \in (IF o \in Rotators \union Revokers
                    THEN {u \in Tokens : Has(file, u)} ELSE {Nothing}) :
             LET revokes == IF o \in Revokers THEN {t} ELSE {} IN
               /\ goal' = [goal EXCEPT ![o] = t]
               /\ asked' = [asked EXCEPT ![o] = revokes]
               /\ left' = [left EXCEPT ![o] = revokes]
      BY <2>1 DEF Authenticate, Trust, Receives
    <3>1. t \in Tokens \union {Nothing} /\ (o \in Revokers => t \in Tokens)
      OBVIOUS
    <3> QED
      BY <3>1, <1>1 DEF TSTypeOK
  <2>2. CASE Stamp(o) \/ ReadToIssue(o) \/ FailWrite(o)
    BY <2>2, <1>1 DEF TSTypeOK, Stamp, ReadToIssue, FailWrite, work
  <2>3. CASE ListTokens(o)
    BY <2>3, <1>1 DEF TSTypeOK, ListTokens
  <2>4. CASE ReadToRevoke(o)
    BY <2>4, <1>1 DEF TSTypeOK, ReadToRevoke
  <2>5. CASE Write(o)
    BY <2>5, <1>1 DEF TSTypeOK, Write
  <2> QED
    BY <2>1, <2>2, <2>3, <2>4, <2>5 DEF Step
<1> QED
  BY <1>2, <1>3, <1>4, <1>5 DEF TSTypeOK

LEMMA StandingStays ==
    ASSUME TokenInv, NEW o \in TokenOps, Step(o)
    PROVE  (\A p \in TokenOps : Standing(p))'
<1>1. TSTypeOK /\ \A p \in TokenOps : Standing(p)
  BY DEF TokenInv
<1>2. \A p \in TokenOps \ {o} : /\ at'[p] = at[p] /\ goal'[p] = goal[p] /\ copy'[p] = copy[p]
                          /\ asked'[p] = asked[p] /\ left'[p] = left[p]
  <2>1. \A p \in TokenOps \ {o} : at'[p] = at[p]
    BY <1>1 DEF TSTypeOK, Step, Authenticate, Trust, Stamp, ListTokens, ReadToIssue,
                ReadToRevoke, Write, FailWrite, MovesTo
  <2>2. \A p \in TokenOps \ {o} : copy'[p] = copy[p]
    BY <1>1 DEF TSTypeOK, Step, Authenticate, Trust, Stamp, ListTokens, ReadToIssue,
                ReadToRevoke, Write, FailWrite, Reads, Forgets
  <2>3. \A p \in TokenOps \ {o} : goal'[p] = goal[p] /\ asked'[p] = asked[p] /\ left'[p] = left[p]
    BY <1>1 DEF TSTypeOK, Step, Authenticate, Trust, Stamp, ListTokens, ReadToIssue,
                ReadToRevoke, Write, FailWrite, Receives, work
  <2> QED
    BY <2>1, <2>2, <2>3
<1>3. \A p \in TokenOps \ {o} : Standing(p)'
  BY <1>1, <1>2 DEF Standing
<1>4. Standing(o)'
  <2> USE <1>1, Kinds, NothingAssumption DEF MovesTo
  <2>1. CASE Authenticate(o)
    BY <2>1 DEF TSTypeOK, Standing, Authenticate, Receives, Reads, Killers
  <2>2. CASE Trust(o)
    BY <2>2 DEF TSTypeOK, Standing, Trust, Receives, Admitted, Killers
  <2>3. CASE Stamp(o)
    BY <2>3 DEF TSTypeOK, Standing, Stamp, Forgets, Admitted, work
  <2>4. CASE ListTokens(o)
    BY <2>4 DEF TSTypeOK, Standing, ListTokens, Killers
  <2>5. CASE ReadToIssue(o)
    BY <2>5 DEF TSTypeOK, Standing, ReadToIssue, Rotatable, Reads, Issuers, work
  <2>6. CASE ReadToRevoke(o)
    BY <2>6 DEF TSTypeOK, Standing, ReadToRevoke, Reads, Killers, Issuers
  <2>7. CASE Write(o)
    BY <2>7 DEF TSTypeOK, Standing, Write, Forgets
  <2>8. CASE FailWrite(o)
    BY <2>8 DEF TSTypeOK, Standing, FailWrite, Forgets, work
  <2> QED
    BY <2>1, <2>2, <2>3, <2>4, <2>5, <2>6, <2>7, <2>8 DEF Step
<1> QED
  BY <1>3, <1>4

LEMMA StepToken == TokenInv /\ [TSNext]_tsVars => TokenInv'
<1>1. ASSUME TokenInv, NEW o \in TokenOps, Step(o) PROVE TokenInv'
  BY <1>1, TypeStays, StandingStays, FileStays, CopiesStay DEF TokenInv
<1>2. ASSUME TokenInv, UNCHANGED tsVars PROVE TokenInv'
  BY <1>2 DEF TokenInv, TSTypeOK, Standing, Young, tsVars, work
<1> QED
  BY <1>1, <1>2 DEF TSNext

LEMMA Invariance == TSSpec => []TokenInv
  BY InitToken, StepToken, PTL DEF TSSpec

-----------------------------------------------------------------------------
\* The token file, and what requests hold of it, stay well-formed: no write
\* of storage.ts puts anything but token records there.
THEOREM TokensTypeCorrect == TSSpec => []TSTypeOK
<1>1. TokenInv => TSTypeOK
  BY DEF TokenInv
<1> QED
  BY <1>1, Invariance, PTL

\* rotateToken: however requests overwrite each other, a replaced token and its
\* replacement, or two replacements of it, never work side by side.
THEOREM Chains == TSSpec => []RotationChains
<1>1. TokenInv => RotationChains
  BY DEF TokenInv, Sane, Chained, RotationChains
<1> QED
  BY <1>1, Invariance, PTL

\* Nobody loses a token but to its replacement or to a revocation.
THEOREM ForCause == TSSpec => []RevokedForCause
<1>1. TokenInv => RevokedForCause
  BY DEF TokenInv, Sane, Caused, RevokedForCause
<1> QED
  BY <1>1, Invariance, PTL

\* No change of a document revives a token that is revoked in it.
LEMMA ChangedSettles ==
    ASSUME TokenInv, NEW o \in TokenOps, at[o] = "write",
           NEW t \in Tokens, Has(copy[o], t), ~Live(copy[o], t)
    PROVE  Has(Changed(o), t) /\ ~Live(Changed(o), t)
<1> DEFINE d == copy[o]
           e == Changed(o)
<1>1. Standing(o) /\ d \in Files /\ Sane(d, goal, asked, Young)
  BY DEF TokenInv, Standing, Sane
<1>2. d[t] \in Records /\ d[t].live = FALSE
  BY <1>1, HasRecord DEF Live, Records
<1>3. e[t] \in Records /\ e[t].live = FALSE
  <2>1. CASE o \in Creators
    <3>1. t # o
      BY <1>1, <2>1 DEF Sane, Young, Issuers
    <3> QED
      BY <1>1, <1>2, <2>1, <3>1 DEF Changed, Created, Files
  <2>2. CASE o \in Rotators
    <3>1. t # o /\ o \notin Creators /\ t # goal[o]
      BY <1>1, <2>2, Kinds DEF Sane, Young, Issuers, Standing
    <3> QED
      BY <1>1, <1>2, <2>2, <3>1 DEF Changed, Rotated, Files
  <2>3. CASE o \notin Issuers
    <3>1. e = Revoked(d, goal[o])
      BY <2>3 DEF Changed, Issuers
    <3>2. goal[o] \in Tokens /\ d[goal[o]] \in Records
      BY <1>1, <2>3, Kinds, HasRecord DEF Standing, TokenInv, TSTypeOK
    <3>3. CASE t = goal[o]
      <4>1. e[t] = [live |-> FALSE, agent |-> d[t].agent]
        BY <1>1, <3>1, <3>2, <3>3, RevokedRecord
      <4>2. d[t].agent \in BOOLEAN
        BY <1>2 DEF Records
      <4> QED
        BY <4>1, <4>2 DEF Records
    <3>4. CASE t # goal[o]
      <4>1. \A u \in Tokens \ {goal[o]} : Revoked(d, goal[o])[u] = d[u]
        <5> HIDE DEF d
        <5> QED
          BY <1>1, <3>2, RevokedRecord
      <4>2. e[t] = d[t]
        BY <3>1, <3>4, <4>1
      <4> HIDE DEF e
      <4> QED
        BY <4>2, <1>2
    <3> QED
      BY <3>3, <3>4
  <2> QED
    BY <2>1, <2>2, <2>3 DEF Issuers
<1> HIDE DEF e
<1>4. e[t] # Nothing
  BY <1>3, NothingAssumption
<1>5. Has(e, t) /\ ~Live(e, t)
  BY <1>3, <1>4, Zenon DEF Has, Live
<1> QED
  BY <1>5 DEF e

\* revokeToken: a revocation is undone only by a request that had read the
\* token before.
THEOREM Settles == TSSpec => RevocationSettles
<1>1. ASSUME TokenInv, NEW o \in TokenOps, Step(o), NEW t \in Tokens,
             Has(file, t), ~Live(file, t),
             \A p \in TokenOps : copy[p] # Nothing => Has(copy[p], t) /\ ~Live(copy[p], t)
      PROVE  Has(file', t) /\ ~Live(file', t)
  <2>1. CASE file' = file
    BY <1>1, <2>1
  <2>2. CASE at[o] \in {"stamp", "write"}
    <3>1. Has(copy[o], t) /\ ~Live(copy[o], t)
      BY <1>1, <2>2 DEF TokenInv, Standing
    <3>2. at[o] = "write" => Has(Changed(o), t) /\ ~Live(Changed(o), t)
      BY <1>1, <3>1, ChangedSettles
    <3>3. file' \in {file, copy[o]} \/ (at[o] = "write" /\ file' = Changed(o))
      BY <1>1, <2>2 DEF Step, Authenticate, Trust, Stamp, ListTokens, ReadToIssue,
                        ReadToRevoke, Write, FailWrite
    <3> QED
      BY <1>1, <3>1, <3>2, <3>3
  <2> QED
    BY <1>1, <2>1, <2>2 DEF Step, Authenticate, Trust, Stamp, ListTokens, ReadToIssue,
                            ReadToRevoke, Write, FailWrite
<1>2. TokenInv /\ [TSNext]_tsVars =>
        [\A t \in Tokens :
           /\ Has(file, t) /\ ~Live(file, t)
           /\ \A o \in TokenOps : copy[o] # Nothing => Has(copy[o], t) /\ ~Live(copy[o], t)
           => Has(file', t) /\ ~Live(file', t)]_tsVars
  BY <1>1 DEF TSNext
<1> QED
  BY <1>2, Invariance, PTL DEF TSSpec, RevocationSettles

=============================================================================
