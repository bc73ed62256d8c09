------------------------------ MODULE KeyRing ------------------------------
(***************************************************************************)
(* The API keys of one account: minting, rotating and revealing a key and  *)
(* deleting the account, by bearer token, by session and over MCP.  Every  *)
(* statement and every call to the provider is a step, so requests         *)
(* interleave, fail half-way or die.  What chargeAction and refundAction   *)
(* do inside is ChargeAction; here a charge is granted or refused.         *)
(***************************************************************************)
EXTENDS FiniteSets

CONSTANTS Calls,    \* the requests; a new key has the name of the request that mints it
          First,    \* the key the account starts with, its bytes still stored
          Asks,     \* bound: what each request may ask, [op, via, old]
          Mortal,   \* bound: the requests that may die or meet a failing statement
          None

Keys == Calls \cup {First}

Ops  == {"mint", "rotate", "reveal", "delete"}
Vias == {"bearer", "mcp", "session"}

ASSUME KeysAssumption == First \notin Calls /\ None \notin Keys \cup Ops
ASSUME AsksAssumption ==
    /\ Mortal \subseteq Calls
    /\ Asks \in [Calls -> SUBSET [op : Ops, via : Vias, old : Keys \cup {None}]]
    /\ \A c \in Calls : \A a \in Asks[c] :
         /\ a.old \in Keys <=> a.op \in {"rotate", "reveal"}
         /\ a.old # c
         /\ a.via = "session" => a.op \in {"mint", "rotate"}
         /\ a.via = "mcp" => a.op # "rotate"

VARIABLES account,  \* is the row of the account there?
          linked,   \* does signup_jobs.account_id still point at it?
          row,      \* api_keys
          bytes,    \* the keys whose key_enc is stored
          handle,   \* the keys whose provider_key_id is stored
          vendor,   \* the keys as the provider knows them
          torn,     \* the provider has torn the account down
          call      \* the requests; lapse, broke and late are history: the provider
                    \* was not told, where it failed, and a reveal that came after
                    \* another one of the key was answered

vars   == <<account, linked, row, bytes, handle, vendor, torn, call>>
tables == <<account, linked, row, bytes, handle>>
remote == <<vendor, torn>>

InTry == {"own", "read", "create", "insert", "revoke", "forget", "teardown", "erase", "unlink",
          "remove", "decrypt"}
Steps == InTry \cup {"gate", "scrub", "audit", "refund"}
Ends  == {"done", "failed", "refused", "missing", "gone", "died"}

Listed  == {k \in Keys : row[k] = "live"}
Stored  == {k \in Keys : row[k] \in {"live", "revoked"}}
Working == {k \in Keys : vendor[k] = "live"}

TypeOK ==
    /\ account \in BOOLEAN /\ linked \in BOOLEAN /\ torn \in BOOLEAN
    /\ row \in [Keys -> {"none", "live", "revoked", "deleted"}]
    /\ bytes \subseteq Keys /\ handle \subseteq Keys
    /\ vendor \in [Keys -> {"none", "live", "dead"}]
    /\ call \in [Calls -> [pc : {"idle"} \cup Steps \cup Ends, op : Ops \cup {None},
                           via : Vias \cup {None}, old : Keys \cup {None},
                           receipt : {"none", "held", "returned"}, lapse : BOOLEAN,
                           broke : InTry \cup {None}, late : BOOLEAN]]

Init ==
    /\ account = TRUE /\ linked = TRUE /\ torn = FALSE
    /\ row = [k \in Keys |-> IF k = First THEN "live" ELSE "none"]
    /\ vendor = [k \in Keys |-> IF k = First THEN "live" ELSE "none"]
    /\ bytes = {First} /\ handle \in SUBSET {First}
    /\ call = [c \in Calls |-> [pc |-> "idle", op |-> None, via |-> None, old |-> None,
                                receipt |-> "none", lapse |-> FALSE,
                                broke |-> None, late |-> FALSE]]

Goes(c, pc) == call' = [call EXCEPT ![c].pc = pc]

\* The catch of the request: what was charged is given back.
Failing(c) == IF call[c].receipt = "held" THEN "refund" ELSE "failed"
Fail(c) == call' = [call EXCEPT ![c].pc = Failing(c), ![c].broke = call[c].pc]

\* A reveal of key k was answered.
Revealed(k) ==
    \E d \in Calls : call[d].op = "reveal" /\ call[d].old = k /\ call[d].pc = "done"

-----------------------------------------------------------------------------
(* The request is admitted and charged.                                    *)

\* The caller owns the account; a session is not charged.
Start(c) ==
    /\ call[c].pc = "idle"
    /\ \E a \in Asks[c] :
         LET to(pc) == [call EXCEPT ![c].pc = pc, ![c].op = a.op, ![c].via = a.via,
                                    ![c].old = a.old,
                                    ![c].late = a.op = "reveal" /\ Revealed(a.old)]
         IN  call' = IF ~account THEN to("missing")
                     ELSE IF a.op = "reveal" \/ (a.op = "rotate" /\ a.via = "session") THEN to("read")
                     ELSE IF a.via = "session" THEN to("create")
                     ELSE to("gate")
    /\ UNCHANGED <<tables, remote>>

Charged(op) ==
    CASE op = "mint"   -> "create"
      [] op = "rotate" -> "own"
      [] op = "reveal" -> "decrypt"
      [] op = "delete" -> "teardown"

\* checkKeyRevealLimit and chargeAction: refused, or charged.
Gate(c) ==
    /\ call[c].pc = "gate"
    /\ \/ Goes(c, "refused")
       \/ call' = [call EXCEPT ![c].pc = Charged(call[c].op), ![c].receipt = "held"]
    /\ UNCHANGED <<tables, remote>>

\* refundAction
Refund(c) ==
    /\ call[c].pc = "refund"
    /\ call' = [call EXCEPT ![c].pc = "failed", ![c].receipt = "returned"]
    /\ UNCHANGED <<tables, remote>>

\* requireOwnedAccount, behind the charge
Own(c) ==
    /\ call[c].pc = "own"
    /\ IF account THEN Goes(c, "read") ELSE Fail(c)
    /\ UNCHANGED <<tables, remote>>

\* Mutant: the old key is revoked before the new one is made.
RevokeAtRead(c) ==
    /\ call[c].pc = "read"
    /\ IF call[c].old \notin Listed THEN Fail(c) /\ UNCHANGED row
       ELSE IF call[c].op = "rotate"
       THEN Goes(c, "create") /\ row' = [row EXCEPT ![call[c].old] = "revoked"]
       ELSE Goes(c, IF call[c].old \in bytes THEN "gate" ELSE "gone") /\ UNCHANGED row
    /\ UNCHANGED <<account, linked, bytes, handle, remote>>

\* The key, if it is not revoked; a reveal wants its bytes too.
ReadKey(c) ==
    /\ call[c].pc = "read"
    /\ IF call[c].old \notin Listed THEN Fail(c)
       ELSE IF call[c].op = "rotate" THEN Goes(c, "create")
       ELSE Goes(c, IF call[c].old \in bytes THEN "gate" ELSE "gone")
    /\ UNCHANGED <<tables, remote>>

-----------------------------------------------------------------------------
(* Mint and rotate.                                                        *)

\* After a teardown a provider may still answer, with a key that is dead.
Made(c) == [vendor EXCEPT ![c] = IF torn THEN "dead" ELSE "live"]

\* provider.createApiKey: a call that fails may have made the key.
CreateApiKey(c) ==
    /\ call[c].pc = "create"
    /\ \/ vendor' = Made(c) /\ Goes(c, "insert")
       \/ vendor' \in {vendor, Made(c)} /\ Fail(c)
    /\ UNCHANGED <<tables, torn>>

\* Mutant: api_keys.account_id does not reference accounts.
InsertUnchecked(c) ==
    /\ call[c].pc = "insert"
    /\ row' = [row EXCEPT ![c] = "live"]
    /\ handle' \in {handle, handle \cup {c}}
    /\ Goes(c, IF call[c].op = "mint" THEN "audit" ELSE "revoke")
    /\ UNCHANGED <<account, linked, bytes, remote>>

\* The row of the new key; its account must still be there.
InsertKey(c) ==
    /\ call[c].pc = "insert"
    /\ IF account
       THEN /\ row' = [row EXCEPT ![c] = "live"]
            /\ handle' \in {handle, handle \cup {c}}
            /\ Goes(c, IF call[c].op = "mint" THEN "audit" ELSE "revoke")
       ELSE /\ Fail(c)
            /\ UNCHANGED <<row, handle>>
    /\ UNCHANGED <<account, linked, bytes, remote>>

\* Mutant: the provider is not told.
RevokeQuietly(c) ==
    /\ call[c].pc = "revoke"
    /\ row' = [row EXCEPT ![call[c].old] = IF @ = "live" THEN "revoked" ELSE @]
    /\ Goes(c, "audit")
    /\ UNCHANGED <<account, linked, bytes, handle, remote>>

\* Whatever became of the old key since it was read.
RevokeOld(c) ==
    /\ call[c].pc = "revoke"
    /\ row' = [row EXCEPT ![call[c].old] = IF @ = "live" THEN "revoked" ELSE @]
    /\ Goes(c, IF call[c].old \in handle THEN "forget" ELSE "audit")
    /\ UNCHANGED <<account, linked, bytes, handle, remote>>

\* provider.revokeApiKey; a failure is logged.
RevokeApiKey(c) ==
    /\ call[c].pc = "forget"
    /\ \/ /\ vendor' = [vendor EXCEPT ![call[c].old] = "dead"]
          /\ Goes(c, "audit")
       \/ /\ call' = [call EXCEPT ![c].pc = "audit", ![c].lapse = TRUE]
          /\ UNCHANGED vendor
    /\ UNCHANGED <<tables, torn>>

-----------------------------------------------------------------------------
(* Reveal.                                                                 *)

Decrypt(c) ==
    /\ call[c].pc = "decrypt"
    /\ Goes(c, "scrub") \/ Fail(c)
    /\ UNCHANGED <<tables, remote>>

Scrub(c) ==
    /\ call[c].pc = "scrub"
    /\ bytes' = bytes \ {call[c].old}
    /\ Goes(c, "audit")
    /\ UNCHANGED <<account, linked, row, handle, remote>>

-----------------------------------------------------------------------------
(* Delete.                                                                 *)

\* provider.teardown; a failure is logged.  A provider whose teardown spares
\* the keys, or that has none, counts as a lapse.
Teardown(c) ==
    /\ call[c].pc = "teardown"
    /\ \/ /\ torn' = TRUE
          /\ vendor' = [k \in Keys |-> IF vendor[k] = "live" THEN "dead" ELSE vendor[k]]
          /\ Goes(c, "erase")
       \/ /\ call' = [call EXCEPT ![c].pc = "erase", ![c].lapse = TRUE]
          /\ UNCHANGED remote
    /\ UNCHANGED tables

EraseKeys(c) ==
    /\ call[c].pc = "erase"
    /\ row' = [k \in Keys |-> IF k \in Stored THEN "deleted" ELSE row[k]]
    /\ bytes' = {}
    /\ Goes(c, "unlink")
    /\ UNCHANGED <<account, linked, handle, remote>>

UnlinkJobs(c) ==
    /\ call[c].pc = "unlink"
    /\ linked' = FALSE
    /\ Goes(c, "remove")
    /\ UNCHANGED <<account, row, bytes, handle, remote>>

\* The row of the account, unless a key or a job references it again.
RemoveAccount(c) ==
    /\ call[c].pc = "remove"
    /\ IF Stored = {} /\ ~linked
       THEN account' = FALSE /\ Goes(c, "audit")
       ELSE Fail(c) /\ UNCHANGED account
    /\ UNCHANGED <<linked, row, bytes, handle, remote>>

-----------------------------------------------------------------------------
\* Mutant: the audit row is written inside the try.
AnswerInTry(c) ==
    /\ call[c].pc = "audit"
    /\ \/ Goes(c, "done")
       \/ call[c].via = "mcp" /\ c \in Mortal /\ Fail(c)
    /\ UNCHANGED <<tables, remote>>

\* The audit row and the answer; over MCP a failing audit row is an error.
Answer(c) ==
    /\ call[c].pc = "audit"
    /\ \/ Goes(c, "done")
       \/ call[c].via = "mcp" /\ c \in Mortal /\ Goes(c, "died")
    /\ UNCHANGED <<tables, remote>>

\* A statement throws, and is caught.
Throw(c) ==
    /\ c \in Mortal /\ call[c].pc \in InTry \ {"create", "forget", "teardown", "decrypt"}
    /\ Fail(c)
    /\ UNCHANGED <<tables, remote>>

\* A statement throws where nobody catches it, or the process goes away.
Die(c) ==
    /\ c \in Mortal /\ call[c].pc \in Steps
    /\ Goes(c, "died")
    /\ UNCHANGED <<tables, remote>>

Proceed(c) ==
    \/ Gate(c) \/ Refund(c) \/ Own(c) \/ ReadKey(c)
    \/ CreateApiKey(c) \/ InsertKey(c) \/ RevokeOld(c) \/ RevokeApiKey(c)
    \/ Decrypt(c) \/ Scrub(c)
    \/ Teardown(c) \/ EraseKeys(c) \/ UnlinkJobs(c) \/ RemoveAccount(c)
    \/ Answer(c)

Next == \E c \in Calls : Start(c) \/ Proceed(c) \/ Throw(c) \/ Die(c)

Spec == Init /\ [][Next]_vars

-----------------------------------------------------------------------------
(***************************************************************************)
(* Properties                                                              *)
(***************************************************************************)

Deletes(c) == call[c].op = "delete"
Given(c)   == call[c].pc \in {"idle", "gate", "refused", "missing"}

\* Rotation: however many requests rotate keys of the account and wherever
\* they stop, the account lists a live key until a deletion erases them.
KeyOutlivesRotation ==
    \/ Listed # {}
    \/ \E c \in Calls : Deletes(c) /\ ~Given(c) /\ call[c].pc \notin {"teardown", "erase"}

\* Deletion: once a deletion was answered there is no account, no key and no
\* job that points at it, whatever requests were still under way.
DeletionIsFinal ==
    \A c \in Calls : Deletes(c) /\ call[c].pc = "done" => ~account /\ ~linked /\ Stored = {}

\* The list of keys and the provider agree.  A listed key works, unless a
\* deletion tore the account down and then failed, stopped or is not through
\* yet.  A working key is listed, unless its request was told that it failed,
\* it has no handle, or its revocation or teardown failed or never came.
ListMatchesProvider ==
    /\ \/ Listed \subseteq Working
       \/ \E c \in Calls : Deletes(c) /\ call[c].pc \in {"erase", "unlink", "remove", "refund",
                                                         "failed", "died"}
    /\ \A k \in Working \ Listed :
         \/ k \in Calls /\ call[k].pc \in {"insert", "refund", "failed", "died"}
         \/ k \notin handle
         \/ \E c \in Calls : /\ call[c].old = k \/ Deletes(c)
                             /\ call[c].lapse \/ call[c].pc \in {"forget", "died"}

\* The deletions that may have got beyond the erasing of the keys, the unlinking
\* of the jobs, the removal of the account.
Beyond(c, later) ==
    /\ Deletes(c)
    /\ \/ call[c].pc \in later \cup {"audit", "done", "died"}
       \/ call[c].pc \in {"refund", "failed"} /\ call[c].broke \in later
Erases(c)  == Beyond(c, {"unlink", "remove"})
Unlinks(c) == Beyond(c, {"remove"})
Removes(c) == Beyond(c, {})

\* What a refunded request may have left behind, for all that it reports a
\* failure: a mint, nothing.  A rotation, nothing, or a new key that is listed
\* because the statement that revokes the old one failed; the old key is revoked
\* only by another rotation.  A reveal, nothing: the bytes are gone only by another
\* request.  A deletion, erased keys and unlinked jobs if a later statement failed,
\* but not a deleted account.
MintUndone(c) == call[c].op = "mint" => row[c] = "none"

RotationUndone(c) == call[c].op = "rotate" =>
    /\ row[c] # "none" => call[c].broke = "revoke"
    /\ row[call[c].old] = "revoked" =>
         \E d \in Calls \ {c} :
            call[d].op = "rotate" /\ call[d].old = call[c].old /\ row[d] # "none"

RevealUndone(c) == call[c].op = "reveal" /\ call[c].old \notin bytes =>
    \E d \in Calls \ {c} :
        \/ Erases(d)
        \/ /\ call[d].op = "reveal" /\ call[d].old = call[c].old
           /\ call[d].pc \in {"audit", "done", "died"}

DeletionUndone(c) == Deletes(c) =>
    /\ account \/ \E d \in Calls \ {c} : Removes(d)
    /\ linked \/ call[c].broke = "remove" \/ \E d \in Calls \ {c} : Unlinks(d)
    /\ \/ \A k \in Keys : row[k] # "deleted"
       \/ call[c].broke \in {"unlink", "remove"}
       \/ \E d \in Calls \ {c} : Erases(d)

\* Charges: a refunded request has not done what it was charged for, but for what
\* is named above, and a reveal that comes after another one of the key was answered
\* is neither charged nor answered.  (Two that run side by side may both answer,
\* although the code says "at most once".)
ChargedForEffect ==
    \A c \in Calls :
        /\ call[c].receipt = "returned" =>
             MintUndone(c) /\ RotationUndone(c) /\ RevealUndone(c) /\ DeletionUndone(c)
        /\ call[c].late => call[c].receipt = "none" /\ call[c].pc # "done"

=============================================================================
