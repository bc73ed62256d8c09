----------------------------- MODULE TokenStore -----------------------------
(***************************************************************************)
(* The access tokens of one workspace of the JSONL engine (cumulus-db,     *)
(* storage.ts): the token file that every request reads to authenticate,   *)
(* and writes back to stamp lastUsedAt, and that create, rotate and revoke *)
(* read and write once more.  Nothing locks the file.                      *)
(*                                                                         *)
(* A token has the name of the request that issued it.  Scopes are left    *)
(* out: any live token may carry any request.  A request whose token is    *)
(* refused has written nothing and is no step.                             *)
(***************************************************************************)

CONSTANTS
    Founders,   \* the tokens the workspace was created with
    Agents,     \* those of them that belong to its agent
    Readers,    \* requests about records: they authenticate and no more
    Creators,   \* requests that issue a token (OAuth and relay included)
    Rotators,   \* requests that replace a token
    Revokers,   \* requests that revoke one token
    Sweepers,   \* requests that revoke the tokens of the agent
    Nothing

TokenOps == Readers \union Creators \union Rotators \union Revokers \union Sweepers
Tokens   == Founders \union Creators \union Rotators

ASSUME KindsAssumption ==
    /\ Readers \intersect (Creators \union Rotators \union Revokers \union Sweepers) = {}
    /\ Creators \intersect (Rotators \union Revokers \union Sweepers) = {}
    /\ Rotators \intersect (Revokers \union Sweepers) = {}
    /\ Revokers \intersect Sweepers = {}
    /\ Founders \intersect TokenOps = {}
    /\ Nothing \notin Founders \union TokenOps
ASSUME AgentsAssumption == Agents \subseteq Founders

\* A token record, and the file: the records of the tokens it has.
Records == [live : BOOLEAN, agent : BOOLEAN]
Files   == [Tokens -> Records \union {Nothing}]

ASSUME NothingAssumption == Nothing \notin Records /\ Nothing \notin Files

VARIABLES
    file,    \* tokens.json
    at,      \* where each request stands
    goal,    \* the token a request is about
    copy,    \* the tokens as a request has them in memory
    asked,   \* history: the tokens a request is to revoke
    left     \* those of them it has not come to yet

work == <<goal, asked, left>>
tsVars == <<file, at, copy, work>>

Phases  == {"idle", "stamp", "list", "ready", "write", "done", "refused"}

Has(d, t)  == d[t] # Nothing
Live(d, t) == Has(d, t) /\ d[t].live

TSInit ==
    /\ file = [t \in Tokens |-> IF t \in Founders
                                THEN [live |-> TRUE, agent |-> t \in Agents]
                                ELSE Nothing]
    /\ at = [o \in TokenOps |-> "idle"]
    /\ goal = [o \in TokenOps |-> Nothing]
    /\ copy = [o \in TokenOps |-> Nothing]
    /\ asked = [o \in TokenOps |-> {}]
    /\ left = [o \in TokenOps |-> {}]

MovesTo(o, phase) == at' = [at EXCEPT ![o] = phase]
Reads(o)          == copy' = [copy EXCEPT ![o] = file]
Forgets(o)        == copy' = [copy EXCEPT ![o] = Nothing]

-----------------------------------------------------------------------------
(***************************************************************************)
(* A request arrives and authenticates                                     *)
(***************************************************************************)

\* The token a request names: one of the file, for a rotation or revocation.
Receives(o) ==
    \E t \in (IF o \in Rotators \union Revokers
              THEN {u \in Tokens : Has(file, u)} ELSE {Nothing}) :
        LET revokes == IF o \in Revokers THEN {t} ELSE {} IN
          /\ goal' = [goal EXCEPT ![o] = t]
          /\ asked' = [asked EXCEPT ![o] = revokes]
          /\ left' = [left EXCEPT ![o] = revokes]

\* Where a request goes on when it has authenticated.
Admitted(o) == IF o \in Readers THEN "done"
               ELSE IF o \in Sweepers THEN "list" ELSE "ready"

\* authenticate: a token of the file that is not revoked.
Authenticate(o) ==
    /\ at[o] = "idle"
    /\ \E b \in Tokens : Live(file, b)
    /\ Receives(o)
    /\ Reads(o)
    /\ MovesTo(o, "stamp")
    /\ UNCHANGED file

\* The admin key of the deployment, a signed relay call and the OAuth server
\* need no token of the workspace.  (The rotation that looks its token up after
\* authenticating, of agents/rotate, is a Reader and then this one.)
Trust(o) ==
    /\ at[o] = "idle" /\ o \notin Readers
    /\ Receives(o)
    /\ MovesTo(o, Admitted(o))
    /\ UNCHANGED <<file, copy>>

\* authenticate: lastUsedAt is stamped, with the file as it was read.
Stamp(o) ==
    /\ at[o] = "stamp"
    /\ file' = copy[o]
    /\ Forgets(o)
    /\ MovesTo(o, Admitted(o))
    /\ UNCHANGED work

-----------------------------------------------------------------------------
(***************************************************************************)
(* Create, rotate, revoke                                                  *)
(***************************************************************************)

\* The live tokens of the agent, for disable and for revoke; the file is not
\* locked from here to the last revocation.
ListTokens(o) ==
    /\ at[o] = "list"
    /\ LET agents == {t \in Tokens : Live(file, t) /\ file[t].agent} IN
         /\ asked' = [asked EXCEPT ![o] = agents]
         /\ left' = [left EXCEPT ![o] = agents]
         /\ MovesTo(o, IF agents = {} THEN "refused" ELSE "ready")
    /\ UNCHANGED <<file, goal, copy>>

\* Mutant: rotateToken finds revoked tokens, too.
AnyToken(d, t) == Has(d, t)

\* The token to rotate must be live.
Rotatable(d, t) == Live(d, t)

ReadToIssue(o) ==
    /\ at[o] = "ready" /\ o \in Creators \union Rotators
    /\ IF o \in Rotators => Rotatable(file, goal[o])
         THEN Reads(o) /\ MovesTo(o, "write")
         ELSE UNCHANGED copy /\ MovesTo(o, "refused")
    /\ UNCHANGED <<file, work>>

\* revokeToken of a token that is left; it need not be live.
ReadToRevoke(o) ==
    /\ at[o] = "ready" /\ o \in Revokers \union Sweepers
    /\ \E t \in left[o] :
         IF Has(file, t)
         THEN /\ Reads(o) /\ MovesTo(o, "write")
              /\ goal' = [goal EXCEPT ![o] = t]
         ELSE UNCHANGED <<copy, goal>> /\ MovesTo(o, "refused")
    /\ UNCHANGED <<file, asked, left>>

\* createToken: a token of nobody in particular.
Created(d, o) == [d EXCEPT ![o] = [live |-> TRUE, agent |-> FALSE]]

\* The principal of a token passes to its replacement.
Owner(d, t) == d[t].agent

\* Mutant: the replacement is not appended.
RevokedOnly(d, o) == [d EXCEPT ![goal[o]].live = FALSE]

\* rotateToken: the token is revoked and its replacement appended.
Rotated(d, o) ==
    [d EXCEPT ![goal[o]].live = FALSE,
              ![o] = [live |-> TRUE, agent |-> Owner(d, goal[o])]]

\* Mutant: revokedAt is toggled.
Toggled(d, t) == [d EXCEPT ![t].live = ~@]

\* revokeToken: current.revokedAt ?? nowIso().
Revoked(d, t) == [d EXCEPT ![t].live = FALSE]

Changed(o) ==
    IF o \in Creators THEN Created(copy[o], o)
    ELSE IF o \in Rotators THEN Rotated(copy[o], o)
    ELSE Revoked(copy[o], goal[o])

\* writeTokens, and the next token of a sweep.
Write(o) ==
    /\ at[o] = "write"
    /\ file' = Changed(o)
    /\ Forgets(o)
    /\ left' = [left EXCEPT ![o] = @ \ {goal[o]}]
    /\ MovesTo(o, IF left'[o] = {} THEN "done" ELSE "ready")
    /\ UNCHANGED <<goal, asked>>

\* A write that throws: the disk is full, or two writes of one millisecond
\* shared a temporary file and the second rename finds it gone (the first one
\* may have put the text of the second in place).
FailWrite(o) ==
    /\ at[o] \in {"stamp", "write"}
    /\ file' \in {file, IF at[o] = "stamp" THEN copy[o] ELSE Changed(o)}
    /\ Forgets(o)
    /\ MovesTo(o, "refused")
    /\ UNCHANGED work

-----------------------------------------------------------------------------
Step(o) ==
    \/ Authenticate(o) \/ Trust(o) \/ Stamp(o)
    \/ ListTokens(o) \/ ReadToIssue(o) \/ ReadToRevoke(o)
    \/ Write(o) \/ FailWrite(o)

TSNext == \E o \in TokenOps : Step(o)

TSSpec == TSInit /\ [][TSNext]_tsVars

-----------------------------------------------------------------------------
(***************************************************************************)
(* Properties                                                              *)
(***************************************************************************)

\* Type correctness; a sweep has nothing left that it was not to revoke.
TSTypeOK ==
    /\ file \in Files
    /\ at \in [TokenOps -> Phases]
    /\ goal \in [TokenOps -> Tokens \union {Nothing}]
    /\ copy \in [TokenOps -> Files \union {Nothing}]
    /\ asked \in [TokenOps -> SUBSET Tokens]
    /\ left \in [TokenOps -> SUBSET Tokens]
    /\ \A o \in TokenOps : left[o] \subseteq asked[o]

\* rotateToken: whatever stale files were written back, a token that was
\* replaced is revoked in every file that has its replacement, has no second
\* replacement there, and left its owner to the first.  So the holders of the
\* old secret and of two new ones never work side by side.
RotationChains ==
    \A r \in Rotators : Has(file, r) =>
        /\ Has(file, goal[r]) /\ ~Live(file, goal[r])
        /\ file[r].agent = file[goal[r]].agent
        /\ \A s \in Rotators \ {r} : Has(file, s) => goal[s] # goal[r]

\* Nobody is locked out by a rotation: a token is revoked in the file only if
\* its replacement is in the same file, or somebody was asked to revoke it.
RevokedForCause ==
    \A t \in Tokens : Has(file, t) /\ ~Live(file, t) =>
        \/ \E r \in Rotators : Has(file, r) /\ goal[r] = t
        \/ \E o \in TokenOps : t \in asked[o]

\* revokeToken: a revoked token comes back only out of the memory of a request
\* that read it before; when there is none, the revocation is final.
RevocationSettles ==
    [][\A t \in Tokens :
         /\ Has(file, t) /\ ~Live(file, t)
         /\ \A o \in TokenOps : copy[o] # Nothing => Has(copy[o], t) /\ ~Live(copy[o], t)
         => Has(file', t) /\ ~Live(file', t)]_tsVars

=============================================================================
