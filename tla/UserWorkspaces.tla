--------------------------- MODULE UserWorkspaces ---------------------------
(***************************************************************************)
(* One user of the web server: the one-time codes mailed to an address,    *)
(* the sign-ins that enter one, the first of which makes the user and the  *)
(* default workspace, and the requests of the user's sessions that create, *)
(* choose, delete and resolve a workspace.  Every statement is a step; the *)
(* unique indexes and the foreign key of users.active_user_workspace_id    *)
(* are those of migration 0021.                                            *)
(***************************************************************************)
EXTENDS Naturals, FiniteSets, Sequences

CONSTANTS Calls,          \* the requests; a code or a workspace has the name of its request
          Plans,          \* bound: what the requests ask; the codes mailed before; the sign-in
                          \* that had made the user and was cut short, if any
          MaxActive,      \* MAX_ACTIVE_PER_EMAIL
          MaxAttempts,    \* MAX_VERIFY_ATTEMPTS
          MaxWorkspaces,  \* MAX_WORKSPACES_PER_USER
          Mortal,         \* bound: the requests that may stop between two statements
          None

Ops   == {"send", "signin", "create", "switch", "delete", "resolve"}
\* How the slug of a new workspace relates to that of the default one: it was
\* asked for, it follows from the name, or it is another one.
Slugs == {"asked", "named", "other"}
\* target: the code that is entered (None is a wrong one), or a workspace.
Asks  == [op : Ops, slug : Slugs, active : BOOLEAN, target : Calls \cup {None}]
Workspaces == [home : BOOLEAN, default : BOOLEAN]   \* is_default; has the slug "default"

ASSUME ConstantsAssumption ==
    /\ None \notin Calls \cup Workspaces /\ Mortal \subseteq Calls
    /\ {MaxActive, MaxAttempts, MaxWorkspaces} \subseteq Nat \ {0}
    /\ \A p \in Plans : /\ p.asks \in [Calls -> Asks \cup {None}]
                        /\ p.sent \in Seq(Calls) /\ Len(p.sent) <= MaxActive
                        /\ \A i \in DOMAIN p.sent : p.asks[p.sent[i]] = None
                        /\ p.cut \in Calls \cup {None}
                        /\ \A c \in Calls : p.asks[c] # None /\ p.asks[c].op \in {"switch", "delete"}
                              => p.asks[c].target \in Calls

VARIABLES codes,  \* email_otps of the address, in the order of created_at
          user,   \* is the row of the user there?
          active, \* users.active_user_workspace_id
          ws,     \* user_workspaces
          call

vars == <<codes, user, active, ws, call>>
rows == <<user, active, ws>>

Steps == {"count codes", "insert code",
          "select code", "spend", "wrong", "use",
          "find", "insert user", "ensure", "insert home", "point",
          "count", "slug", "insert", "adopt",
          "own", "choose",
          "read", "last", "whose", "fallback", "flip", "remove",
          "active", "that", "default"}
Ends  == {"done", "refused", "threw"}

Codes == [of : Calls, attempts : 0..MaxAttempts, used : BOOLEAN, expired : BOOLEAN]

TypeOK ==
    /\ codes \in Seq(Codes)
    /\ user \in BOOLEAN
    /\ active \in Calls \cup {None}
    /\ ws \in [Calls -> Workspaces \cup {None}]
    /\ call \in [Calls -> [pc : {"idle"} \cup Steps \cup Ends, ask : Asks \cup {None},
                           row : 0..Len(codes), read : 0..MaxAttempts,
                           opened : BOOLEAN, created : BOOLEAN, default : BOOLEAN,
                           held : Calls \cup {None}, before : SUBSET Calls, homed : BOOLEAN]]

Existing == {w \in Calls : ws[w] # None}
Homes    == {w \in Existing : ws[w].home}
\* user_workspaces_user_slug_key, for the slug "default"
SlugTaken == \E w \in Existing : ws[w].default

Asking(c, op) == call[c].ask # None /\ call[c].ask.op = op
Ended         == {c \in Calls : call[c].pc \in Ends}

Mailed(c) == [of |-> c, attempts |-> 0, used |-> FALSE, expired |-> FALSE]

\* The codes mailed before were mailed one after the other.
Init ==
    /\ active = None
    /\ ws = [c \in Calls |-> None]
    /\ \E p \in Plans :
         LET at(c) == {i \in DOMAIN p.sent : p.sent[i] = c}
         IN  /\ user = (p.cut # None)
             /\ codes = [i \in DOMAIN p.sent |-> Mailed(p.sent[i])]
             /\ call = [c \in Calls |->
                  [pc |-> IF c = p.cut THEN "threw" ELSE IF at(c) # {} THEN "done" ELSE "idle",
                   ask |-> p.asks[c], row |-> 0, read |-> 0, opened |-> FALSE,
                   created |-> c = p.cut, default |-> FALSE, held |-> None,
                   before |-> {p.sent[i] : i \in {j \in DOMAIN p.sent : \E k \in at(c) : j < k}},
                   homed |-> FALSE]]

Goes(c, pc) == call' = [call EXCEPT ![c].pc = pc]

First(op) ==
    CASE op = "send"    -> "count codes"
      [] op = "signin"  -> "select code"
      [] op = "create"  -> "count"
      [] op = "switch"  -> "own"
      [] op = "delete"  -> "read"
      [] op = "resolve" -> "active"

\* A code is entered once it was mailed; the other requests carry the session
\* that a sign-in through to its end has started.
Permitted(a) ==
    CASE a.op = "send"   -> TRUE
      [] a.op = "signin" -> a.target = None \/ \E i \in DOMAIN codes : codes[i].of = a.target
      [] OTHER           -> \E c \in Calls : Asking(c, "signin") /\ call[c].pc = "done"

\* before and homed are of no request; the properties speak of them.
Start(c) ==
    /\ call[c].pc = "idle" /\ call[c].ask # None
    /\ Permitted(call[c].ask)
    /\ call' = [call EXCEPT ![c].pc = First(call[c].ask.op), ![c].before = Ended,
                            ![c].homed = Homes # {}]
    /\ UNCHANGED <<codes, rows>>

-----------------------------------------------------------------------------
(* generateOtp, and verifyOtp up to the code.                              *)

Active == {i \in DOMAIN codes : ~codes[i].used /\ ~codes[i].expired}
Unused == {i \in DOMAIN codes : ~codes[i].used}

CountCodes(c) ==
    /\ call[c].pc = "count codes"
    /\ Goes(c, IF Cardinality(Active) >= MaxActive THEN "refused" ELSE "insert code")
    /\ UNCHANGED <<codes, rows>>

InsertCode(c) ==
    /\ call[c].pc = "insert code"
    /\ codes' = Append(codes, Mailed(c))
    /\ Goes(c, "done")
    /\ UNCHANGED rows

\* Mutant: the attempts are compared too late.
VerdictLate(c, r) ==
    IF codes[r].expired THEN "refused"
    ELSE IF codes[r].of # call[c].ask.target THEN "wrong"
    ELSE "use"

\* What the newest unused row r says of a code.
Verdict(c, r) ==
    IF codes[r].expired THEN "refused"
    ELSE IF codes[r].attempts >= MaxAttempts THEN "spend"
    ELSE IF codes[r].of # call[c].ask.target THEN "wrong"
    ELSE "use"

SelectCode(c) ==
    /\ call[c].pc = "select code"
    /\ IF Unused = {}
       THEN Goes(c, "refused")
       ELSE \E r \in Unused :
              /\ \A i \in Unused : i <= r
              /\ call' = [call EXCEPT ![c].pc = Verdict(c, r), ![c].row = r,
                                      ![c].read = codes[r].attempts]
    /\ UNCHANGED <<codes, rows>>

SpendCode(c) ==
    /\ call[c].pc = "spend"
    /\ codes' = [codes EXCEPT ![call[c].row].used = TRUE]
    /\ Goes(c, "refused")
    /\ UNCHANGED rows

\* The attempts are those of the row as it was read, and one.
CountAttempt(c) ==
    /\ call[c].pc = "wrong"
    /\ codes' = [codes EXCEPT ![call[c].row].attempts = call[c].read + 1]
    /\ Goes(c, "refused")
    /\ UNCHANGED rows

UseCode(c) ==
    /\ call[c].pc = "use"
    /\ codes' = [codes EXCEPT ![call[c].row].used = TRUE]
    /\ call' = [call EXCEPT ![c].pc = "find", ![c].opened = TRUE]
    /\ UNCHANGED rows

\* OTP_TTL_MS is over, for the oldest one first.  Bound: while a request is left
\* that may read them.
Expire ==
    /\ \E c \in Calls \ Ended : Asking(c, "send") \/ Asking(c, "signin")
    /\ \E i \in DOMAIN codes :
         /\ \A j \in DOMAIN codes : codes[j].expired <=> j < i
         /\ codes' = [codes EXCEPT ![i].expired = TRUE]
    /\ UNCHANGED <<rows, call>>

-----------------------------------------------------------------------------
(* verifyOtp behind the code, and ensureDefaultUserWorkspace.              *)

FindUser(c) ==
    /\ call[c].pc = "find"
    /\ Goes(c, IF user THEN "done" ELSE "insert user")
    /\ UNCHANGED <<codes, rows>>

\* users.email is unique.
InsertUser(c) ==
    /\ call[c].pc = "insert user"
    /\ call' = [call EXCEPT ![c].pc = IF user THEN "threw" ELSE "ensure", ![c].created = ~user]
    /\ user' = TRUE
    /\ UNCHANGED <<codes, active, ws>>

\* Mutant: content with any workspace.
EnsureAny(c) ==
    /\ call[c].pc = "ensure"
    /\ Goes(c, IF Existing # {} THEN "done" ELSE "insert home")
    /\ UNCHANGED <<codes, rows>>

EnsureDefault(c) ==
    /\ call[c].pc = "ensure"
    /\ Goes(c, IF Homes # {} THEN "done" ELSE "insert home")
    /\ UNCHANGED <<codes, rows>>

\* Its slug may have been taken by a session in the meantime; its alias may
\* belong to another workspace.
InsertHome(c) ==
    /\ call[c].pc = "insert home"
    /\ \/ /\ ~SlugTaken /\ Homes = {}
          /\ ws' = [ws EXCEPT ![c] = [home |-> TRUE, default |-> TRUE]]
          /\ Goes(c, "point")
       \/ /\ SlugTaken \/ Homes # {} \/ c \in Mortal
          /\ UNCHANGED ws /\ Goes(c, "threw")
    /\ UNCHANGED <<codes, user, active>>

PointHome(c) ==
    /\ call[c].pc = "point"
    /\ active' = IF active = None THEN c ELSE active
    /\ Goes(c, "done")
    /\ UNCHANGED <<codes, user, ws>>

-----------------------------------------------------------------------------
(* createUserWorkspace                                                     *)

CountWorkspaces(c) ==
    /\ call[c].pc = "count"
    /\ Goes(c, IF Cardinality(Existing) >= MaxWorkspaces THEN "refused" ELSE "slug")
    /\ UNCHANGED <<codes, rows>>

\* A slug asked for is honoured strictly; one that follows from the name gives way.
PickSlug(c) ==
    /\ call[c].pc = "slug"
    /\ IF call[c].ask.slug = "asked" /\ SlugTaken
       THEN Goes(c, "refused")
       ELSE call' = [call EXCEPT ![c].pc = "insert",
                                 ![c].default = call[c].ask.slug # "other" /\ ~SlugTaken]
    /\ UNCHANGED <<codes, rows>>

InsertWorkspace(c) ==
    /\ call[c].pc = "insert"
    /\ IF call[c].default /\ SlugTaken
       THEN Goes(c, "threw") /\ UNCHANGED ws
       ELSE /\ ws' = [ws EXCEPT ![c] = [home |-> FALSE, default |-> call[c].default]]
            /\ Goes(c, IF call[c].ask.active THEN "adopt" ELSE "done")
    /\ UNCHANGED <<codes, user, active>>

\* users.active_user_workspace_id references user_workspaces.
PointAt(c, w) ==
    /\ IF w = None \/ w \in Existing
       THEN active' = w /\ Goes(c, IF Asking(c, "delete") THEN "remove" ELSE "done")
       ELSE UNCHANGED active /\ Goes(c, "threw")
    /\ UNCHANGED <<codes, user, ws>>

Adopt(c) == call[c].pc = "adopt" /\ PointAt(c, c)

-----------------------------------------------------------------------------
(* switchActiveUserWorkspace                                               *)

CheckOwn(c) ==
    /\ call[c].pc = "own"
    /\ Goes(c, IF call[c].ask.target \in Existing THEN "choose" ELSE "refused")
    /\ UNCHANGED <<codes, rows>>

Choose(c) == call[c].pc = "choose" /\ PointAt(c, call[c].ask.target)

-----------------------------------------------------------------------------
(* deleteUserWorkspace                                                     *)

ReadDeletable(c) ==
    /\ call[c].pc = "read"
    /\ Goes(c, IF call[c].ask.target \in Existing \ Homes THEN "last" ELSE "refused")
    /\ UNCHANGED <<codes, rows>>

\* Mutant: without the guard on the last one.
AnyRemaining(c) ==
    /\ call[c].pc = "last"
    /\ Goes(c, "whose")
    /\ UNCHANGED <<codes, rows>>

LastRemaining(c) ==
    /\ call[c].pc = "last"
    /\ Goes(c, IF Cardinality(Existing) <= 1 THEN "refused" ELSE "whose")
    /\ UNCHANGED <<codes, rows>>

IsActive(c) ==
    /\ call[c].pc = "whose"
    /\ Goes(c, IF active = call[c].ask.target THEN "fallback" ELSE "remove")
    /\ UNCHANGED <<codes, rows>>

FindDefault(c) ==
    /\ call[c].pc = "fallback"
    /\ \E w \in IF Homes = {} THEN {None} ELSE Homes :
         call' = [call EXCEPT ![c].pc = "flip", ![c].held = w]
    /\ UNCHANGED <<codes, rows>>

Flip(c) == call[c].pc = "flip" /\ PointAt(c, call[c].held)

\* ON DELETE SET NULL
Remove(c) ==
    /\ call[c].pc = "remove"
    /\ ws' = [ws EXCEPT ![call[c].ask.target] = None]
    /\ active' = IF active = call[c].ask.target THEN None ELSE active
    /\ Goes(c, "done")
    /\ UNCHANGED <<codes, user>>

-----------------------------------------------------------------------------
(* resolveActiveUserWorkspace                                              *)

ReadActive(c) ==
    /\ call[c].pc = "active"
    /\ call' = [call EXCEPT ![c].pc = IF active = None THEN "default" ELSE "that", ![c].held = active]
    /\ UNCHANGED <<codes, rows>>

\* Mutant: no fallback behind a pointer.
ReadThatOnly(c) ==
    /\ call[c].pc = "that"
    /\ Goes(c, IF call[c].held \in Existing THEN "done" ELSE "threw")
    /\ UNCHANGED <<codes, rows>>

ReadThat(c) ==
    /\ call[c].pc = "that"
    /\ Goes(c, IF call[c].held \in Existing THEN "done" ELSE "default")
    /\ UNCHANGED <<codes, rows>>

ReadDefault(c) ==
    /\ call[c].pc = "default"
    /\ IF Homes = {} THEN Goes(c, "threw")
       ELSE \E w \in Homes : call' = [call EXCEPT ![c].pc = "done", ![c].held = w]
    /\ UNCHANGED <<codes, rows>>

-----------------------------------------------------------------------------
\* A statement throws or the process goes away.
Die(c) ==
    /\ c \in Mortal /\ call[c].pc \in Steps
    /\ Goes(c, "threw")
    /\ UNCHANGED <<codes, rows>>

Proceed(c) ==
    \/ CountCodes(c) \/ InsertCode(c)
    \/ SelectCode(c) \/ SpendCode(c) \/ CountAttempt(c) \/ UseCode(c)
    \/ FindUser(c) \/ InsertUser(c) \/ EnsureDefault(c) \/ InsertHome(c) \/ PointHome(c)
    \/ CountWorkspaces(c) \/ PickSlug(c) \/ InsertWorkspace(c) \/ Adopt(c)
    \/ CheckOwn(c) \/ Choose(c)
    \/ ReadDeletable(c) \/ LastRemaining(c) \/ IsActive(c) \/ FindDefault(c) \/ Flip(c) \/ Remove(c)
    \/ ReadActive(c) \/ ReadThat(c) \/ ReadDefault(c)

Next == Expire \/ \E c \in Calls : Start(c) \/ Proceed(c) \/ Die(c)

Spec == Init /\ [][Next]_vars

-----------------------------------------------------------------------------
(***************************************************************************)
(* Properties                                                              *)
(***************************************************************************)

\* Neither of the two requests had ended when the other one began.
SideBySide(c, d) == c # d /\ c \notin call[d].before /\ d \notin call[c].before

Guesses(r) == {c \in Calls : Asking(c, "signin") /\ call[c].row = r /\ codes[r].of # call[c].ask.target}

\* A code opens the account once, and not after MaxAttempts wrong codes were
\* refused one after the other; but the row is read before it is marked or
\* counted, so sign-ins side by side may pass twice or go uncounted.
CodeHoldsButSideBySide ==
    \A c \in Calls : call[c].opened =>
        LET guesses == Guesses(call[c].row)
            refused == {g \in guesses \cap call[c].before : call[g].pc = "refused"}
        IN /\ \A d \in Calls \ {c} :
                call[d].opened /\ call[d].row = call[c].row => SideBySide(c, d)
           /\ Cardinality(refused) >= MaxAttempts =>
                \E g \in guesses, h \in refused : SideBySide(g, h)

\* Every user has a default workspace, unless the sign-in that made the user
\* is not through, or stopped: no later sign-in makes up for it.
HomeUnlessCutShort ==
    user /\ Homes = {} =>
        \E c \in Calls : call[c].created /\ call[c].pc \in {"ensure", "insert home", "threw"}

\* The pointer of the user never names a workspace that is gone, and a request
\* of a user with a default workspace finds one, also when the workspace it was
\* about to find is deleted under it.
ActiveResolves ==
    /\ active \in Existing \cup {None}
    /\ \A c \in Calls \ Mortal : Asking(c, "resolve") /\ call[c].pc = "threw" => ~call[c].homed

\* What is counted before it is changed goes wrong only for requests side by
\* side: too many open codes, too many workspaces, the last workspace deleted.
LimitsButSideBySide ==
    LET Deleted == {c \in Calls : Asking(c, "delete") /\ call[c].pc = "done"}
    IN /\ Cardinality(Active) > MaxActive => \E i, j \in Active : SideBySide(codes[i].of, codes[j].of)
       /\ Cardinality(Existing) > MaxWorkspaces => \E c, d \in Existing : SideBySide(c, d)
       /\ Deleted # {} /\ Existing = {} => \E c, d \in Deleted : SideBySide(c, d)

=============================================================================
