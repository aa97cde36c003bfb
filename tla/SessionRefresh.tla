--------------------------- MODULE SessionRefresh ---------------------------
(***************************************************************************)
(* Renewal of a browser's session (lib/api.ts, ConnectionContext.tsx,      *)
(* routers/auth.py, auth_store.py).  A refresh names a session by the      *)
(* cookie of the browser; the gateway verifies it, revokes it and creates  *)
(* another, in three transactions.  A tab waits for a refresh of its own,  *)
(* but the tabs, and the restore at the load of a page, do not wait for    *)
(* one another, and all share one cookie.                                  *)
(*                                                                         *)
(* Sessions are numbered as they are created; they do not expire here, and *)
(* a cookie that names none is never verified.                             *)
(***************************************************************************)
EXTENDS Naturals

CONSTANTS
  Callers,      \* the silent refresh and the restore of every tab, and their logouts
  MaxSessions   \* bound of the model

NoSession == 0

VARIABLES
  cookie,    \* the session that the cookie of the browser names
  created,   \* how many sessions the gateway has created
  revoked,   \* sessions with a revoked_at
  call,      \* what each caller is about, and what the gateway has done of it
  over       \* history: the user has logged out, or a failure has cut a rotation short

sessionVars == <<cookie, created, revoked, call, over>>

Sessions == 1 .. created
Idle == [at |-> "idle", sent |-> NoSession, made |-> NoSession]

Stages == {"idle", "sent", "verified", "revoked", "answered", "refused", "leaving", "left"}

SessionTypeOK ==
  /\ cookie \in Nat /\ created \in Nat /\ revoked \subseteq Nat
  /\ call \in [Callers -> [at : Stages, sent : Nat, made : Nat]]
  /\ over \in BOOLEAN

\* A user who has just signed in.
SessionInit ==
  /\ created = 1 /\ cookie = 1 /\ revoked = {}
  /\ call = [c \in Callers |-> Idle]
  /\ over = FALSE

At(c, stage) == call[c].at = stage
Step(c, stage) == call' = [call EXCEPT ![c].at = stage]
Ends(c) == call' = [call EXCEPT ![c] = Idle]

-----------------------------------------------------------------------------
\* A request of a tab was answered with 401, or a page is loaded.
Send(c) ==
  /\ At(c, "idle") /\ cookie # NoSession
  /\ call' = [call EXCEPT ![c] = [at |-> "sent", sent |-> cookie, made |-> NoSession]]
  /\ UNCHANGED <<cookie, created, revoked, over>>

\* Anything may refuse: the user may be locked, the store unavailable.
Verify(c) ==
  /\ At(c, "sent")
  /\ Step(c, "refused") \/ (call[c].sent \notin revoked /\ Step(c, "verified"))
  /\ UNCHANGED <<cookie, created, revoked, over>>

\* Mutant of RevokedBy: every session of the user goes.
RevokedAll(c) == revoked \cup Sessions

RevokedBy(c) == revoked \cup ({call[c].sent} \ {NoSession})

\* A failure of the store is passed over.
Revoke(c) ==
  /\ At(c, "verified")
  /\ revoked' \in {RevokedBy(c), revoked}
  /\ Step(c, "revoked")
  /\ UNCHANGED <<cookie, created, over>>

Create(c) ==
  /\ At(c, "revoked") /\ created < MaxSessions
  /\ created' = created + 1
  /\ call' = [call EXCEPT ![c].at = "answered", ![c].made = created + 1]
  /\ UNCHANGED <<cookie, revoked, over>>

\* The answer sets the cookie, whatever it names by now.
Renewed(c) ==
  /\ At(c, "answered")
  /\ cookie' = call[c].made
  /\ Ends(c)
  /\ UNCHANGED <<created, revoked, over>>

\* The tab gives up its access token; the cookie stays.
Refused(c) == At(c, "refused") /\ Ends(c) /\ UNCHANGED <<cookie, created, revoked, over>>

\* The gateway goes down, or the answer is lost.
CutShort(c) ==
  /\ call[c].at \in {"revoked", "answered"}
  /\ over' = TRUE
  /\ Ends(c)
  /\ UNCHANGED <<cookie, created, revoked>>

-----------------------------------------------------------------------------
Logout(c) ==
  /\ At(c, "idle")
  /\ call' = [call EXCEPT ![c] = [at |-> "leaving", sent |-> cookie, made |-> NoSession]]
  /\ over' = TRUE
  /\ UNCHANGED <<cookie, created, revoked>>

LogoutServed(c) ==
  /\ At(c, "leaving")
  /\ revoked' = RevokedBy(c)
  /\ Step(c, "left")
  /\ UNCHANGED <<cookie, created, over>>

LoggedOut(c) ==
  /\ At(c, "left")
  /\ cookie' = NoSession
  /\ Ends(c)
  /\ UNCHANGED <<created, revoked, over>>

\* The user signs in, in any tab; the answer is at once there.
Login ==
  /\ created < MaxSessions
  /\ created' = created + 1 /\ cookie' = created + 1
  /\ over' = \E c \in Callers : call[c].at \in {"leaving", "left"}
  /\ UNCHANGED <<revoked, call>>

SessionNext ==
  \/ \E c \in Callers :
       \/ Send(c) \/ Verify(c) \/ Revoke(c) \/ Create(c) \/ Renewed(c) \/ Refused(c) \/ CutShort(c)
       \/ Logout(c) \/ LogoutServed(c) \/ LoggedOut(c)
  \/ Login

SessionSpec == SessionInit /\ [][SessionNext]_sessionVars

-----------------------------------------------------------------------------
\* However refreshes and logins overlap, the browser is never left with a dead session: its
\* cookie names one that can be renewed, or a rotation that is past its revocation will set it.
AlwaysRenewable ==
  ~over => \/ cookie \in Sessions \ revoked
           \/ \E c \in Callers : At(c, "revoked") \/ At(c, "answered")
=============================================================================
