------------------------------- MODULE Sessions -------------------------------
(***************************************************************************)
(* The sessions of one user (AuthService, rows of UserSessions) under      *)
(* concurrent sign-ins, refreshes, logouts and password resets.            *)
(*                                                                         *)
(* An action is one statement.  Transactions run at PostgreSQL's default   *)
(* isolation, READ COMMITTED: a statement sees the rows committed when it  *)
(* starts and the writes of its own transaction; an updated row stays      *)
(* locked until its transaction ends, and an UPDATE that waited for a row  *)
(* looks at it again before it writes it.  A session is the number of its  *)
(* creation, so a larger one has a later createdAt.                        *)
(***************************************************************************)
EXTENDS Naturals, FiniteSets

CONSTANTS
  Clients,       \* requests in flight at once
  Kinds,         \* the kinds of request of this instance, a subset of AllKinds
  MaxActive,     \* MAX_ACTIVE_SESSIONS
  MaxSessions,   \* bound on the sessions ever created
  MaxExpired,    \* bound on the sessions that outlive REFRESH_SESSION_TTL_MS
  MaxRollbacks   \* bound on the transactions that fail for no reason of their own

AllKinds == {"signIn", "refresh", "reset", "logout"}

ASSUME SessionsAssumption ==
  /\ {MaxActive, MaxSessions} \subseteq Nat \ {0}
  /\ {MaxExpired, MaxRollbacks} \subseteq Nat
  /\ Kinds \subseteq AllKinds
  /\ IsFiniteSet(Clients)

VARIABLES
  session,   \* session -> its committed row: "none", "active" or "revoked"
  created,   \* sessions created so far, committed or not
  expired,   \* sessions 1..expired have passed their expiresAt
  request,   \* client -> the request it serves
  rollbacks  \* transactions rolled back so far

vars == <<session, created, expired, request, rollbacks>>

Ids == 1..MaxSessions
Active == {s \in Ids : session[s] = "active"}

\* A request: what it does next, the session it was sent with, the rows its
\* transaction has revoked, the rows a statement of it keeps or has still to
\* revoke, and the session its transaction has created.
Idle == [kind |-> "none", pc |-> "idle", old |-> 0, revoked |-> {}, keep |-> {},
         target |-> {}, own |-> 0]
Start(c, kind, pc, s) ==
  request' = [request EXCEPT ![c] = [Idle EXCEPT !.kind = kind, !.pc = pc, !.old = s]]

\* the locks: users.update is the first statement of a sign-in and of a reset
HoldsUser(c) == /\ request[c].kind \in {"signIn", "reset"}
                /\ request[c].pc \notin {"idle", "lock"}
LockedByOther(s, c) == \E d \in Clients \ {c} : s \in request[d].revoked
\* the active rows a statement of c sees
Visible(c) == Active \ request[c].revoked

\* every request that will create a session has one left
Creating == {c \in Clients : /\ request[c].kind \in {"signIn", "refresh"}
                             /\ request[c].pc # "commit"}
RoomToCreate == created + Cardinality(Creating) < MaxSessions

\* seeded fault: orderBy asc
Oldest(S, n) == {s \in S : Cardinality({t \in S : t < s}) < n}
\* orderBy createdAt desc, take n
Newest(S, n) == {s \in S : Cardinality({t \in S : t > s}) < n}

Init ==
  /\ session = [s \in Ids |-> "none"]
  /\ created = 0
  /\ expired = 0
  /\ request = [c \in Clients |-> Idle]
  /\ rollbacks = 0

-----------------------------------------------------------------------------
(* Requests, up to the transaction *)

Free(c, kind) == kind \in Kinds /\ request[c] = Idle

\* the credentials are checked outside the transaction
signIn(c) ==
  /\ Free(c, "signIn")
  /\ RoomToCreate
  /\ Start(c, "signIn", "lock", 0)
  /\ UNCHANGED <<session, created, expired, rollbacks>>

\* the three ways to sign in: all update the user's row, then generateTokens
login(c)       == signIn(c)
verifyOtp(c)   == signIn(c)
googleLogin(c) == signIn(c)

\* isActive and expiresAt, read by refreshTokens and by validateSession
Valid(s) == session[s] = "active" /\ s > expired

\* refreshTokens: the session of the token must still be valid
refreshTokens(c, s) ==
  /\ Free(c, "refresh")
  /\ RoomToCreate
  /\ Valid(s)
  /\ Start(c, "refresh", "rotate", s)
  /\ UNCHANGED <<session, created, expired, rollbacks>>

resetPassword(c) ==
  /\ Free(c, "reset")
  /\ Start(c, "reset", "lock", 0)
  /\ UNCHANGED <<session, created, expired, rollbacks>>

\* the guard has validated the session, the handler has yet to revoke it
logout(c, s) ==
  /\ Free(c, "logout")
  /\ Valid(s)
  /\ Start(c, "logout", "logout", s)
  /\ UNCHANGED <<session, created, expired, rollbacks>>

-----------------------------------------------------------------------------
(* The statements of the transactions *)

Move(c, r) == request' = [request EXCEPT ![c] = r]

\* seeded fault: a sign-in does not touch the user's row
SignInUnlocked(c) ==
  /\ request[c].pc = "lock"
  /\ Move(c, [request[c] EXCEPT !.pc = IF request[c].kind = "reset" THEN "scan" ELSE "read"])
  /\ UNCHANGED <<session, created, expired, rollbacks>>

\* users.update, which waits for any other transaction that has updated the row
updateUser(c) ==
  /\ request[c].pc = "lock"
  /\ \A d \in Clients : ~HoldsUser(d)
  /\ Move(c, [request[c] EXCEPT !.pc = IF request[c].kind = "reset" THEN "scan" ELSE "read"])
  /\ UNCHANGED <<session, created, expired, rollbacks>>

\* refreshTokens revokes the old session by its id, whatever has become of it
rotate(c) ==
  /\ request[c].pc = "rotate"
  /\ ~LockedByOther(request[c].old, c)
  /\ Move(c, [request[c] EXCEPT !.pc = "read", !.revoked = {request[c].old}])
  /\ UNCHANGED <<session, created, expired, rollbacks>>

\* seeded fault: keeps MaxActive sessions beside the new one
KeepOneTooMany(c) ==
  /\ request[c].pc = "read"
  /\ Move(c, [request[c] EXCEPT !.pc = "scan", !.keep = Newest(Visible(c), MaxActive)])
  /\ UNCHANGED <<session, created, expired, rollbacks>>

\* generateTokens: findMany of the sessions to keep
readActive(c) ==
  /\ request[c].pc = "read"
  /\ Move(c, [request[c] EXCEPT !.pc = "scan", !.keep = Newest(Visible(c), MaxActive - 1)])
  /\ UNCHANGED <<session, created, expired, rollbacks>>

\* seeded fault: a reset spares the newest session
ScanSparesNewest(c) ==
  /\ request[c].pc = "scan"
  /\ LET spared == IF request[c].kind = "reset" THEN Newest(Visible(c), 1) ELSE request[c].keep
     IN Move(c, [request[c] EXCEPT !.pc = "revoke", !.target = Visible(c) \ spared])
  /\ UNCHANGED <<session, created, expired, rollbacks>>

\* updateMany of the active sessions that are not kept (resetPassword keeps
\* none): the rows that match when it starts...
scan(c) ==
  /\ request[c].pc = "scan"
  /\ Move(c, [request[c] EXCEPT !.pc = "revoke", !.target = Visible(c) \ request[c].keep])
  /\ UNCHANGED <<session, created, expired, rollbacks>>

\* ... are locked one by one, and revoked if they are still active
revoke(c, s) ==
  /\ request[c].pc = "revoke"
  /\ s \in request[c].target
  /\ ~LockedByOther(s, c)
  /\ Move(c, [request[c] EXCEPT !.target = @ \ {s}, !.revoked = @ \cup ({s} \cap Active)])
  /\ UNCHANGED <<session, created, expired, rollbacks>>

revoked(c) ==
  /\ request[c].pc = "revoke"
  /\ request[c].target = {}
  /\ Move(c, [request[c] EXCEPT !.pc = IF request[c].kind = "reset" THEN "commit" ELSE "create"])
  /\ UNCHANGED <<session, created, expired, rollbacks>>

createSession(c) ==
  /\ request[c].pc = "create"
  /\ created' = created + 1
  /\ Move(c, [request[c] EXCEPT !.pc = "commit", !.own = created + 1])
  /\ UNCHANGED <<session, expired, rollbacks>>

\* seeded fault: deletes the rows it should revoke
CommitDeletes(c) ==
  /\ request[c].pc = "commit"
  /\ session' = [s \in Ids |-> IF s = request[c].own THEN "active"
                               ELSE IF s \in request[c].revoked THEN "deleted" ELSE session[s]]
  /\ Move(c, Idle)
  /\ UNCHANGED <<created, expired, rollbacks>>

commit(c) ==
  /\ request[c].pc = "commit"
  /\ session' = [s \in Ids |-> IF s = request[c].own THEN "active"
                               ELSE IF s \in request[c].revoked THEN "revoked" ELSE session[s]]
  /\ Move(c, Idle)
  /\ UNCHANGED <<created, expired, rollbacks>>

\* logout is one statement of its own
revokeOwn(c) ==
  /\ request[c].pc = "logout"
  /\ ~LockedByOther(request[c].old, c)
  /\ session' = [session EXCEPT ![request[c].old] = "revoked"]
  /\ Move(c, Idle)
  /\ UNCHANGED <<created, expired, rollbacks>>

-----------------------------------------------------------------------------
(* PostgreSQL and time *)

InTransaction(c) == request[c].pc \in {"read", "scan", "revoke", "create", "commit"}

\* c waits for a row that d has locked
WaitsFor(c, d) ==
  /\ c # d
  /\ \/ request[c].pc = "lock" /\ HoldsUser(d)
     \/ request[c].pc \in {"rotate", "logout"} /\ request[c].old \in request[d].revoked
     \/ request[c].pc = "revoke" /\ request[c].target \cap request[d].revoked # {}

\* seeded fault: no deadlock detector
NoVictim(c) == FALSE /\ UNCHANGED vars

\* c waits for itself, through however many others: it is in every set of clients
\* that holds those c waits for and, with each, those that it waits for
Deadlocked(c) ==
  \A S \in SUBSET Clients :
    (\A d \in Clients : WaitsFor(c, d) \/ (\E e \in S : WaitsFor(e, d)) => d \in S) => c \in S

\* the deadlock detector cancels one of the transactions that wait in a circle
deadlockVictim(c) ==
  /\ Deadlocked(c)
  /\ Move(c, Idle)
  /\ UNCHANGED <<session, created, expired, rollbacks>>

\* a statement fails, or the transaction exceeds its time: it is rolled back
rollback(c) ==
  /\ rollbacks < MaxRollbacks
  /\ InTransaction(c)
  /\ Move(c, Idle)
  /\ rollbacks' = rollbacks + 1
  /\ UNCHANGED <<session, created, expired>>

\* the oldest unexpired session reaches its expiresAt
expire ==
  /\ expired < MaxExpired /\ expired < created
  /\ \A c \in Clients : request[c].own # expired + 1
  /\ expired' = expired + 1
  /\ UNCHANGED <<session, created, request, rollbacks>>

-----------------------------------------------------------------------------
Begin(c) ==
  \/ login(c) \/ verifyOtp(c) \/ googleLogin(c) \/ resetPassword(c)
  \/ \E s \in Ids : refreshTokens(c, s) \/ logout(c, s)

Continue(c) ==
  \/ updateUser(c) \/ rotate(c) \/ readActive(c) \/ scan(c)
  \/ (\E s \in Ids : revoke(c, s)) \/ revoked(c) \/ createSession(c) \/ commit(c)
  \/ revokeOwn(c)

Next ==
  \/ \E c \in Clients : Begin(c) \/ Continue(c) \/ deadlockVictim(c) \/ rollback(c)
  \/ expire

\* Statements are answered, row locks are granted in the order they were asked
\* for, and the deadlock detector runs.
Fairness == \A c \in Clients : SF_vars(Continue(c)) /\ WF_vars(deadlockVictim(c))

Spec == Init /\ [][Next]_vars
FairSpec == Spec /\ Fairness

-----------------------------------------------------------------------------
(* Properties *)

Pcs == {"idle", "lock", "rotate", "read", "scan", "revoke", "create", "commit", "logout"}

RequestType ==
  [kind : AllKinds \cup {"none"}, pc : Pcs, old : 0..MaxSessions, revoked : SUBSET Ids,
   keep : SUBSET Ids, target : SUBSET Ids, own : 0..MaxSessions]

\* The types of the rows and of the requests.
TypeOK ==
  /\ session \in [Ids -> {"none", "active", "revoked"}]
  /\ created \in 0..MaxSessions /\ expired \in 0..MaxSessions /\ rollbacks \in Nat
  /\ request \in [Clients -> RequestType]

\* "Max number of concurrent active sessions kept per user": sign-ins, resets and
\* logouts keep to it however they interleave, as the user's row serialises them.
AtMostMaxActive == Cardinality(Active) <= MaxActive

\* Refreshes do not take the user's row, so a refresh can miss the sessions of
\* other transactions in flight: by one for each of them, and no more than that.
ExcessIsBounded == Cardinality(Active) <= MaxActive + Cardinality(Clients) - 1

\* README: "all sessions are invalidated".  When a reset commits no session of the
\* user is active, whatever was signing in or out meanwhile.
ResetLeavesNone ==
  [][\A c \in Clients : request[c].kind = "reset" /\ commit(c) => Active' = {}]_vars

\* Every request ends, whatever rows it waits for: only the deadlock detector
\* may have to cancel one.
RequestsEnd == \A c \in Clients : (request[c].pc # "idle") ~> (request[c].pc = "idle")

List == INSTANCE SessionList WITH
  issued <- {s \in Ids : session[s] # "none"},
  active <- Active

\* Without refreshes the transactions have the effect of one atomic step each:
\* a sign-in issues the newest session and keeps only most recent ones, and no
\* session ever becomes active again.
ImplementsSessionList == List!Spec
=============================================================================
