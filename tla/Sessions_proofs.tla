---------------------------- MODULE Sessions_proofs ----------------------------
(***************************************************************************)
(* Proofs about Sessions.  For every kind of request: the types, and the   *)
(* bound on the excess over the limit.  The user's row serialises the      *)
(* transactions of the sign-ins and the resets.  Where that of a refresh   *)
(* overlaps none that creates a session the limit is kept, where it        *)
(* overlaps no reset a reset leaves no session, and where both hold nobody *)
(* is deadlocked and each transaction has the effect of one step of        *)
(* SessionList.                                                            *)
(***************************************************************************)
EXTENDS Sessions, FiniteSetTheorems, FunctionTheorems, TLAPS

-----------------------------------------------------------------------------
(* The newest of a set of sessions *)

LEMMA SessionsAreFinite == \A S : S \subseteq Ids => IsFiniteSet(S) /\ Cardinality(S) \in Nat
<1>1. IsFiniteSet(Ids)
  BY SessionsAssumption, FS_Interval DEF Ids
<1> QED
  BY <1>1, FS_Subset, FS_CardinalityType

\* orderBy createdAt desc, take n: at most n, all newer than what is left out.
LEMMA NewestAreFewAndNewer ==
  ASSUME NEW S \in SUBSET Ids, NEW n \in Nat
  PROVE  /\ Newest(S, n) \subseteq S
         /\ IsFiniteSet(Newest(S, n)) /\ Cardinality(Newest(S, n)) <= n
         /\ \A k \in Newest(S, n), d \in S \ Newest(S, n) : k > d
<1> DEFINE above(s) == {t \in S : t > s}
           N == Newest(S, n)
           rank == [s \in N |-> Cardinality(above(s))]
<1>1. Ids \subseteq Nat /\ IsFiniteSet(Ids)
  BY SessionsAssumption, FS_Interval DEF Ids
<1>2. IsFiniteSet(S)
  BY <1>1, FS_Subset
<1>3. \A s \in S : IsFiniteSet(above(s)) /\ Cardinality(above(s)) \in Nat
  BY <1>2, FS_Subset, FS_CardinalityType
<1>4. N = {s \in S : Cardinality(above(s)) < n}
  BY DEF Newest
<1>5. ASSUME NEW r \in S, NEW s \in S, r < s
      PROVE  Cardinality(above(s)) < Cardinality(above(r))
  <2>1. above(s) \cup {s} \subseteq above(r)
    <3> SUFFICES ASSUME NEW t \in above(s) \cup {s}
                 PROVE  t \in S /\ t > r
      OBVIOUS
    <3>1. r \in Nat /\ s \in Nat /\ t \in Nat /\ t >= s
      BY <1>1
    <3> QED
      BY <1>5, <3>1
  <2>2. s \notin above(s)
    BY <1>1
  <2> HIDE DEF above
  <2>3. IsFiniteSet(above(s) \cup {s}) /\ Cardinality(above(s) \cup {s}) = Cardinality(above(s)) + 1
    BY <1>3, <2>2, FS_AddElement
  <2>4. Cardinality(above(s) \cup {s}) <= Cardinality(above(r))
    BY <1>3, <2>1, FS_Subset
  <2> QED
    BY <1>3, <2>3, <2>4
<1> HIDE DEF above, N
<1>6. N \subseteq S
  BY <1>4
<1>7. \A k \in N, d \in S \ N : k > d
  <2> SUFFICES ASSUME NEW k \in N, NEW d \in S \ N, d >= k
               PROVE  FALSE
    BY <1>1, <1>6
  <2>1. k \in S /\ Cardinality(above(k)) < n /\ ~(Cardinality(above(d)) < n)
    BY <1>4
  <2>2. k < d
    BY <1>1, <1>6
  <2> QED
    BY <1>3, <1>5, <2>1, <2>2
<1>8. rank \in Injection(N, 0..(n - 1))
  <2>1. rank \in [N -> 0..(n - 1)]
    BY <1>3, <1>4
  <2>2. \A a, b \in N : rank[a] = rank[b] => a = b
    <3> SUFFICES ASSUME NEW a \in N, NEW b \in N, a < b, rank[a] = rank[b]
                 PROVE  FALSE
      BY <1>1, <1>6
    <3> QED
      BY <1>3, <1>5, <1>6
  <2> QED
    BY <2>1, <2>2, Fun_IsInj
<1>9. IsFiniteSet(0..(n - 1)) /\ Cardinality(0..(n - 1)) = n
  BY FS_Interval
<1>10. IsFiniteSet(N) /\ Cardinality(N) <= n
  BY <1>8, <1>9, FS_Injection
<1> QED
  BY <1>6, <1>7, <1>10 DEF N

-----------------------------------------------------------------------------
(* Requests *)

\* The statement that is next fits the kind of the request; the session it revokes
\* and the one it has created are sessions.
Sound(q) ==
  /\ q.kind \in Kinds \cup {"none"}
  /\ q.kind = "none" <=> q.pc = "idle"
  /\ q.pc = "lock" => q.kind \in {"signIn", "reset"}
  /\ q.pc \in {"read", "create"} => q.kind \in {"signIn", "refresh"}
  /\ q.pc \in {"scan", "revoke", "commit"} => q.kind \in {"signIn", "refresh", "reset"}
  /\ q.pc = "rotate" => q.kind = "refresh"
  /\ q.pc = "logout" <=> q.kind = "logout"
  /\ q.kind \in {"refresh", "logout"} => q.old \in Ids
  /\ q.kind = "reset" => q.own = 0
  /\ q.pc = "commit" /\ q.kind # "reset" => q.own \in Ids

Requests == {q \in RequestType : Sound(q)}

\* what a request keeps when it goes on
Same(q, r) == q.kind = r.kind /\ q.old = r.old /\ q.own = r.own

LEMMA IdleIsRequest ==
  Idle \in Requests /\ Idle.kind = "none" /\ Idle.pc = "idle" /\ Idle.revoked = {} /\ Idle.keep = {}
<1>1. 0 \in 0..MaxSessions
  BY SessionsAssumption
<1>2. Idle \in RequestType /\ Idle.kind = "none" /\ Idle.pc = "idle" /\ Idle.revoked = {} /\ Idle.keep = {}
  BY <1>1 DEF Idle, RequestType, AllKinds, Pcs
<1> QED
  BY <1>2 DEF Requests, Sound

Starts == {<<"signIn", "lock">>, <<"refresh", "rotate">>, <<"reset", "lock">>, <<"logout", "logout">>}

LEMMA StartMoves ==
  ASSUME NEW c \in Clients, NEW kind \in Kinds, NEW pc, <<kind, pc>> \in Starts,
         NEW s \in 0..MaxSessions, kind \in {"refresh", "logout"} => s \in Ids, Start(c, kind, pc, s)
  PROVE  \E q \in Requests : /\ Move(c, q) /\ q.kind = kind /\ q.pc = pc /\ q.old = s
                             /\ q.revoked = {} /\ q.keep = {} /\ q.target = {}
<1> DEFINE q == [Idle EXCEPT !.kind = kind, !.pc = pc, !.old = s]
<1>1. Move(c, q)
  BY DEF Start, Move
<1>2. 0 \in 0..MaxSessions /\ kind \in AllKinds /\ pc \in {"lock", "rotate", "logout"} /\ kind # "none"
  BY SessionsAssumption DEF Starts, AllKinds
<1>3. q \in RequestType /\ q.kind = kind /\ q.pc = pc /\ q.old = s /\ q.own = 0
      /\ q.revoked = {} /\ q.keep = {} /\ q.target = {}
  BY <1>2 DEF Idle, RequestType, Pcs
<1> HIDE DEF q
<1>4. q \in Requests
  BY <1>2, <1>3 DEF Requests, Sound, Starts
<1> QED
  BY <1>1, <1>3, <1>4

LEMMA GotoMoves ==
  ASSUME NEW c \in Clients, request[c] \in Requests, NEW p,
         \/ request[c].pc = "lock" /\ p = (IF request[c].kind = "reset" THEN "scan" ELSE "read")
         \/ request[c].pc = "revoke" /\ p = (IF request[c].kind = "reset" THEN "commit" ELSE "create"),
         Move(c, [request[c] EXCEPT !.pc = p])
  PROVE  \E q \in Requests : /\ Move(c, q) /\ Same(q, request[c]) /\ q.pc = p /\ q.revoked = request[c].revoked
                             /\ q.keep = request[c].keep /\ q.target = request[c].target
<1> DEFINE q == [request[c] EXCEPT !.pc = p]
<1>1. p \in Pcs
  BY DEF Pcs
<1>2. q \in RequestType /\ Same(q, request[c]) /\ q.pc = p /\ q.revoked = request[c].revoked
      /\ q.keep = request[c].keep /\ q.target = request[c].target
  BY <1>1 DEF Requests, RequestType, Same
<1> HIDE DEF q
<1>3. q \in Requests
  BY <1>2 DEF Requests, Sound, Same
<1> QED
  BY <1>2, <1>3 DEF q

LEMMA RotateMoves ==
  ASSUME NEW c \in Clients, request[c] \in Requests, rotate(c)
  PROVE  \E q \in Requests : /\ Move(c, q) /\ Same(q, request[c]) /\ q.pc = "read"
                             /\ q.revoked = {request[c].old} /\ q.keep = request[c].keep
<1> DEFINE old == request[c].old
           q == [request[c] EXCEPT !.pc = "read", !.revoked = {old}]
<1>1. Move(c, q) /\ request[c].pc = "rotate"
  BY DEF rotate
<1>2. request[c].kind = "refresh" /\ old \in Ids
  BY <1>1 DEF Requests, Sound
<1> HIDE DEF old
<1>3. q \in RequestType /\ Same(q, request[c]) /\ q.pc = "read" /\ q.revoked = {old} /\ q.keep = request[c].keep
  BY <1>2 DEF Requests, RequestType, Same, Pcs
<1> HIDE DEF q
<1>4. q \in Requests
  BY <1>2, <1>3 DEF Requests, Sound, Same
<1> QED
  BY <1>1, <1>3, <1>4 DEF old

LEMMA ReadMoves ==
  ASSUME NEW c \in Clients, request[c] \in Requests, readActive(c)
  PROVE  \E q \in Requests : /\ Move(c, q) /\ Same(q, request[c]) /\ q.pc = "scan"
                             /\ q.revoked = request[c].revoked /\ q.keep = Newest(Visible(c), MaxActive - 1)
<1> DEFINE keep == Newest(Visible(c), MaxActive - 1)
           q == [request[c] EXCEPT !.pc = "scan", !.keep = keep]
<1>1. Move(c, q) /\ request[c].pc = "read"
  BY DEF readActive
<1>2. keep \in SUBSET Ids
  BY DEF Newest, Visible, Active
<1> HIDE DEF keep
<1>3. q \in RequestType /\ Same(q, request[c]) /\ q.pc = "scan" /\ q.revoked = request[c].revoked /\ q.keep = keep
  BY <1>2 DEF Requests, RequestType, Same, Pcs
<1> HIDE DEF q
<1>4. q \in Requests
  BY <1>1, <1>3 DEF Requests, Sound, Same
<1> QED
  BY <1>1, <1>3, <1>4 DEF keep

LEMMA ScanMoves ==
  ASSUME NEW c \in Clients, request[c] \in Requests, scan(c)
  PROVE  \E q \in Requests : /\ Move(c, q) /\ Same(q, request[c]) /\ q.pc = "revoke"
                             /\ q.revoked = request[c].revoked /\ q.keep = request[c].keep
                             /\ q.target = Visible(c) \ request[c].keep
<1> DEFINE target == Visible(c) \ request[c].keep
           q == [request[c] EXCEPT !.pc = "revoke", !.target = target]
<1>1. Move(c, q) /\ request[c].pc = "scan"
  BY DEF scan
<1>2. target \in SUBSET Ids
  BY DEF Visible, Active
<1> HIDE DEF target
<1>3. q \in RequestType /\ Same(q, request[c]) /\ q.pc = "revoke" /\ q.revoked = request[c].revoked
      /\ q.keep = request[c].keep /\ q.target = target
  BY <1>2 DEF Requests, RequestType, Same, Pcs
<1> HIDE DEF q
<1>4. q \in Requests
  BY <1>1, <1>3 DEF Requests, Sound, Same
<1> QED
  BY <1>1, <1>3, <1>4 DEF target

LEMMA RevokeMoves ==
  ASSUME NEW c \in Clients, request[c] \in Requests, NEW s \in Ids, revoke(c, s)
  PROVE  \E q \in Requests : /\ Move(c, q) /\ Same(q, request[c]) /\ q.pc = "revoke" /\ q.keep = request[c].keep
                             /\ q.target = request[c].target \ {s}
                             /\ q.revoked = request[c].revoked \cup ({s} \cap Active)
<1> DEFINE target == request[c].target \ {s}
           gone == request[c].revoked \cup ({s} \cap Active)
           q == [request[c] EXCEPT !.target = target, !.revoked = gone]
<1>1. Move(c, q) /\ request[c].pc = "revoke"
  BY DEF revoke
<1>2. target \in SUBSET Ids /\ gone \in SUBSET Ids
  BY DEF Requests, RequestType
<1> HIDE DEF target, gone
<1>3. q \in RequestType /\ Same(q, request[c]) /\ q.pc = "revoke" /\ q.keep = request[c].keep
      /\ q.target = target /\ q.revoked = gone
  BY <1>1, <1>2 DEF Requests, RequestType, Same, Pcs
<1> HIDE DEF q
<1>4. q \in Requests
  BY <1>1, <1>3 DEF Requests, Sound, Same
<1> QED
  BY <1>1, <1>3, <1>4 DEF target, gone

LEMMA CreateMoves ==
  ASSUME NEW c \in Clients, request[c] \in Requests, createSession(c), created + 1 \in Ids
  PROVE  \E q \in Requests : /\ Move(c, q) /\ q.kind = request[c].kind /\ q.old = request[c].old /\ q.pc = "commit" /\ q.own = created + 1
                             /\ q.revoked = request[c].revoked /\ q.keep = request[c].keep
                             /\ q.target = request[c].target
<1> DEFINE own == created + 1
           q == [request[c] EXCEPT !.pc = "commit", !.own = own]
<1>1. Move(c, q) /\ request[c].pc = "create"
  BY DEF createSession
<1>2. own \in 0..MaxSessions /\ own \in Ids
  BY DEF Ids
<1> HIDE DEF own
<1>3. q \in RequestType /\ q.kind = request[c].kind /\ q.old = request[c].old /\ q.pc = "commit" /\ q.own = own
      /\ q.revoked = request[c].revoked /\ q.keep = request[c].keep /\ q.target = request[c].target
  BY <1>2 DEF Requests, RequestType, Pcs
<1> HIDE DEF q
<1>4. q \in Requests
  BY <1>1, <1>2, <1>3 DEF Requests, Sound
<1> QED
  BY <1>1, <1>3, <1>4 DEF own

-----------------------------------------------------------------------------
(* Types *)

Creates(q) == q.kind \in {"signIn", "refresh"} /\ q.pc # "commit"

\* Every request that will create a session has one left.
Counted == created \in Nat /\ created + Cardinality(Creating) <= MaxSessions

TablesTyped ==
  /\ session \in [Ids -> {"none", "active", "revoked"}]
  /\ expired \in Nat /\ expired <= created /\ rollbacks \in Nat

Typed == Counted /\ TablesTyped /\ request \in [Clients -> Requests]

\* what a request's step does to the count of the sessions
Tallies(c, q) ==
  /\ Move(c, q)
  /\ \/ /\ created' = created
        /\ ~Creates(q) \/ Creates(request[c]) \/ created + Cardinality(Creating) < MaxSessions
     \/ created' = created + 1 /\ ~Creates(q) /\ Creates(request[c])

LEMMA CreatingIsFinite ==
  ASSUME Typed
  PROVE  /\ IsFiniteSet(Creating) /\ Cardinality(Creating) \in Nat
         /\ \A c \in Clients : Creates(request[c]) => c \in Creating /\ created + 1 \in Ids
<1>1. IsFiniteSet(Creating)
  BY SessionsAssumption, FS_Subset DEF Creating
<1>2. Cardinality(Creating) \in Nat /\ (Creating # {} => Cardinality(Creating) # 0)
  BY <1>1, FS_CardinalityType, FS_EmptySet
<1>3. ASSUME NEW c \in Clients, Creates(request[c])
      PROVE  c \in Creating /\ created + 1 \in Ids
  <2>1. c \in Creating
    BY <1>3 DEF Creates, Creating
  <2> QED
    BY <1>2, <2>1, SessionsAssumption DEF Typed, Counted, Ids
<1> QED
  BY <1>1, <1>2, <1>3

LEMMA TallyKeepsCount ==
  ASSUME Typed, NEW c \in Clients, NEW q \in Requests, Tallies(c, q)
  PROVE  Counted' /\ request' \in [Clients -> Requests]
<1> DEFINE P == Creating  R == Creating'
<1>1. request' \in [Clients -> Requests]
  BY DEF Tallies, Move, Typed
<1>2. P \subseteq Clients /\ R \subseteq Clients /\ \A d \in Clients : d # c => (d \in R <=> d \in P)
  BY DEF Creating, Tallies, Move, Typed
<1>3. (c \in R <=> Creates(q)) /\ (c \in P <=> Creates(request[c]))
  BY DEF Creating, Creates, Tallies, Move, Typed
<1>4. Counted' <=> created' \in Nat /\ created' + Cardinality(R) <= MaxSessions
  BY DEF Counted
<1>5. created \in Nat /\ created + Cardinality(P) <= MaxSessions
  BY DEF Typed, Counted
<1>6. /\ ~Creates(q) \/ Creates(request[c]) \/ created + Cardinality(P) < MaxSessions
      /\ \/ created' = created
         \/ created' = created + 1 /\ ~Creates(q) /\ Creates(request[c])
  BY DEF Tallies
<1> HIDE DEF P, R
<1>7. IsFiniteSet(P) /\ IsFiniteSet(R) /\ Cardinality(P) \in Nat /\ Cardinality(R) \in Nat
  BY <1>2, SessionsAssumption, FS_Subset, FS_CardinalityType
<1>8. Cardinality(R) <= Cardinality(P) + 1
  <2>1. R \subseteq P \cup {c}
    BY <1>2
  <2>2. /\ IsFiniteSet(P \cup {c})
        /\ Cardinality(P \cup {c}) = Cardinality(P) \/ Cardinality(P \cup {c}) = Cardinality(P) + 1
    BY <1>7, FS_AddElement
  <2>3. Cardinality(R) <= Cardinality(P \cup {c})
    BY <2>1, <2>2, FS_Subset
  <2> QED
    BY <1>7, <2>2, <2>3
<1>9. ~Creates(q) \/ Creates(request[c]) => Cardinality(R) <= Cardinality(P)
  <2>1. ~Creates(q) \/ Creates(request[c]) => R \subseteq P
    BY <1>2, <1>3
  <2> QED
    BY <1>7, <2>1, FS_Subset
<1>10. ~Creates(q) /\ Creates(request[c]) => Cardinality(R) = Cardinality(P) - 1
  <2>1. ~Creates(q) /\ Creates(request[c]) => R = P \ {c} /\ c \in P
    BY <1>2, <1>3
  <2> QED
    BY <1>7, <2>1, FS_RemoveElement
<1> QED
  BY <1>1, <1>4, <1>5, <1>6, <1>7, <1>8, <1>9, <1>10, SessionsAssumption

LEMMA BeginTallies ==
  ASSUME Typed, NEW c \in Clients, Begin(c)
  PROVE  /\ UNCHANGED <<session, created, expired, rollbacks>>
         /\ \E q \in Requests : /\ Tallies(c, q) /\ <<q.kind, q.pc>> \in Starts /\ q.kind \in Kinds
                                /\ q.revoked = {} /\ q.keep = {}
                                /\ q.kind \in {"refresh", "logout"} => q.old \in Active
<1>1. UNCHANGED <<session, created, expired, rollbacks>>
  BY DEF Begin, login, verifyOtp, googleLogin, signIn, refreshTokens, resetPassword, logout
<1>2. 0 \in 0..MaxSessions /\ Ids \subseteq 0..MaxSessions
  BY SessionsAssumption DEF Ids
<1>3. ASSUME NEW kind \in {"signIn", "refresh"}, NEW q \in Requests, Move(c, q), q.kind = kind, RoomToCreate
      PROVE  Tallies(c, q)
  BY <1>1, <1>3 DEF RoomToCreate, Tallies
<1>4. CASE signIn(c)
  <2>1. "signIn" \in Kinds /\ RoomToCreate /\ Start(c, "signIn", "lock", 0)
    BY <1>4 DEF signIn, Free
  <2>2. PICK q \in Requests : Move(c, q) /\ q.kind = "signIn" /\ q.pc = "lock" /\ q.revoked = {} /\ q.keep = {}
    BY <1>2, <2>1, StartMoves DEF Starts
  <2> QED
    BY <1>1, <1>3, <2>1, <2>2 DEF Starts
<1>5. ASSUME NEW s \in Ids, refreshTokens(c, s)
      PROVE  \E q \in Requests : /\ Tallies(c, q) /\ q.kind = "refresh" /\ q.pc = "rotate" /\ q.kind \in Kinds
                                 /\ q.revoked = {} /\ q.keep = {} /\ q.old \in Active
  <2>1. "refresh" \in Kinds /\ RoomToCreate /\ Start(c, "refresh", "rotate", s) /\ s \in Active
    BY <1>5 DEF refreshTokens, Free, Valid, Active
  <2>2. PICK q \in Requests : /\ Move(c, q) /\ q.kind = "refresh" /\ q.pc = "rotate" /\ q.old = s
                              /\ q.revoked = {} /\ q.keep = {}
    BY <1>2, <2>1, StartMoves DEF Starts
  <2> QED
    BY <1>3, <2>1, <2>2
<1>6. CASE resetPassword(c)
  <2>1. "reset" \in Kinds /\ Start(c, "reset", "lock", 0)
    BY <1>6 DEF resetPassword, Free
  <2>2. PICK q \in Requests : Move(c, q) /\ q.kind = "reset" /\ q.pc = "lock" /\ q.revoked = {} /\ q.keep = {}
    BY <1>2, <2>1, StartMoves DEF Starts
  <2> QED
    BY <1>1, <2>1, <2>2 DEF Starts, Tallies, Creates
<1>7. ASSUME NEW s \in Ids, logout(c, s)
      PROVE  \E q \in Requests : /\ Tallies(c, q) /\ q.kind = "logout" /\ q.pc = "logout" /\ q.kind \in Kinds
                                 /\ q.revoked = {} /\ q.keep = {} /\ q.old \in Active
  <2>1. "logout" \in Kinds /\ Start(c, "logout", "logout", s) /\ s \in Active
    BY <1>7 DEF logout, Free, Valid, Active
  <2>2. PICK q \in Requests : /\ Move(c, q) /\ q.kind = "logout" /\ q.pc = "logout" /\ q.old = s
                              /\ q.revoked = {} /\ q.keep = {}
    BY <1>2, <2>1, StartMoves DEF Starts
  <2> QED
    BY <1>1, <2>1, <2>2 DEF Tallies, Creates
<1> QED
  BY <1>1, <1>4, <1>5, <1>6, <1>7 DEF Begin, login, verifyOtp, googleLogin, Starts

LEMMA ContinueTallies ==
  ASSUME Typed, NEW c \in Clients, Continue(c) \/ deadlockVictim(c) \/ rollback(c)
  PROVE  \E q \in Requests : Tallies(c, q)
<1>1. request[c] \in Requests /\ Sound(request[c])
  BY DEF Typed, Requests
<1>2. ASSUME created' = created, Move(c, Idle)
      PROVE  \E q \in Requests : Tallies(c, q)
  BY <1>2, IdleIsRequest DEF Tallies, Creates
<1>3. ASSUME created' = created, request[c].pc # "commit",
             NEW q \in Requests, Move(c, q), q.kind = request[c].kind
      PROVE  \E r \in Requests : Tallies(c, r)
  BY <1>3 DEF Tallies, Creates
<1>4. CASE commit(c) \/ revokeOwn(c) \/ deadlockVictim(c) \/ rollback(c)
  BY <1>2, <1>4 DEF commit, revokeOwn, deadlockVictim, rollback
<1>5. CASE updateUser(c) \/ revoked(c)
  BY <1>1, <1>3, <1>5, GotoMoves DEF updateUser, revoked, Same
<1>6. CASE rotate(c)
  BY <1>1, <1>3, <1>6, RotateMoves DEF rotate, Same
<1>7. CASE readActive(c)
  BY <1>1, <1>3, <1>7, ReadMoves DEF readActive, Same
<1>8. CASE scan(c)
  BY <1>1, <1>3, <1>8, ScanMoves DEF scan, Same
<1>9. ASSUME NEW s \in Ids, revoke(c, s)
      PROVE  \E q \in Requests : Tallies(c, q)
  BY <1>1, <1>3, <1>9, RevokeMoves DEF revoke, Same
<1>10. CASE createSession(c)
  <2>1. request[c].pc = "create" /\ request[c].kind \in {"signIn", "refresh"} /\ created' = created + 1
    BY <1>1, <1>10 DEF createSession, Sound
  <2>2. Creates(request[c])
    BY <2>1 DEF Creates
  <2>3. PICK q \in Requests : Move(c, q) /\ q.pc = "commit"
    BY <1>1, <1>10, <2>2, CreateMoves, CreatingIsFinite
  <2> QED
    BY <2>1, <2>2, <2>3 DEF Tallies, Creates
<1> QED
  BY <1>4, <1>5, <1>6, <1>7, <1>8, <1>9, <1>10 DEF Continue

LEMMA StepKeepsTables ==
  ASSUME Typed, [Next]_vars
  PROVE  TablesTyped'
<1>1. TablesTyped /\ created \in Nat /\ request \in [Clients -> Requests]
  BY DEF Typed, Counted
<1>2. CASE UNCHANGED session /\ (created' = created \/ created' = created + 1) /\ rollbacks' \in Nat
            /\ (expired' = expired \/ (expired' = expired + 1 /\ expired < created /\ created' = created))
  BY <1>1, <1>2 DEF TablesTyped
<1>3. CASE UNCHANGED vars
  BY <1>1, <1>2, <1>3 DEF vars, TablesTyped
<1>4. CASE expire
  BY <1>1, <1>2, <1>4 DEF expire, TablesTyped
<1>5. ASSUME NEW c \in Clients, Begin(c) \/ deadlockVictim(c) \/ rollback(c)
      PROVE  TablesTyped'
  BY <1>1, <1>2, <1>5, BeginTallies DEF deadlockVictim, rollback, TablesTyped
<1>6. ASSUME NEW c \in Clients, Continue(c)
      PROVE  TablesTyped'
  <2>1. CASE commit(c)
    BY <1>1, <2>1 DEF commit, TablesTyped
  <2>2. CASE revokeOwn(c)
    BY <1>1, <2>2 DEF revokeOwn, TablesTyped
  <2>3. CASE updateUser(c) \/ rotate(c) \/ readActive(c) \/ scan(c) \/ revoked(c) \/ createSession(c)
             \/ \E s \in Ids : revoke(c, s)
    <3>1. UNCHANGED <<session, expired, rollbacks>> /\ (created' = created \/ created' = created + 1)
      BY <2>3 DEF updateUser, rotate, readActive, scan, revoked, createSession, revoke
    <3> QED
      BY <1>1, <1>2, <3>1 DEF TablesTyped
  <2> QED
    BY <1>6, <2>1, <2>2, <2>3 DEF Continue
<1> QED
  BY <1>3, <1>4, <1>5, <1>6 DEF Next

LEMMA TypedStep == Typed /\ [Next]_vars => Typed'
<1> SUFFICES ASSUME Typed, [Next]_vars
             PROVE  Typed'
  OBVIOUS
<1>1. TablesTyped'
  BY StepKeepsTables
<1>2. CASE UNCHANGED vars
  BY <1>1, <1>2 DEF vars, Typed, Counted, Creating
<1>3. CASE expire
  BY <1>1, <1>3 DEF expire, Typed, Counted, Creating
<1>4. ASSUME NEW c \in Clients, Begin(c) \/ Continue(c) \/ deadlockVictim(c) \/ rollback(c)
      PROVE  Typed'
  BY <1>1, <1>4, BeginTallies, ContinueTallies, TallyKeepsCount DEF Typed
<1> QED
  BY <1>2, <1>3, <1>4 DEF Next

LEMMA TypedInit == Init => Typed
<1> SUFFICES ASSUME Init
             PROVE  Typed
  OBVIOUS
<1>1. Creating = {}
  BY IdleIsRequest DEF Init, Creating
<1> QED
  BY <1>1, IdleIsRequest, FS_EmptySet, SessionsAssumption DEF Init, Typed, Counted, TablesTyped

LEMMA AlwaysTyped == Spec => []Typed
BY TypedInit, TypedStep, PTL DEF Spec

\* The types, whatever the kinds of the requests: every statement is sent by a
\* request that may send it, and the bound on the sessions is kept when a request
\* begins, so that none is stopped half way.
THEOREM TypesHold == Spec => []TypeOK
<1>1. Typed => TypeOK
  <2> SUFFICES ASSUME Typed
               PROVE  TypeOK
    OBVIOUS
  <2>1. created \in 0..MaxSessions /\ expired \in 0..MaxSessions
    BY CreatingIsFinite, SessionsAssumption DEF Typed, Counted, TablesTyped
  <2> QED
    BY <2>1 DEF Typed, TablesTyped, TypeOK, Requests
<1> QED
  BY <1>1, AlwaysTyped, PTL

-----------------------------------------------------------------------------
(* What every transaction keeps to, whatever the others do *)

Transacting(q) == q.pc \in {"read", "scan", "revoke", "create", "commit"}
Revoking == {"revoke", "create", "commit"}

\* The user's row is held: all sign-ins and resets in a transaction.
Holding(q) == q.kind \in {"signIn", "reset"} /\ q.pc \notin {"idle", "lock"}

\* How many sessions a request keeps, and when it has revoked what it is to revoke.
Limited(q) ==
  /\ q.pc = "lock" => q.keep = {}
  /\ q.pc \in Revoking \cup {"scan"} => Cardinality(q.keep) < MaxActive
  /\ q.pc \in {"create", "commit"} => q.target = {}
  /\ q.kind = "reset" => q.keep = {}

\* The user's row has one holder.
RowInv ==
  /\ \A c, d \in Clients : Holding(request[c]) /\ Holding(request[d]) => c = d
  /\ \A c \in Clients : Limited(request[c])

\* Past its scan a transaction keeps, has revoked or is to revoke every active session.
Covers(q) == q.pc \in Revoking => Active \subseteq q.keep \cup q.revoked \cup q.target

\* What a request does to itself when it takes a step.
Goes(c, q) ==
  /\ Move(c, q) /\ Limited(q)
  /\ Holding(q) => Holding(request[c]) \/ \A d \in Clients : ~Holding(request[d])
  /\ q.pc \in Revoking => /\ UNCHANGED session /\ q.kind = request[c].kind
                          /\ Covers(request[c]) => Covers(q)

LEMMA BeginGoes ==
  ASSUME Typed, NEW c \in Clients, Begin(c)
  PROVE  \E q \in Requests : Goes(c, q)
<1>1. PICK q \in Requests : Tallies(c, q) /\ <<q.kind, q.pc>> \in Starts /\ q.keep = {}
  BY BeginTallies
<1>2. q.pc \in {"lock", "rotate", "logout"} /\ ~Holding(q)
  BY <1>1 DEF Starts, Holding
<1> QED
  BY <1>1, <1>2 DEF Goes, Limited, Revoking, Tallies

LEMMA EndGoes ==
  ASSUME NEW c \in Clients, Move(c, Idle)
  PROVE  \E q \in Requests : Goes(c, q)
<1>1. Limited(Idle) /\ ~Holding(Idle) /\ Idle.pc \notin Revoking
  BY IdleIsRequest DEF Limited, Holding, Revoking
<1> QED
  BY <1>1, IdleIsRequest DEF Goes

LEMMA ReadGoes ==
  ASSUME Typed, RowInv, NEW c \in Clients, readActive(c)
  PROVE  \E q \in Requests : Goes(c, q)
<1>1. request[c] \in Requests /\ request[c].pc = "read" /\ request[c].kind \in {"signIn", "refresh"}
  BY DEF Typed, Requests, Sound, readActive
<1>2. PICK q \in Requests : /\ Move(c, q) /\ Same(q, request[c]) /\ q.pc = "scan"
                            /\ q.keep = Newest(Visible(c), MaxActive - 1)
  BY <1>1, ReadMoves
<1>3. Visible(c) \in SUBSET Ids /\ MaxActive - 1 \in Nat /\ MaxActive \in Nat
  BY SessionsAssumption DEF Visible, Active
<1>4. IsFiniteSet(q.keep) /\ Cardinality(q.keep) <= MaxActive - 1
  BY <1>2, <1>3, NewestAreFewAndNewer
<1>5. Cardinality(q.keep) < MaxActive
  BY <1>3, <1>4, FS_CardinalityType
<1> QED
  BY <1>1, <1>2, <1>5 DEF Goes, Limited, Holding, Revoking, Same

LEMMA StepGoes ==
  ASSUME Typed, RowInv, NEW c \in Clients, Begin(c) \/ Continue(c) \/ deadlockVictim(c) \/ rollback(c)
  PROVE  \E q \in Requests : Goes(c, q)
<1>1. request[c] \in Requests /\ Sound(request[c]) /\ Limited(request[c])
  BY DEF Typed, Requests, RowInv
<1>2. Cardinality({}) < MaxActive
  BY FS_EmptySet, SessionsAssumption
<1>3. CASE updateUser(c)
  <2>1. PICK q \in Requests : /\ Move(c, q) /\ Same(q, request[c]) /\ q.keep = request[c].keep
                              /\ q.pc = (IF request[c].kind = "reset" THEN "scan" ELSE "read")
    BY <1>1, <1>3, GotoMoves DEF updateUser
  <2>2. \A d \in Clients : ~Holding(request[d])
    BY <1>3 DEF updateUser, HoldsUser, Holding
  <2> QED
    BY <1>1, <1>2, <1>3, <2>1, <2>2 DEF updateUser, Goes, Limited, Revoking, Same
<1>4. CASE rotate(c)
  <2>1. PICK q \in Requests : Move(c, q) /\ Same(q, request[c]) /\ q.pc = "read"
    BY <1>1, <1>4, RotateMoves
  <2> QED
    BY <1>1, <1>4, <2>1 DEF rotate, Goes, Limited, Holding, Revoking, Same, Sound
<1>5. CASE scan(c)
  <2>1. PICK q \in Requests : /\ Move(c, q) /\ Same(q, request[c]) /\ q.pc = "revoke"
                              /\ q.revoked = request[c].revoked /\ q.keep = request[c].keep
                              /\ q.target = Visible(c) \ request[c].keep
    BY <1>1, <1>5, ScanMoves
  <2>2. Covers(q)
    BY <2>1 DEF Covers, Visible
  <2> QED
    BY <1>1, <1>5, <2>1, <2>2 DEF scan, Goes, Limited, Holding, Revoking, Same
<1>6. ASSUME NEW s \in Ids, revoke(c, s)
      PROVE  \E q \in Requests : Goes(c, q)
  <2>1. PICK q \in Requests : /\ Move(c, q) /\ Same(q, request[c]) /\ q.pc = "revoke" /\ q.keep = request[c].keep
                              /\ q.target = request[c].target \ {s}
                              /\ q.revoked = request[c].revoked \cup ({s} \cap Active)
    BY <1>1, <1>6, RevokeMoves
  <2>2. Covers(request[c]) => Covers(q)
    BY <1>6, <2>1 DEF revoke, Covers, Revoking
  <2> QED
    BY <1>1, <1>6, <2>1, <2>2 DEF revoke, Goes, Limited, Holding, Revoking, Same
<1>7. CASE revoked(c)
  <2>1. PICK q \in Requests : /\ Move(c, q) /\ Same(q, request[c]) /\ q.revoked = request[c].revoked
                              /\ q.pc = (IF request[c].kind = "reset" THEN "commit" ELSE "create")
                              /\ q.keep = request[c].keep /\ q.target = request[c].target
    BY <1>1, <1>7, GotoMoves DEF revoked
  <2>2. Covers(request[c]) => Covers(q)
    BY <1>7, <2>1 DEF revoked, Covers, Revoking
  <2> QED
    BY <1>1, <1>7, <2>1, <2>2 DEF revoked, Goes, Limited, Holding, Revoking, Same
<1>8. CASE createSession(c)
  <2>1. request[c].pc = "create" /\ Creates(request[c])
    BY <1>1, <1>8 DEF createSession, Sound, Creates
  <2>2. PICK q \in Requests : /\ Move(c, q) /\ q.kind = request[c].kind /\ q.pc = "commit"
                              /\ q.revoked = request[c].revoked /\ q.keep = request[c].keep
                              /\ q.target = request[c].target
    BY <1>1, <1>8, <2>1, CreatingIsFinite, CreateMoves
  <2>3. Covers(request[c]) => Covers(q)
    BY <2>1, <2>2 DEF Covers, Revoking
  <2> QED
    BY <1>1, <1>8, <2>1, <2>2, <2>3 DEF createSession, Goes, Limited, Holding, Revoking
<1>9. CASE commit(c) \/ revokeOwn(c) \/ deadlockVictim(c) \/ rollback(c)
  BY <1>9, EndGoes DEF commit, revokeOwn, deadlockVictim, rollback
<1> QED
  BY <1>3, <1>4, <1>5, <1>6, <1>7, <1>8, <1>9, BeginGoes, ReadGoes DEF Continue

LEMMA RowStep == Typed /\ RowInv /\ [Next]_vars => RowInv'
<1> SUFFICES ASSUME Typed, RowInv, [Next]_vars
             PROVE  RowInv'
  OBVIOUS
<1>1. CASE UNCHANGED request
  BY <1>1 DEF RowInv, Holding, Limited
<1>2. ASSUME NEW c \in Clients, NEW q \in Requests, Goes(c, q)
      PROVE  RowInv'
  <2>1. \A d \in Clients : request'[d] = IF d = c THEN q ELSE request[d]
    BY <1>2 DEF Typed, Goes, Move
  <2>2. \A d \in Clients : Limited(request'[d])
    BY <1>2, <2>1 DEF RowInv, Goes
  <2>3. \A d, e \in Clients : Holding(request'[d]) /\ Holding(request'[e]) => d = e
    BY <1>2, <2>1 DEF RowInv, Goes
  <2> QED
    BY <2>2, <2>3 DEF RowInv, Holding, Limited
<1> QED
  BY <1>1, <1>2, StepGoes DEF Next, vars, expire

LEMMA RowInit == Init => RowInv
<1> SUFFICES ASSUME Init
             PROVE  RowInv
  OBVIOUS
<1>1. \A c \in Clients : Limited(request[c]) /\ ~Holding(request[c])
  BY IdleIsRequest DEF Init, Limited, Holding, Revoking
<1> QED
  BY <1>1 DEF RowInv

-----------------------------------------------------------------------------
(***************************************************************************)
(* The limit and the resets.  A transaction covers the active sessions     *)
(* from its scan on, as long as no other one commits a session meanwhile.  *)
(* Two sign-ins, or a sign-in and a reset, exclude each other; of          *)
(* refreshes it has to be said.                                            *)
(***************************************************************************)

\* A step that commits no session leaves no more active ones.
LEMMA OnlyCommitsAdd ==
  ASSUME Typed, [Next]_vars, \A c \in Clients : commit(c) => request[c].kind = "reset"
  PROVE  Active' \subseteq Active
<1>1. UNCHANGED session => Active' = Active
  BY DEF Active
<1>2. ASSUME NEW c \in Clients, commit(c) PROVE Active' \subseteq Active
  <2>1. request[c].own \notin Ids
    BY <1>2 DEF Typed, Requests, Sound, Ids
  <2> QED
    BY <1>2, <2>1 DEF commit, Active
<1>3. ASSUME NEW c \in Clients, revokeOwn(c) PROVE Active' \subseteq Active
  BY <1>3 DEF revokeOwn, Active, Typed, TablesTyped
<1>4. ASSUME NEW c \in Clients, Begin(c) \/ deadlockVictim(c) \/ rollback(c)
      PROVE  UNCHANGED session
  BY <1>4, BeginTallies DEF deadlockVictim, rollback
<1>5. ASSUME NEW c \in Clients, Continue(c), ~commit(c), ~revokeOwn(c)
      PROVE  UNCHANGED session
  BY <1>5 DEF Continue, updateUser, rotate, readActive, scan, revoke, revoked, createSession
<1> QED
  BY <1>1, <1>2, <1>3, <1>4, <1>5 DEF Next, vars, expire

LEMMA CoverStays ==
  ASSUME Typed, RowInv, [Next]_vars, NEW c \in Clients, Covers(request[c]),
         \A d \in Clients \ {c} : commit(d) => request[d].kind = "reset"
  PROVE  Covers(request[c])'
<1>1. ASSUME request'[c] = request[c], ~commit(c) PROVE Covers(request[c])'
  BY <1>1, OnlyCommitsAdd DEF Covers
<1>2. ASSUME NEW q \in Requests, Goes(c, q) PROVE Covers(request[c])'
  <2>1. request'[c] = q
    BY <1>2 DEF Typed, Goes, Move
  <2> QED
    BY <1>2, <2>1 DEF Goes, Covers, Active
<1>3. ASSUME commit(c) PROVE Covers(request[c])'
  <2>1. request'[c] = Idle
    BY <1>3 DEF Typed, commit, Move
  <2> QED
    BY <2>1, IdleIsRequest DEF Covers, Revoking
<1>4. ASSUME NEW d \in Clients, d # c, Begin(d) \/ Continue(d) \/ deadlockVictim(d) \/ rollback(d)
      PROVE  request'[c] = request[c]
  BY <1>4, StepGoes DEF Goes, Move, Typed
<1> QED
  BY <1>1, <1>2, <1>3, <1>4, StepGoes DEF Next, vars, expire

\* No transaction of a refresh overlaps another one that creates a session.
CreationsApart ==
  \A c, d \in Clients :
    (InTransaction(c) /\ InTransaction(d) /\ request[c].kind = "refresh" /\ request[d].kind # "reset") => c = d

LimitInv ==
  /\ Cardinality(Active) <= MaxActive
  /\ \A c \in Clients : request[c].kind # "reset" => Covers(request[c])

LEMMA LimitStep == CreationsApart /\ Typed /\ RowInv /\ LimitInv /\ [Next]_vars => LimitInv'
<1> SUFFICES ASSUME CreationsApart, Typed, RowInv, LimitInv, [Next]_vars
             PROVE  LimitInv'
  OBVIOUS
<1>1. ASSUME NEW c \in Clients, request'[c].kind # "reset" PROVE Covers(request[c])'
  <2> SUFFICES ASSUME request'[c].pc \in Revoking PROVE Covers(request[c])'
    BY DEF Covers
  <2>1. request[c].kind # "reset"
    <3>1. ASSUME NEW q \in Requests, Goes(c, q) PROVE request[c].kind # "reset"
      BY <1>1, <3>1 DEF Goes, Move, Typed
    <3>2. ASSUME NEW d \in Clients, d # c, NEW q \in Requests, Goes(d, q) PROVE request[c].kind # "reset"
      BY <1>1, <3>2 DEF Goes, Move, Typed
    <3> QED
      BY <1>1, <3>1, <3>2, StepGoes DEF Next, vars, expire
  <2>2. ASSUME NEW d \in Clients \ {c}, commit(d), request[d].kind # "reset" PROVE FALSE
    <3>1. request[c].pc \in Revoking /\ request[d].pc = "commit"
      BY <2>2 DEF commit, Move, Typed
    <3>2. /\ request[c].kind \in {"signIn", "refresh"} /\ request[d].kind \in {"signIn", "refresh"}
          /\ InTransaction(c) /\ InTransaction(d)
      BY <2>1, <2>2, <3>1 DEF Typed, Requests, Sound, Revoking, InTransaction
    <3>3. CASE request[c].kind = "signIn" /\ request[d].kind = "signIn"
      BY <3>1, <3>3 DEF RowInv, Holding, Revoking
    <3> QED
      BY <3>2, <3>3 DEF CreationsApart
  <2> QED
    BY <2>1, <2>2, CoverStays DEF LimitInv
<1>2. Cardinality(Active') <= MaxActive
  <2>1. CASE \A c \in Clients : commit(c) => request[c].kind = "reset"
    <3>1. IsFiniteSet(Active) /\ Cardinality(Active) \in Nat
      BY SessionsAreFinite DEF Active
    <3>2. IsFiniteSet(Active') /\ Cardinality(Active') <= Cardinality(Active) /\ Cardinality(Active') \in Nat
      BY <2>1, <3>1, OnlyCommitsAdd, FS_Subset, FS_CardinalityType
    <3> QED
      BY <3>1, <3>2, SessionsAssumption DEF LimitInv
  <2>2. ASSUME NEW c \in Clients, commit(c), request[c].kind # "reset"
        PROVE  Cardinality(Active') <= MaxActive
    <3> DEFINE keep == request[c].keep
    <3>1. /\ keep \subseteq Ids /\ Cardinality(keep) < MaxActive
          /\ Active \subseteq keep \cup request[c].revoked
      BY <2>2 DEF commit, LimitInv, Covers, RowInv, Limited, Revoking, Typed, Requests, RequestType
    <3>2. Active' \subseteq keep \cup {request[c].own}
      <4>1. Active' \subseteq (Active \ request[c].revoked) \cup {request[c].own}
        BY <2>2 DEF commit, Active
      <4> QED
        BY <3>1, <4>1
    <3> HIDE DEF keep
    <3>3. IsFiniteSet(keep) /\ Cardinality(keep) \in Nat
      BY <3>1, SessionsAreFinite
    <3>4. /\ IsFiniteSet(keep \cup {request[c].own})
          /\ \/ Cardinality(keep \cup {request[c].own}) = Cardinality(keep)
             \/ Cardinality(keep \cup {request[c].own}) = Cardinality(keep) + 1
      BY <3>3, FS_AddElement
    <3>5. IsFiniteSet(Active') /\ Cardinality(Active') <= Cardinality(keep \cup {request[c].own})
      BY <3>2, <3>4, FS_Subset
    <3>6. Cardinality(Active') \in Nat
      BY <3>5, FS_CardinalityType
    <3> QED
      BY <3>1, <3>3, <3>4, <3>5, <3>6, SessionsAssumption
  <2> QED
    BY <2>1, <2>2
<1> QED
  BY <1>1, <1>2 DEF LimitInv

\* "Max number of concurrent active sessions kept per user": any number of sign-ins,
\* resets and logouts keep to it, however they interleave, since each transaction
\* updates the user's row first; and refreshes do, whatever resets they overlap, where
\* none overlaps a sign-in or another refresh.
THEOREM TheLimitIsKept == Spec /\ []CreationsApart => []AtMostMaxActive
<1>1. Init => RowInv /\ LimitInv
  <2> SUFFICES ASSUME Init PROVE LimitInv
    BY RowInit
  <2>1. Active = {} /\ \A c \in Clients : request[c].pc \notin Revoking
    BY IdleIsRequest DEF Init, Active, Revoking
  <2> QED
    BY <2>1, FS_EmptySet, SessionsAssumption DEF LimitInv, Covers
<1>2. LimitInv => AtMostMaxActive
  BY DEF LimitInv, AtMostMaxActive
<1> QED
  BY <1>1, <1>2, AlwaysTyped, RowStep, LimitStep, PTL DEF Spec

\* No transaction of a refresh overlaps that of a reset.
ResetsApart ==
  \A c, d \in Clients :
    InTransaction(c) /\ InTransaction(d) /\ request[c].kind = "refresh" => request[d].kind # "reset"

ResetInv == \A c \in Clients : request[c].kind = "reset" => Covers(request[c])

LEMMA ResetStep == ResetsApart /\ Typed /\ RowInv /\ ResetInv /\ [Next]_vars => ResetInv'
<1> SUFFICES ASSUME ResetsApart, Typed, RowInv, ResetInv, [Next]_vars,
                    NEW c \in Clients, request'[c].kind = "reset", request'[c].pc \in Revoking
             PROVE  Covers(request[c])'
  BY DEF ResetInv, Covers
<1>1. request[c].kind = "reset"
  <2>1. ASSUME NEW q \in Requests, Goes(c, q) PROVE request[c].kind = "reset"
    BY <2>1 DEF Goes, Move, Typed
  <2>2. ASSUME NEW d \in Clients, d # c, NEW q \in Requests, Goes(d, q) PROVE request[c].kind = "reset"
    BY <2>2 DEF Goes, Move, Typed
  <2> QED
    BY <2>1, <2>2, StepGoes DEF Next, vars, expire
<1>2. ASSUME NEW d \in Clients \ {c}, commit(d), request[d].kind # "reset" PROVE FALSE
  <2>1. request[c].pc \in Revoking /\ request[d].pc = "commit"
    BY <1>2 DEF commit, Move, Typed
  <2>2. request[d].kind \in {"signIn", "refresh"} /\ InTransaction(c) /\ InTransaction(d)
    BY <1>2, <2>1 DEF Typed, Requests, Sound, Revoking, InTransaction
  <2>3. CASE request[d].kind = "signIn"
    BY <1>1, <2>1, <2>3 DEF RowInv, Holding, Revoking
  <2> QED
    BY <1>1, <2>2, <2>3 DEF ResetsApart
<1> QED
  BY <1>1, <1>2, CoverStays DEF ResetInv

\* "all sessions are invalidated": when a reset commits, no session is active, whoever
\* was signing in or out or waited to refresh meanwhile, unless the transaction of a
\* refresh has overlapped it.
THEOREM ResetsLeaveNone == Spec /\ []ResetsApart => ResetLeavesNone
<1> DEFINE Emptied == \A c \in Clients : request[c].kind = "reset" /\ commit(c) => Active' = {}
<1>1. Init => RowInv /\ ResetInv
  <2> SUFFICES ASSUME Init PROVE ResetInv
    BY RowInit
  <2>1. \A c \in Clients : request[c].pc \notin Revoking
    BY IdleIsRequest DEF Init, Revoking
  <2> QED
    BY <2>1 DEF ResetInv, Covers
<1>2. Typed /\ RowInv /\ ResetInv => Emptied
  <2> SUFFICES ASSUME Typed, RowInv, ResetInv, NEW c \in Clients, request[c].kind = "reset", commit(c)
               PROVE  Active' = {}
    OBVIOUS
  <2>1. Active \subseteq request[c].revoked
    BY DEF commit, ResetInv, Covers, RowInv, Limited, Revoking
  <2>2. request[c].own \notin Ids
    BY DEF Typed, Requests, Sound, Ids
  <2> QED
    BY <2>1, <2>2 DEF commit, Active
<1>3. Spec /\ []ResetsApart => [][Emptied]_vars
  BY <1>1, <1>2, AlwaysTyped, RowStep, ResetStep, PTL DEF Spec
<1> QED
  BY <1>3 DEF ResetLeavesNone

-----------------------------------------------------------------------------
(* The user's row serialises the transactions, if refreshes overlap none *)

\* The transaction of a refresh meets no other: from its first statement to its commit
\* it is alone, but for logouts and for requests that have not begun theirs yet.
RefreshesAlone == CreationsApart /\ ResetsApart

\* the session a refresh has replaced, active or not
Rotated(q) == IF q.kind = "refresh" /\ Transacting(q) THEN {q.old} ELSE {}

\* What a transaction knows stays so until it ends: its list of sessions to keep is of
\* the newest it sees, what it has revoked is still active in the table, but perhaps
\* for the session it replaces, and every active session is kept, revoked or about to be.
Held(q) ==
  /\ Rotated(q) \subseteq q.revoked /\ q.revoked \subseteq Active \cup Rotated(q)
  /\ q.pc \notin Revoking => q.revoked = Rotated(q)
  /\ q.pc \in Revoking \cup {"scan"} => Cardinality(q.keep) < MaxActive
  /\ q.pc = "scan" => \A k \in q.keep, d \in (Active \ q.revoked) \ q.keep : k > d
  /\ q.pc \in Revoking => /\ \A k \in q.keep, d \in (q.revoked \ Rotated(q)) \cup q.target : k > d
                          /\ Active \subseteq q.keep \cup q.revoked \cup q.target
  /\ q.pc \in {"create", "commit"} => q.target = {}
  /\ q.pc = "commit" /\ q.kind # "reset" =>
       created = q.own /\ \A s \in Ids : session[s] # "none" => s < q.own
  /\ q.kind = "reset" => q.keep = {}
  /\ q.kind \in {"refresh", "logout"} => session[q.old] # "none"

OneAtATime == \A c, d \in Clients : Transacting(request[c]) /\ Transacting(request[d]) => c = d
InOrder == \A s \in Ids : session[s] # "none" => s <= created

SerialInv ==
  /\ OneAtATime /\ InOrder
  /\ \A c \in Clients : Held(request[c])

\* Who holds no transaction knows nothing that a step of another could change.
LEMMA OutsideIsHeld ==
  ASSUME NEW q \in Requests, ~Transacting(q), Held(q), \A s \in Ids : session[s] # "none" => session'[s] # "none"
  PROVE  Held(q)'
<1>1. Sound(q) /\ Rotated(q) = {} /\ q.revoked = {}
  BY DEF Requests, Held, Transacting, Revoking, Rotated
<1>2. q.pc \notin Revoking \cup {"scan", "create", "commit"}
  BY DEF Transacting, Revoking
<1> QED
  BY <1>1, <1>2 DEF Held, Sound, Rotated

\* A step that leaves the tables alone: the request that takes it must hold what it
\* then knows, and no other transaction may be open when it takes it.
LEMMA QuietKeepsSerial ==
  ASSUME Typed, SerialInv, NEW c \in Clients, NEW q \in Requests, Move(c, q), UNCHANGED <<session, created>>,
         Held(q), Transacting(q) => \A d \in Clients : Transacting(request[d]) => d = c
  PROVE  SerialInv'
<1>1. \A d \in Clients : request'[d] = IF d = c THEN q ELSE request[d]
  BY DEF Typed, Move
<1>2. Active' = Active
  BY DEF Active
<1>3. \A d \in Clients : Held(request'[d])
  BY <1>1 DEF SerialInv
<1>4. \A d \in Clients : Held(request[d])'
  BY <1>2, <1>3 DEF Held, Rotated
<1>5. OneAtATime'
  BY <1>1 DEF SerialInv, OneAtATime, Transacting
<1> QED
  BY <1>2, <1>4, <1>5 DEF SerialInv, InOrder

LEMMA IdleIsHeld == Held(Idle)
BY IdleIsRequest DEF Held, Revoking, Rotated, Transacting

LEMMA BeginKeepsSerial ==
  ASSUME Typed, SerialInv, NEW c \in Clients, Begin(c)
  PROVE  SerialInv'
<1>1. PICK q \in Requests : /\ Tallies(c, q) /\ <<q.kind, q.pc>> \in Starts /\ q.revoked = {} /\ q.keep = {}
                            /\ q.kind \in {"refresh", "logout"} => q.old \in Active
  BY BeginTallies
<1>2. UNCHANGED <<session, created>> /\ Move(c, q)
  BY <1>1, BeginTallies DEF Tallies
<1>3. q.pc \in {"lock", "rotate", "logout"} /\ ~Transacting(q)
  BY <1>1 DEF Starts, Transacting
<1>4. Rotated(q) = {}
  BY <1>3 DEF Rotated
<1>5. Held(q)
  BY <1>1, <1>3, <1>4 DEF Held, Revoking, Active, Starts
<1> QED
  BY <1>2, <1>3, <1>5, QuietKeepsSerial

\* The first statement of a sign-in and of a reset waits for every other one of them.
LEMMA LockKeepsSerial ==
  ASSUME RefreshesAlone', Typed, SerialInv, NEW c \in Clients, updateUser(c)
  PROVE  SerialInv'
<1>1. request[c].pc = "lock" /\ request[c] \in Requests /\ Held(request[c]) /\ UNCHANGED <<session, created>>
  BY DEF updateUser, Typed, SerialInv
<1>2. PICK q \in Requests : /\ Move(c, q) /\ Same(q, request[c]) /\ q.revoked = request[c].revoked
                            /\ q.pc = (IF request[c].kind = "reset" THEN "scan" ELSE "read")
                            /\ q.keep = request[c].keep /\ q.target = request[c].target
  BY <1>1, GotoMoves DEF updateUser
<1>3. ASSUME NEW d \in Clients, Transacting(request[d])
      PROVE  d = c
  <2>1. request[d].kind = "refresh"
    BY <1>3 DEF updateUser, HoldsUser, Transacting, Typed, Requests, Sound
  <2>2. request'[c] = q /\ (d # c => request'[d] = request[d])
    BY <1>2 DEF Move, Typed
  <2>3. q.pc \in {"scan", "read"}
    BY <1>2
  <2> QED
    BY <1>3, <2>1, <2>2, <2>3 DEF RefreshesAlone, CreationsApart, ResetsApart, InTransaction, Transacting
<1>4. Cardinality({}) = 0 /\ MaxActive > 0
  BY FS_EmptySet, SessionsAssumption
<1>5. q.kind \in {"signIn", "reset"} /\ Rotated(q) = {} /\ request[c].revoked = {}
  BY <1>1, <1>2 DEF Held, Revoking, Same, Rotated, Transacting, Requests, Sound
<1>6. Held(q)
  BY <1>1, <1>2, <1>4, <1>5 DEF Held, Revoking, Same
<1> QED
  BY <1>1, <1>2, <1>3, <1>6, QuietKeepsSerial

\* That of a refresh waits for nobody but who has revoked the same session.
LEMMA RotateKeepsSerial ==
  ASSUME RefreshesAlone', Typed, SerialInv, NEW c \in Clients, rotate(c)
  PROVE  SerialInv'
<1>1. request[c].pc = "rotate" /\ request[c] \in Requests /\ Held(request[c]) /\ UNCHANGED <<session, created>>
  BY DEF rotate, Typed, SerialInv
<1>2. PICK q \in Requests : /\ Move(c, q) /\ Same(q, request[c]) /\ q.pc = "read"
                            /\ q.revoked = {request[c].old} /\ q.keep = request[c].keep
  BY <1>1, RotateMoves
<1>3. q.kind = "refresh" /\ q.old = request[c].old /\ Rotated(q) = {q.old}
  BY <1>1, <1>2 DEF Requests, Sound, Same, Rotated, Transacting
<1>4. ASSUME NEW d \in Clients, Transacting(request[d])
      PROVE  d = c
  <2>1. request'[c] = q /\ (d # c => request'[d] = request[d])
    BY <1>2 DEF Move, Typed
  <2> QED
    BY <1>2, <1>3, <1>4, <2>1 DEF RefreshesAlone, CreationsApart, ResetsApart, InTransaction, Transacting
<1>5. Held(q)
  BY <1>1, <1>2, <1>3 DEF Held, Revoking
<1> QED
  BY <1>1, <1>2, <1>4, <1>5, QuietKeepsSerial

\* From there on the request is the one that is in a transaction.
LEMMA HolderIsAlone ==
  ASSUME Typed, SerialInv, NEW c \in Clients, Transacting(request[c])
  PROVE  /\ request[c] \in Requests /\ Sound(request[c]) /\ Held(request[c])
         /\ request[c].kind \in {"signIn", "refresh", "reset"}
         /\ \A d \in Clients : Transacting(request[d]) => d = c
<1>1. request[c] \in Requests /\ Sound(request[c]) /\ Held(request[c])
  BY DEF Typed, SerialInv, Requests
<1> QED
  BY <1>1 DEF SerialInv, OneAtATime, Transacting, Sound

LEMMA ReadKeepsSerial ==
  ASSUME Typed, SerialInv, NEW c \in Clients, readActive(c)
  PROVE  SerialInv'
<1>1. request[c].pc = "read" /\ UNCHANGED <<session, created>>
  BY DEF readActive
<1>2. /\ request[c] \in Requests /\ Held(request[c]) /\ request[c].kind \in {"signIn", "refresh"}
      /\ \A d \in Clients : Transacting(request[d]) => d = c
  BY <1>1, HolderIsAlone DEF Sound, Transacting
<1>3. PICK q \in Requests : /\ Move(c, q) /\ Same(q, request[c]) /\ q.pc = "scan"
                            /\ q.revoked = request[c].revoked /\ q.keep = Newest(Visible(c), MaxActive - 1)
  BY <1>2, ReadMoves
<1>4. request[c].revoked = Rotated(q) /\ Rotated(q) = Rotated(request[c])
  BY <1>1, <1>2, <1>3 DEF Held, Revoking, Rotated, Transacting, Same
<1>5. MaxActive - 1 \in Nat /\ Visible(c) \in SUBSET Ids /\ MaxActive \in Nat
  BY SessionsAssumption DEF Active, Visible
<1> DEFINE keep == Newest(Visible(c), MaxActive - 1)
<1>6. /\ IsFiniteSet(keep) /\ Cardinality(keep) <= MaxActive - 1
      /\ \A k \in keep, d \in Visible(c) \ keep : k > d
  BY <1>5, NewestAreFewAndNewer
<1>7. q.keep = keep
  BY <1>3
<1> HIDE DEF keep
<1>8. Cardinality(keep) < MaxActive
  BY <1>5, <1>6, FS_CardinalityType
<1>9. Held(q)
  BY <1>2, <1>3, <1>4, <1>6, <1>7, <1>8 DEF Held, Revoking, Same, Visible
<1> QED
  BY <1>1, <1>2, <1>3, <1>9, QuietKeepsSerial

LEMMA ScanKeepsSerial ==
  ASSUME Typed, SerialInv, NEW c \in Clients, scan(c)
  PROVE  SerialInv'
<1>1. request[c].pc = "scan" /\ UNCHANGED <<session, created>>
  BY DEF scan
<1>2. /\ request[c] \in Requests /\ Held(request[c])
      /\ \A d \in Clients : Transacting(request[d]) => d = c
  BY <1>1, HolderIsAlone DEF Transacting
<1>3. PICK q \in Requests : /\ Move(c, q) /\ Same(q, request[c]) /\ q.pc = "revoke"
                            /\ q.revoked = request[c].revoked /\ q.keep = request[c].keep
                            /\ q.target = Visible(c) \ request[c].keep
  BY <1>2, ScanMoves
<1>4. request[c].revoked = Rotated(q) /\ Rotated(q) = Rotated(request[c])
  BY <1>1, <1>2, <1>3 DEF Held, Revoking, Rotated, Transacting, Same
<1>5. Held(q)
  BY <1>1, <1>2, <1>3, <1>4 DEF Held, Revoking, Same, Visible
<1> QED
  BY <1>1, <1>2, <1>3, <1>5, QuietKeepsSerial

LEMMA RevokeKeepsSerial ==
  ASSUME Typed, SerialInv, NEW c \in Clients, NEW s \in Ids, revoke(c, s)
  PROVE  SerialInv'
<1>1. request[c].pc = "revoke" /\ s \in request[c].target /\ UNCHANGED <<session, created>>
  BY DEF revoke
<1>2. /\ request[c] \in Requests /\ Held(request[c])
      /\ \A d \in Clients : Transacting(request[d]) => d = c
  BY <1>1, HolderIsAlone DEF Transacting
<1>3. PICK q \in Requests : /\ Move(c, q) /\ Same(q, request[c]) /\ q.pc = "revoke" /\ q.keep = request[c].keep
                            /\ q.target = request[c].target \ {s}
                            /\ q.revoked = request[c].revoked \cup ({s} \cap Active)
  BY <1>2, RevokeMoves
<1>4. Rotated(q) = Rotated(request[c])
  BY <1>1, <1>3 DEF Rotated, Transacting, Same
<1>5. Held(q)
  BY <1>1, <1>2, <1>3, <1>4 DEF Held, Revoking, Same
<1> QED
  BY <1>1, <1>2, <1>3, <1>5, QuietKeepsSerial

LEMMA RevokedKeepsSerial ==
  ASSUME Typed, SerialInv, NEW c \in Clients, revoked(c)
  PROVE  SerialInv'
<1>1. request[c].pc = "revoke" /\ request[c].target = {} /\ UNCHANGED <<session, created>>
  BY DEF revoked
<1>2. /\ request[c] \in Requests /\ Held(request[c]) /\ request[c].kind \in {"signIn", "refresh", "reset"}
      /\ \A d \in Clients : Transacting(request[d]) => d = c
  BY <1>1, HolderIsAlone DEF Transacting
<1>3. PICK q \in Requests : /\ Move(c, q) /\ Same(q, request[c]) /\ q.revoked = request[c].revoked
                            /\ q.pc = (IF request[c].kind = "reset" THEN "commit" ELSE "create")
                            /\ q.keep = request[c].keep /\ q.target = request[c].target
  BY <1>1, <1>2, GotoMoves DEF revoked
<1>4. Rotated(q) = Rotated(request[c])
  BY <1>1, <1>3 DEF Rotated, Transacting, Same
<1>5. Held(q)
  BY <1>1, <1>2, <1>3, <1>4 DEF Held, Revoking, Same
<1> QED
  BY <1>1, <1>2, <1>3, <1>5, QuietKeepsSerial

LEMMA CancelKeepsSerial ==
  ASSUME Typed, SerialInv, NEW c \in Clients, deadlockVictim(c) \/ rollback(c)
  PROVE  SerialInv'
<1>1. Move(c, Idle) /\ UNCHANGED <<session, created>>
  BY DEF deadlockVictim, rollback
<1>2. Idle \in Requests /\ ~Transacting(Idle)
  BY IdleIsRequest DEF Transacting
<1> QED
  BY <1>1, <1>2, IdleIsHeld, QuietKeepsSerial

LEMMA CreateKeepsSerial ==
  ASSUME Typed, SerialInv, NEW c \in Clients, createSession(c)
  PROVE  SerialInv'
<1>1. request[c].pc = "create" /\ session' = session /\ created' = created + 1 /\ created \in Nat
  BY DEF createSession, Typed, Counted
<1>2. /\ request[c] \in Requests /\ Held(request[c]) /\ request[c].kind \in {"signIn", "refresh"} /\ Transacting(request[c])
      /\ \A d \in Clients : Transacting(request[d]) => d = c
  BY <1>1, HolderIsAlone DEF Sound, Transacting
<1>3. created + 1 \in Ids
  BY <1>1, <1>2, CreatingIsFinite DEF Creates
<1>4. PICK q \in Requests : /\ Move(c, q) /\ q.kind = request[c].kind /\ q.old = request[c].old /\ q.pc = "commit" /\ q.own = created + 1
                            /\ q.revoked = request[c].revoked /\ q.keep = request[c].keep
                            /\ q.target = request[c].target
  BY <1>2, <1>3, CreateMoves
<1>5. \A d \in Clients : request'[d] = IF d = c THEN q ELSE request[d]
  BY <1>4 DEF Typed, Move
<1>6. Active' = Active /\ InOrder /\ Ids \subseteq Nat
  BY <1>1, SessionsAssumption DEF Active, SerialInv, Ids
<1>7. InOrder' /\ \A s \in Ids : session'[s] # "none" => s < q.own
  <2> SUFFICES ASSUME NEW s \in Ids, session[s] # "none"
               PROVE  s <= created' /\ s < q.own
    BY <1>1 DEF InOrder
  <2>1. s \in Nat /\ s <= created
    BY <1>6 DEF InOrder
  <2> QED
    BY <1>1, <1>4, <2>1
<1>8. ASSUME NEW d \in Clients
      PROVE  Held(request[d])'
  <2>1. CASE d = c
    <3>1. Rotated(q) = Rotated(request[c]) /\ session'[q.old] = session[q.old]
      BY <1>1, <1>4 DEF Rotated, Transacting
    <3>2. Held(q)'
      BY <1>1, <1>2, <1>4, <1>6, <1>7, <3>1 DEF Held, Revoking, Rotated, Transacting
    <3> QED
      BY <1>5, <2>1, <3>2 DEF Held, Rotated
  <2>2. CASE d # c
    <3>1. ~Transacting(request[d]) /\ request[d] \in Requests /\ Held(request[d]) /\ request'[d] = request[d]
      BY <1>2, <1>5, <2>2 DEF Typed, SerialInv
    <3>2. \A s \in Ids : session[s] # "none" => session'[s] # "none"
      BY <1>1
    <3> QED
      BY <3>1, <3>2, OutsideIsHeld DEF Held, Rotated
  <2> QED
    BY <2>1, <2>2
<1>9. OneAtATime'
  BY <1>2, <1>5 DEF OneAtATime
<1> QED
  BY <1>6, <1>7, <1>8, <1>9 DEF SerialInv

\* what the transaction of the holder leaves of the sessions when it commits
LEMMA CommitLeaves ==
  ASSUME Typed, SerialInv, NEW c \in Clients, commit(c)
  PROVE  /\ Active \ request[c].revoked \subseteq request[c].keep
         /\ \A s \in Ids : /\ session[s] # "none" => session'[s] # "none"
                           /\ session'[s] # "none" => session[s] # "none" \/ s = request[c].own
         /\ request[c].kind = "reset" => Active' = {} /\ request[c].own \notin Ids
         /\ request[c].kind # "reset" => /\ Active' = (Active \ request[c].revoked) \cup {request[c].own}
                                         /\ request[c].own \in Ids /\ session'[request[c].own] # "none"
<1>1. request[c].pc = "commit"
  BY DEF commit
<1>2. Held(request[c]) /\ Sound(request[c]) /\ request[c].kind \in {"signIn", "refresh", "reset"}
  BY <1>1, HolderIsAlone DEF Transacting
<1> DEFINE own == request[c].own  gone == request[c].revoked
<1>3. /\ session' = [s \in Ids |-> IF s = own THEN "active" ELSE IF s \in gone THEN "revoked" ELSE session[s]]
      /\ 0 \notin Ids
  BY DEF commit, Ids
<1>4. Active \ gone \subseteq request[c].keep /\ \A s \in gone : session[s] # "none"
  BY <1>1, <1>2 DEF Held, Revoking, Rotated, Active
<1>5. /\ request[c].kind = "reset" => own \notin Ids /\ request[c].keep = {}
      /\ request[c].kind # "reset" => own \in Ids
  BY <1>1, <1>2, <1>3 DEF Held, Sound
<1> HIDE DEF own, gone
<1>6. Active' = {s \in Ids : s = own \/ (s \notin gone /\ s \in Active)}
  BY <1>3 DEF Active
<1>7. \A s \in Ids : /\ session[s] # "none" => session'[s] # "none"
                     /\ session'[s] # "none" => session[s] # "none" \/ s = own
  BY <1>3, <1>4 DEF Active
<1>8. own \in Ids => session'[own] # "none"
  BY <1>3
<1>9. own \in Ids => Active' = (Active \ gone) \cup {own}
  BY <1>6 DEF Active
<1> QED
  BY <1>4, <1>5, <1>6, <1>7, <1>8, <1>9 DEF own, gone

LEMMA CommitKeepsSerial ==
  ASSUME Typed, SerialInv, NEW c \in Clients, commit(c)
  PROVE  SerialInv'
<1>1. request[c].pc = "commit" /\ Move(c, Idle) /\ created' = created
  BY DEF commit
<1>2. /\ request[c] \in Requests /\ Held(request[c]) /\ request[c].kind \in {"signIn", "refresh", "reset"}
      /\ \A d \in Clients : Transacting(request[d]) => d = c
  BY <1>1, HolderIsAlone DEF Transacting
<1>3. \A d \in Clients : request'[d] = IF d = c THEN Idle ELSE request[d]
  BY <1>1 DEF Typed, Move
<1>4. Idle \in Requests /\ ~Transacting(Idle)
  BY IdleIsRequest DEF Transacting
<1>5. \A s \in Ids : session[s] # "none" => session'[s] # "none"
  BY CommitLeaves
<1>6. ASSUME NEW d \in Clients
      PROVE  Held(request[d])'
  <2>1. CASE d = c
    <3>1. Held(Idle)'
      BY <1>4, <1>5, IdleIsHeld, OutsideIsHeld
    <3> QED
      BY <1>3, <2>1, <3>1 DEF Held, Rotated
  <2>2. CASE d # c
    <3>1. ~Transacting(request[d]) /\ request[d] \in Requests /\ Held(request[d]) /\ request'[d] = request[d]
      BY <1>2, <1>3, <2>2 DEF Typed, SerialInv
    <3> QED
      BY <1>5, <3>1, OutsideIsHeld DEF Held, Rotated
  <2> QED
    BY <2>1, <2>2
<1>7. OneAtATime'
  BY <1>2, <1>3, <1>4 DEF OneAtATime
<1>8. InOrder'
  <2>1. request[c].kind # "reset" => request[c].own = created
    BY <1>1, <1>2 DEF Held
  <2>2. created \in Nat
    BY DEF Typed, Counted
  <2> QED
    BY <1>1, <1>2, <2>1, <2>2, CommitLeaves DEF SerialInv, InOrder
<1> QED
  BY <1>6, <1>7, <1>8 DEF SerialInv

\* logout takes a session away from under a transaction, but never one that the
\* transaction has revoked, which is locked.
LEMMA LogoutKeepsSerial ==
  ASSUME Typed, SerialInv, NEW c \in Clients, revokeOwn(c)
  PROVE  SerialInv'
<1> DEFINE old == request[c].old
<1>1. /\ request[c].pc = "logout" /\ Move(c, Idle) /\ created' = created
      /\ session' = [session EXCEPT ![old] = "revoked"] /\ \A d \in Clients \ {c} : old \notin request[d].revoked
  BY DEF revokeOwn, LockedByOther
<1>2. old \in Ids /\ session[old] # "none" /\ session \in [Ids -> {"none", "active", "revoked"}]
  BY <1>1 DEF Typed, TablesTyped, Requests, Sound, SerialInv, Held
<1>3. \A d \in Clients : request'[d] = IF d = c THEN Idle ELSE request[d]
  BY <1>1 DEF Typed, Move
<1> HIDE DEF old
<1>4. Active' = Active \ {old} /\ \A s \in Ids : session'[s] # "none" <=> session[s] # "none"
  BY <1>1, <1>2 DEF Active
<1>5. Idle \in Requests /\ ~Transacting(Idle)
  BY IdleIsRequest DEF Transacting
<1>6. ASSUME NEW d \in Clients
      PROVE  Held(request[d])'
  <2>1. CASE d = c
    <3>1. Held(Idle)'
      BY <1>4, <1>5, IdleIsHeld, OutsideIsHeld
    <3> QED
      BY <1>3, <2>1, <3>1 DEF Held, Rotated
  <2>2. CASE d # c
    <3>1. Held(request[d]) /\ request'[d] = request[d] /\ old \notin request[d].revoked
          /\ Sound(request[d])
      BY <1>1, <1>3, <2>2 DEF Typed, Requests, SerialInv
    <3>2. request[d].kind \in {"refresh", "logout"} => request[d].old \in Ids
      BY <3>1 DEF Sound
    <3> QED
      BY <1>1, <1>4, <3>1, <3>2 DEF Held, Rotated
  <2> QED
    BY <2>1, <2>2
<1>7. OneAtATime'
  BY <1>3, <1>5 DEF SerialInv, OneAtATime
<1>8. InOrder'
  BY <1>1, <1>4 DEF SerialInv, InOrder
<1> QED
  BY <1>6, <1>7, <1>8 DEF SerialInv

LEMMA SerialStep == RefreshesAlone' /\ Typed /\ SerialInv /\ [Next]_vars => SerialInv'
<1> SUFFICES ASSUME RefreshesAlone', Typed, SerialInv, [Next]_vars
             PROVE  SerialInv'
  OBVIOUS
<1>1. CASE UNCHANGED vars \/ expire
  <2>1. UNCHANGED <<session, created, request>> /\ Active' = Active
    BY <1>1 DEF vars, expire, Active
  <2> QED
    BY <2>1 DEF SerialInv, OneAtATime, InOrder, Held, Rotated
<1>2. ASSUME NEW c \in Clients, Begin(c) \/ deadlockVictim(c) \/ rollback(c)
      PROVE  SerialInv'
  BY <1>2, BeginKeepsSerial, CancelKeepsSerial
<1>3. ASSUME NEW c \in Clients, Continue(c)
      PROVE  SerialInv'
  BY <1>3, LockKeepsSerial, RotateKeepsSerial, ReadKeepsSerial, ScanKeepsSerial, RevokeKeepsSerial,
     RevokedKeepsSerial, CreateKeepsSerial, CommitKeepsSerial, LogoutKeepsSerial DEF Continue
<1> QED
  BY <1>1, <1>2, <1>3 DEF Next

LEMMA SerialInit == Init => SerialInv
<1> SUFFICES ASSUME Init
             PROVE  SerialInv
  OBVIOUS
<1>1. Active = {} /\ \A c \in Clients : request[c] = Idle
  BY DEF Init, Active
<1> QED
  BY <1>1, IdleIsRequest, IdleIsHeld, FS_EmptySet, SessionsAssumption
     DEF Init, SerialInv, OneAtATime, InOrder, Transacting

LEMMA AlwaysSerial == Spec /\ []RefreshesAlone => [](Typed /\ SerialInv)
<1>1. Init => Typed /\ SerialInv
  BY TypedInit, SerialInit
<1>2. RefreshesAlone' /\ Typed /\ SerialInv /\ [Next]_vars => Typed' /\ SerialInv'
  BY TypedStep, SerialStep
<1> QED
  BY <1>1, <1>2, PTL DEF Spec

NoRefresh == "refresh" \notin Kinds
OneRequest == \A c, d \in Clients : c = d

\* The hypothesis of what follows is that of an instance: where sessions are not
\* refreshed, or one request is served at a time, every behaviour satisfies it.
THEOREM OrdinaryRefreshesAreAlone == NoRefresh \/ OneRequest => (Spec => []RefreshesAlone)
<1> SUFFICES ASSUME NoRefresh \/ OneRequest
             PROVE  Spec => []RefreshesAlone
  OBVIOUS
<1>1. ASSUME Typed, NEW c \in Clients, NEW d \in Clients, request[c].kind = "refresh"
      PROVE  c = d
  BY <1>1 DEF Typed, Requests, Sound, NoRefresh, OneRequest
<1>2. ASSUME Typed PROVE RefreshesAlone
  <2>1. CreationsApart
    <3> SUFFICES ASSUME NEW c \in Clients, NEW d \in Clients, request[c].kind = "refresh"
                 PROVE  c = d
      BY DEF CreationsApart
    <3> QED
      BY <1>1, <1>2
  <2>2. ResetsApart
    <3> SUFFICES ASSUME NEW c \in Clients, NEW d \in Clients, request[c].kind = "refresh", request[d].kind = "reset"
                 PROVE  FALSE
      BY DEF ResetsApart
    <3>1. c = d
      BY <1>1, <1>2
    <3> QED
      BY <3>1
  <2> QED
    BY <2>1, <2>2 DEF RefreshesAlone
<1> QED
  BY <1>2, AlwaysTyped, PTL

\* Nobody waits for itself, through however many others: who waits, waits for the one
\* transaction that is open, and that one waits for nobody, as logouts hold no lock.
\* So the deadlock detector has nothing to do: no request is cancelled by it.
NobodyIsDeadlocked == \A c \in Clients : ~Deadlocked(c)
THEOREM DeadlocksComeOfRefreshes == Spec /\ []RefreshesAlone => []NobodyIsDeadlocked
<1>1. ASSUME Typed, SerialInv PROVE NobodyIsDeadlocked
  <2> SUFFICES ASSUME NEW c \in Clients, Deadlocked(c) PROVE FALSE
    BY DEF NobodyIsDeadlocked
  <2> DEFINE open == {d \in Clients : Transacting(request[d])}
  <2>1. ASSUME NEW d \in Clients, NEW e \in Clients, WaitsFor(d, e)
        PROVE  e \in open /\ d \notin open
    <3>1. request[e] \in Requests /\ Held(request[e])
      BY <1>1 DEF Typed, SerialInv
    <3>2. HoldsUser(e) \/ request[e].revoked # {}
      BY <2>1 DEF WaitsFor
    <3>3. Transacting(request[e])
      BY <3>1, <3>2 DEF HoldsUser, Held, Rotated, Transacting, Revoking, Requests, Sound, RequestType, Pcs
    <3>4. d # e
      BY <2>1 DEF WaitsFor
    <3>5. ~Transacting(request[d])
      BY <1>1, <3>3, <3>4 DEF SerialInv, OneAtATime
    <3> QED
      BY <3>3, <3>5
  <2>2. \A d \in Clients : ~WaitsFor(c, d)
    <3>1. open \in SUBSET Clients
      OBVIOUS
    <3>2. c \in open
      BY <2>1, <3>1 DEF Deadlocked
    <3> QED
      BY <2>1, <3>2
  <2>3. {} \in SUBSET Clients
    OBVIOUS
  <2> QED
    BY <2>2, <2>3 DEF Deadlocked
<1> QED
  BY <1>1, AlwaysSerial, PTL

-----------------------------------------------------------------------------
(* Each transaction has the effect of one atomic step *)

Issued == {s \in Ids : session[s] # "none"}

LEMMA SameCardinality == \A S : List!Cardinality(S) = Cardinality(S)
BY DEF List!Cardinality, Cardinality

\* A commit of a sign-in issues the newest session and keeps most recent ones; one of
\* a reset ends them all.
LEMMA CommitImplements ==
  ASSUME Typed, SerialInv, NEW c \in Clients, commit(c)
  PROVE  \/ request[c].kind = "signIn" /\ List!SignIn
         \/ request[c].kind = "refresh" /\ List!Refresh
         \/ request[c].kind = "reset" /\ List!Reset
<1> DEFINE own == request[c].own  keep == Active \ request[c].revoked
<1>1. /\ request[c] \in Requests /\ Held(request[c]) /\ request[c].pc = "commit"
      /\ request[c].kind \in {"signIn", "refresh", "reset"}
  BY HolderIsAlone DEF commit, Transacting
<1>2. \A s \in Ids : /\ session[s] # "none" => session'[s] # "none"
                     /\ session'[s] # "none" => session[s] # "none" \/ s = own
  BY CommitLeaves
<1>3. CASE request[c].kind = "reset"
  <2>1. Active' = {} /\ own \notin Ids
    BY <1>3, CommitLeaves
  <2>2. Issued' = Issued
    BY <1>2, <2>1 DEF Issued
  <2> QED
    BY <1>3, <2>1, <2>2 DEF List!Reset, Issued
<1>4. CASE request[c].kind # "reset"
  <2>1. /\ Active' = keep \cup {own} /\ own \in Ids /\ session'[own] # "none"
        /\ keep \subseteq request[c].keep
    BY <1>4, CommitLeaves
  <2>2. /\ \A i \in Issued : own > i
        /\ \A k \in request[c].keep, d \in request[c].revoked \ Rotated(request[c]) : k > d
        /\ Cardinality(request[c].keep) < MaxActive /\ request[c].keep \subseteq Ids
    <3>1. \A k \in request[c].keep, d \in request[c].revoked \ Rotated(request[c]) : k > d
      BY <1>1 DEF Held, Revoking
    <3>2. Cardinality(request[c].keep) < MaxActive /\ request[c].keep \subseteq Ids
      BY <1>1 DEF Held, Revoking, Requests, RequestType
    <3>3. \A s \in Ids : session[s] # "none" => s < own
      BY <1>1, <1>4 DEF Held
    <3> QED
      BY <3>1, <3>2, <3>3, SessionsAssumption DEF Issued, Ids
  <2>3. Issued' = Issued \cup {own}
    BY <1>2, <2>1 DEF Issued
  <2>4. List!MostRecent(keep, Active \ Rotated(request[c]))
    BY <2>1, <2>2 DEF List!MostRecent
  <2>5. Cardinality(keep) < MaxActive
    <3>1. IsFiniteSet(request[c].keep)
      BY <2>2, SessionsAreFinite
    <3>2. Cardinality(keep) <= Cardinality(request[c].keep)
      BY <2>1, <3>1, FS_Subset
    <3>3. keep \subseteq Ids
      BY DEF Active
    <3> QED
      BY <2>2, <3>2, <3>3, SessionsAreFinite, SessionsAssumption
  <2>6. keep \in SUBSET (Active \ Rotated(request[c]))
    BY <1>1 DEF Held
  <2> HIDE DEF keep, own
  <2>7. CASE request[c].kind = "refresh"
    <3>1. Rotated(request[c]) = {request[c].old}
      BY <1>1, <2>7 DEF Rotated, Transacting
    <3>2. request[c].old \in Issued
      BY <1>1, <2>7 DEF Held, Issued, Requests, Sound
    <3>3. List!Refresh
      BY <2>1, <2>2, <2>3, <2>4, <2>5, <2>6, <3>1, <3>2, SameCardinality
         DEF List!Refresh, List!Issue, List!MostRecent, Issued, Ids
    <3> QED
      BY <2>7, <3>3
  <2>8. CASE request[c].kind = "signIn"
    <3>1. Rotated(request[c]) = {}
      BY <2>8 DEF Rotated
    <3>2. List!SignIn
      BY <2>1, <2>2, <2>3, <2>4, <2>5, <2>6, <3>1, SameCardinality
         DEF List!SignIn, List!Issue, List!MostRecent, Issued, Ids
    <3> QED
      BY <2>8, <3>2
  <2> QED
    BY <1>1, <1>4, <2>7, <2>8
<1> QED
  BY <1>3, <1>4

LEMMA LogoutImplements ==
  ASSUME Typed, SerialInv, NEW c \in Clients, revokeOwn(c)
  PROVE  List!Logout \/ UNCHANGED List!listVars
<1> DEFINE old == request[c].old
<1>1. request[c].pc = "logout" /\ session' = [session EXCEPT ![old] = "revoked"]
  BY DEF revokeOwn
<1>2. old \in Ids /\ session[old] # "none" /\ session \in [Ids -> {"none", "active", "revoked"}]
  BY <1>1 DEF Typed, TablesTyped, Requests, Sound, SerialInv, Held
<1> HIDE DEF old
<1>3. Active' = Active \ {old} /\ Issued' = Issued
  BY <1>1, <1>2 DEF Active, Issued
<1>4. CASE old \in Active
  BY <1>3, <1>4 DEF List!Logout, Issued
<1>5. CASE old \notin Active
  <2>1. Active' = Active
    BY <1>3, <1>5
  <2> QED
    BY <1>3, <2>1 DEF List!listVars, Issued
<1> QED
  BY <1>4, <1>5

\* Every other statement is invisible until its transaction commits.
LEMMA StepImplements ==
  ASSUME Typed, SerialInv, [Next]_vars
  PROVE  /\ [List!Next \/ List!Refresh]_(List!listVars)
         /\ NoRefresh => [List!Next]_(List!listVars)
<1>1. CASE UNCHANGED session
  BY <1>1 DEF List!listVars, Active
<1>2. CASE UNCHANGED vars \/ expire
  BY <1>1, <1>2 DEF vars, expire
<1>3. ASSUME NEW c \in Clients, Begin(c) \/ deadlockVictim(c) \/ rollback(c)
      PROVE  UNCHANGED session
  BY <1>3, BeginTallies DEF deadlockVictim, rollback
<1>4. ASSUME NEW c \in Clients, Continue(c), ~commit(c), ~revokeOwn(c)
      PROVE  UNCHANGED session
  BY <1>4 DEF Continue, updateUser, rotate, readActive, scan, revoke, revoked, createSession
<1>5. ASSUME NEW c \in Clients, commit(c) \/ revokeOwn(c)
      PROVE  /\ [List!Next \/ List!Refresh]_(List!listVars)
             /\ NoRefresh => [List!Next]_(List!listVars)
  <2>1. NoRefresh => request[c].kind # "refresh"
    BY DEF NoRefresh, Typed, Requests, Sound
  <2> QED
    BY <1>5, <2>1, CommitImplements, LogoutImplements DEF List!Next
<1> QED
  BY <1>1, <1>2, <1>3, <1>4, <1>5 DEF Next

LEMMA InitImplements == Init => List!Init
BY DEF Init, List!Init, Active

\* "Keep only the most recent active sessions for this user; revoke the rest": the
\* transactions of any number of requests have the effect of one atomic step each of
\* SessionList, a refresh that of a sign-in in place of the session it was asked with.
THEOREM TransactionsAreAtomic == Spec /\ []RefreshesAlone => List!RotatingSpec
<1>1. Typed /\ SerialInv /\ [Next]_vars => [List!Next \/ List!Refresh]_(List!listVars)
  BY StepImplements
<1> QED
  BY <1>1, InitImplements, AlwaysSerial, PTL DEF Spec, List!RotatingSpec

\* The same without refreshes, of the list that has none.
THEOREM SignInsAreAtomic == NoRefresh => (Spec => ImplementsSessionList)
<1> SUFFICES ASSUME NoRefresh PROVE Spec => ImplementsSessionList
  OBVIOUS
<1>1. Spec => []RefreshesAlone
  BY OrdinaryRefreshesAreAlone
<1>2. Typed /\ SerialInv /\ [Next]_vars => [List!Next]_(List!listVars)
  BY StepImplements
<1>3. Spec => List!Spec
  BY <1>1, <1>2, InitImplements, AlwaysSerial, PTL DEF Spec, List!Spec
<1> QED
  BY <1>3 DEF ImplementsSessionList

-----------------------------------------------------------------------------
(***************************************************************************)
(* With refreshes.  What a transaction revokes is settled when its         *)
(* statement scan has run; a session that commits afterwards it misses.    *)
(* Take any set S of transactions that are past their scan: the active     *)
(* sessions that none of S is to revoke were spared by the one that was    *)
(* the last of S to scan, MaxActive - 1 at most, or were committed since   *)
(* by a transaction outside S, which spared no more than its own share.    *)
(***************************************************************************)
Spared(S) == {s \in Active : \A c \in S : s \notin request[c].revoked \cup request[c].target}

MissInv ==
  \A S \in SUBSET Clients : (\A c \in S : request[c].pc \in Revoking) =>
    Cardinality(Spared(S)) + Cardinality(S) <= MaxActive + Cardinality(Clients) - 1

LEMMA SparedIsFinite ==
  \A S \in SUBSET Clients : IsFiniteSet(Spared(S)) /\ Cardinality(Spared(S)) \in Nat
<1>1. \A S : Spared(S) \subseteq Ids
  BY DEF Spared, Active
<1> QED
  BY <1>1, SessionsAreFinite

LEMMA ClientsAreFinite ==
  /\ Cardinality(Clients) \in Nat
  /\ \A S \in SUBSET Clients : /\ IsFiniteSet(S) /\ Cardinality(S) \in Nat
                               /\ Cardinality(S) <= Cardinality(Clients)
BY SessionsAssumption, FS_Subset, FS_CardinalityType

\* A step of one request that commits no session: the bound stays, unless the request
\* makes up its mind what to revoke.
LEMMA OthersMissNoMore ==
  ASSUME Typed, MissInv, NEW c \in Clients, NEW q, Move(c, q), Active' \subseteq Active,
         q.pc \in Revoking =>
           /\ request[c].pc \in Revoking
           /\ (request[c].revoked \cup request[c].target) \cap Active \subseteq q.revoked \cup q.target
  PROVE  MissInv'
<1>1. \A d \in Clients : request'[d] = IF d = c THEN q ELSE request[d]
  BY DEF Typed, Move
<1>4. ASSUME NEW S \in SUBSET Clients, \A d \in S : request'[d].pc \in Revoking
      PROVE  Cardinality(Spared(S)') + Cardinality(S) <= MaxActive + Cardinality(Clients) - 1
  <2>1. \A d \in S : request[d].pc \in Revoking
    BY <1>1, <1>4
  <2>2. Spared(S)' \subseteq Spared(S)
    BY <1>1, <1>4 DEF Spared
  <2>3. Cardinality(Spared(S)') \in Nat /\ Cardinality(Spared(S)') <= Cardinality(Spared(S))
    BY <2>2, SparedIsFinite, FS_Subset, FS_CardinalityType
  <2>4. Cardinality(Spared(S)) + Cardinality(S) <= MaxActive + Cardinality(Clients) - 1
    BY <2>1 DEF MissInv
  <2> QED
    BY <2>3, <2>4, SparedIsFinite, ClientsAreFinite, SessionsAssumption
<1> QED
  BY <1>4 DEF MissInv, Spared

\* The scan spares what it keeps and nothing else.
LEMMA ScanMissesNoMore ==
  ASSUME Typed, RowInv, MissInv, NEW c \in Clients, scan(c)
  PROVE  MissInv'
<1>1. PICK q \in Requests : /\ Move(c, q) /\ q.pc = "revoke" /\ q.revoked = request[c].revoked
                            /\ q.target = Visible(c) \ request[c].keep
  BY ScanMoves DEF Typed
<1>2. /\ \A d \in Clients : request'[d] = IF d = c THEN q ELSE request[d]
      /\ Active' = Active
  BY <1>1 DEF Typed, Move, scan, Active
<1>3. IsFiniteSet(request[c].keep) /\ Cardinality(request[c].keep) <= MaxActive - 1
  <2>1. request[c].keep \subseteq Ids /\ Cardinality(request[c].keep) < MaxActive
    BY DEF RowInv, Limited, scan, Typed, Requests, RequestType
  <2> QED
    BY <2>1, SessionsAreFinite, SessionsAssumption
<1>5. ASSUME NEW S \in SUBSET Clients, \A d \in S : request'[d].pc \in Revoking
      PROVE  Cardinality(Spared(S)') + Cardinality(S) <= MaxActive + Cardinality(Clients) - 1
  <2>1. CASE c \in S
    <3>1. Spared(S)' \subseteq request[c].keep
      BY <1>1, <1>2, <2>1 DEF Spared, Visible
    <3>2. Cardinality(Spared(S)') \in Nat /\ Cardinality(Spared(S)') <= Cardinality(request[c].keep)
      BY <1>3, <3>1, FS_Subset, FS_CardinalityType
    <3> QED
      BY <1>3, <3>2, ClientsAreFinite, FS_CardinalityType, SessionsAssumption
  <2>2. CASE c \notin S
    <3>1. Spared(S)' = Spared(S) /\ \A d \in S : request[d].pc \in Revoking
      BY <1>2, <1>5, <2>2 DEF Spared
    <3> QED
      BY <3>1 DEF MissInv
  <2> QED
    BY <2>1, <2>2
<1> QED
  BY <1>5 DEF MissInv, Spared

\* A commit adds one session, and its transaction leaves those past their scan.
LEMMA CommitMissesNoMore ==
  ASSUME Typed, RowInv, MissInv, NEW c \in Clients, commit(c)
  PROVE  MissInv'
<1>1. /\ \A d \in Clients : request'[d] = IF d = c THEN Idle ELSE request[d]
      /\ request[c].pc \in Revoking /\ request[c].target = {} /\ request[c].pc = "commit"
  BY DEF commit, Typed, Move, RowInv, Limited, Revoking
<1>2. Active' \subseteq (Active \ request[c].revoked) \cup {request[c].own}
  BY DEF commit, Active
<1>5. ASSUME NEW S \in SUBSET Clients, \A d \in S : request'[d].pc \in Revoking
      PROVE  Cardinality(Spared(S)') + Cardinality(S) <= MaxActive + Cardinality(Clients) - 1
  <2> DEFINE T == S \cup {c}
  <2>1. c \notin S
    BY <1>1, <1>5, IdleIsRequest DEF Revoking
  <2>2. T \in SUBSET Clients /\ \A d \in T : request[d].pc \in Revoking
    BY <1>1, <1>5, <2>1
  <2>3. Cardinality(T) = Cardinality(S) + 1
    BY <2>1, ClientsAreFinite, FS_AddElement
  <2>4. Cardinality(Spared(T)) + Cardinality(T) <= MaxActive + Cardinality(Clients) - 1
    BY <2>2 DEF MissInv
  <2>5. Spared(S)' \subseteq Spared(T) \cup {request[c].own}
    BY <1>1, <1>2, <2>1 DEF Spared
  <2> HIDE DEF T
  <2>6. IsFiniteSet(Spared(T)) /\ Cardinality(Spared(T)) \in Nat
    BY <2>2, SparedIsFinite
  <2>7. /\ IsFiniteSet(Spared(T) \cup {request[c].own})
        /\ Cardinality(Spared(T) \cup {request[c].own}) <= Cardinality(Spared(T)) + 1
    BY <2>6, FS_AddElement
  <2>8. Cardinality(Spared(S)') \in Nat
        /\ Cardinality(Spared(S)') <= Cardinality(Spared(T) \cup {request[c].own})
    BY <2>5, <2>7, FS_Subset, FS_CardinalityType
  <2>9. Cardinality(Spared(T) \cup {request[c].own}) \in Nat
    BY <2>7, FS_CardinalityType
  <2> QED
    BY <2>3, <2>4, <2>6, <2>7, <2>8, <2>9, ClientsAreFinite, SessionsAssumption
<1> QED
  BY <1>5 DEF MissInv, Spared

LEMMA MissStep == Typed /\ RowInv /\ MissInv /\ [Next]_vars => MissInv'
<1> SUFFICES ASSUME Typed, RowInv, MissInv, [Next]_vars
             PROVE  MissInv'
  OBVIOUS
<1>1. \A c \in Clients : request[c] \in Requests
  BY DEF Typed
<1>2. CASE UNCHANGED <<session, request>>
  <2>1. \A S : Spared(S)' = Spared(S)
    BY <1>2 DEF Spared, Active
  <2> QED
    BY <1>2, <2>1 DEF MissInv
<1>3. ASSUME NEW c \in Clients, NEW q, Move(c, q), q.pc \notin Revoking, \A d \in Clients : ~commit(d)
      PROVE  MissInv'
  <2>1. Active' \subseteq Active
    BY <1>3, OnlyCommitsAdd
  <2> QED
    BY <1>3, <2>1, OthersMissNoMore
<1>4. ASSUME NEW c \in Clients, NEW q, Move(c, q), UNCHANGED session, request[c].pc \in Revoking,
             (request[c].revoked \cup request[c].target) \cap Active \subseteq q.revoked \cup q.target
      PROVE  MissInv'
  <2>1. Active' = Active
    BY <1>4 DEF Active
  <2> QED
    BY <1>4, <2>1, OthersMissNoMore
<1>5. ASSUME NEW c \in Clients, commit(c) PROVE MissInv'
  BY <1>5, CommitMissesNoMore
<1>6. ASSUME NEW c \in Clients, Begin(c), \A d \in Clients : ~commit(d) PROVE MissInv'
  <2>1. PICK q \in Requests : Move(c, q) /\ <<q.kind, q.pc>> \in Starts
    BY <1>6, BeginTallies DEF Tallies
  <2> QED
    BY <1>3, <1>6, <2>1 DEF Starts, Revoking
<1>7. ASSUME NEW c \in Clients, Move(c, Idle), \A d \in Clients : ~commit(d) PROVE MissInv'
  BY <1>3, <1>7, IdleIsRequest DEF Revoking
<1>8. ASSUME NEW c \in Clients, updateUser(c) \/ rotate(c) \/ readActive(c), \A d \in Clients : ~commit(d)
      PROVE  MissInv'
  <2>1. \E q \in Requests : Move(c, q) /\ q.pc \in {"read", "scan"}
    BY <1>1, <1>8, GotoMoves, RotateMoves, ReadMoves DEF updateUser
  <2> QED
    BY <1>3, <1>8, <2>1 DEF Revoking
<1>9. ASSUME NEW c \in Clients, NEW s \in Ids, revoke(c, s) PROVE MissInv'
  <2>1. PICK q \in Requests : /\ Move(c, q) /\ q.target = request[c].target \ {s}
                              /\ q.revoked = request[c].revoked \cup ({s} \cap Active)
    BY <1>1, <1>9, RevokeMoves
  <2>2. (request[c].revoked \cup request[c].target) \cap Active \subseteq q.revoked \cup q.target
    BY <2>1
  <2> QED
    BY <1>4, <1>9, <2>1, <2>2 DEF revoke, Revoking
<1>10. ASSUME NEW c \in Clients, revoked(c) PROVE MissInv'
  <2>1. PICK q \in Requests : Move(c, q) /\ q.revoked = request[c].revoked /\ q.target = request[c].target
    BY <1>1, <1>10, GotoMoves DEF revoked
  <2> QED
    BY <1>4, <1>10, <2>1 DEF revoked, Revoking
<1>11. ASSUME NEW c \in Clients, createSession(c) PROVE MissInv'
  <2>1. request[c].pc = "create" /\ Creates(request[c])
    BY <1>1, <1>11 DEF createSession, Requests, Sound, Creates
  <2>2. PICK q \in Requests : Move(c, q) /\ q.revoked = request[c].revoked /\ q.target = request[c].target
    BY <1>1, <1>11, <2>1, CreatingIsFinite, CreateMoves
  <2> QED
    BY <1>4, <1>11, <2>1, <2>2 DEF createSession, Revoking
<1>12. ASSUME NEW c \in Clients, Continue(c), \A d \in Clients : ~commit(d) PROVE MissInv'
  BY <1>7, <1>8, <1>9, <1>10, <1>11, <1>12, ScanMissesNoMore DEF Continue, revokeOwn
<1> QED
  BY <1>2, <1>5, <1>6, <1>7, <1>12 DEF Next, expire, vars, deadlockVictim, rollback

\* Whatever the requests: one refresh or sign-in may miss the sessions that the other
\* requests in flight commit, one each, and no more; in particular the limit is never
\* missed where requests come one at a time.
THEOREM ExcessAlwaysBounded == Spec => []ExcessIsBounded
<1>1. Init => MissInv
  <2> SUFFICES ASSUME Init PROVE MissInv
    OBVIOUS
  <2>1. \A c \in Clients : request[c] = Idle
    BY DEF Init
  <2>2. \A c \in Clients : request[c].pc \notin Revoking
    BY <2>1, IdleIsRequest DEF Revoking
  <2>3. Spared({}) = {}
    BY DEF Init, Spared, Active
  <2>4. ASSUME NEW S \in SUBSET Clients, \A c \in S : request[c].pc \in Revoking
        PROVE  Cardinality(Spared(S)) + Cardinality(S) <= MaxActive + Cardinality(Clients) - 1
    <3>1. S = {}
      BY <2>2, <2>4
    <3>2. Cardinality(Spared(S)) = 0 /\ Cardinality(S) = 0
      BY <2>3, <3>1, FS_EmptySet
    <3> QED
      BY <3>2, ClientsAreFinite, SessionsAssumption
  <2> QED
    BY <2>2, <2>4 DEF MissInv
<1>2. MissInv => ExcessIsBounded
  <2> SUFFICES ASSUME MissInv PROVE ExcessIsBounded
    OBVIOUS
  <2>1. Spared({}) = Active /\ {} \in SUBSET Clients
    BY DEF Spared
  <2>2. Cardinality(Spared({})) + Cardinality({}) <= MaxActive + Cardinality(Clients) - 1
    BY <2>1 DEF MissInv
  <2> QED
    BY <2>1, <2>2, FS_EmptySet, SparedIsFinite DEF ExcessIsBounded
<1> QED
  BY <1>1, <1>2, RowInit, RowStep, MissStep, AlwaysTyped, PTL DEF Spec
=============================================================================
