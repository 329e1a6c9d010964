-------------------------- MODULE OneTimeCodes_proofs --------------------------
(***************************************************************************)
(* Proofs about OneTimeCodes: for any number of requests, codes and        *)
(* failures, a mailed code works until a request deletes it, and as long   *)
(* as requests come one at a time a code admits once, a block has its      *)
(* attempts and a blocked user gets no code.                               *)
(***************************************************************************)
EXTENDS OneTimeCodes, FiniteSetTheorems, TLAPS

-----------------------------------------------------------------------------
(* Requests *)

RequestType == [kind : Kinds, pc : Pcs, code : 0..MaxCodes, old : 0..MaxCodes,
                read : UserType, write : UserType]

Generating == {"register", "forgot"}
Submitting == {"verify", "reset"}

\* The statement that is next fits the kind of the request, which has the codes it
\* works on.
Sound(q) ==
  /\ q.pc \in {"find", "begin", "mail", "cache"} => q.kind \in Generating
  /\ q.pc = "unblock" => q.kind \in Generating \cup {"resend"}
  /\ q.pc \in {"generate", "count", "recache", "drop"} => q.kind = "resend"
  /\ q.pc = "read" => q.kind \in Submitting \cup {"resend"}
  /\ q.pc \in {"update", "del"} => q.kind \in Submitting
  /\ q.pc = "commit" => q.kind \in Generating \cup Submitting
  /\ q.kind \in Submitting \/ q.pc \in {"cache", "commit", "count", "recache", "drop"} => q.code \in Codes
  /\ q.kind = "resend" => q.old \in Codes

Requests == {q \in RequestType : Sound(q)}

\* what a request keeps when it goes on
Same(q, r) == q.kind = r.kind /\ q.code = r.code /\ q.old = r.old /\ q.read = r.read /\ q.write = r.write

LEMMA IdleIsRequest == Idle \in Requests /\ Idle.pc = "idle" /\ Idle.kind = "none" /\ NoUser \in UserType
<1>1. NoUser \in UserType
  BY DEF NoUser, UserType, BlockStates
<1>2. 0 \in 0..MaxCodes
  BY CodesAssumption
<1>3. Idle \in RequestType /\ Idle.pc = "idle" /\ Idle.kind = "none"
  BY <1>1, <1>2 DEF Idle, RequestType, Kinds, Pcs
<1> QED
  BY <1>1, <1>3 DEF Requests, Sound, Generating, Submitting

LEMMA GotoMoves ==
  ASSUME NEW c \in Clients, request[c] \in Requests, NEW p \in Pcs, Goto(c, p)
  PROVE  \E q \in RequestType : Move(c, q) /\ Same(q, request[c]) /\ q.pc = p
<1> DEFINE q == [request[c] EXCEPT !.pc = p]
<1>1. q \in RequestType /\ Same(q, request[c]) /\ q.pc = p
  BY DEF Requests, RequestType, Same
<1> QED
  BY <1>1 DEF Goto

LEMMA SetAttemptType ==
  ASSUME NEW u \in UserType, NEW n \in Nat
  PROVE  /\ SetAttempt(u, n) \in UserType
         /\ SetAttempt(u, n).exists = u.exists /\ SetAttempt(u, n).attempts = n
         /\ SetAttempt(u, n).block = IF n >= 3 THEN "long" ELSE "none"
<1> DEFINE block == IF n >= 3 THEN "long" ELSE "none"
<1>1. SetAttempt(u, n) = [u EXCEPT !.attempts = n, !.block = block] /\ block \in BlockStates
  BY DEF SetAttempt, BlockStates
<1> HIDE DEF block
<1>2. /\ SetAttempt(u, n) \in UserType
      /\ SetAttempt(u, n).exists = u.exists /\ SetAttempt(u, n).attempts = n
      /\ SetAttempt(u, n).block = block
  BY <1>1 DEF UserType
<1> QED
  BY <1>2 DEF block

-----------------------------------------------------------------------------
(* Types *)

Pends(q) == /\ q.kind \in {"register", "forgot", "resend"}
            /\ q.pc \in {"read", "find", "unblock", "begin", "mail", "generate"}
Pending == {c \in Clients : Pends(request[c])}

TablesTyped ==
  /\ user \in UserType /\ codes \in [Codes -> CodeType]
  /\ cache \in SUBSET Codes /\ handed \in SUBSET Codes /\ dropped \in SUBSET Codes
  /\ admitted \in [Codes -> Nat] /\ token \in {"none", "unverified", "verified"} /\ crashes \in Nat

\* Every request that will generate a code has one left.
Counted == /\ generated \in Nat /\ generated + Cardinality(Pending) <= MaxCodes
           /\ mailed \subseteq 1..generated

Typed == /\ TablesTyped /\ Counted /\ request \in [Clients -> Requests] /\ alone \in BOOLEAN

\* A request that moves is pending or not as its new state says.
LEMMA PendingMoves ==
  ASSUME request \in [Clients -> Requests], NEW c \in Clients, NEW q \in Requests, Move(c, q)
  PROVE  /\ Cardinality(Pending) \in Nat /\ Cardinality(Pending') \in Nat
         /\ Cardinality(Pending') <= Cardinality(Pending) + 1
         /\ ~Pends(q) \/ Pends(request[c]) => Cardinality(Pending') <= Cardinality(Pending)
         /\ ~Pends(q) /\ Pends(request[c]) => Cardinality(Pending') = Cardinality(Pending) - 1
<1> DEFINE P == Pending  R == Pending'
<1>0. IsFiniteSet(Clients)
  BY CodesAssumption
<1>1. P \subseteq Clients /\ R \subseteq Clients /\ \A d \in Clients : d # c => (d \in R <=> d \in P)
  BY DEF Pending, Move
<1>2. (c \in R <=> Pends(q)) /\ (c \in P <=> Pends(request[c]))
  BY DEF Pending, Move
<1> HIDE DEF P, R
<1>3. IsFiniteSet(P) /\ IsFiniteSet(R) /\ Cardinality(P) \in Nat /\ Cardinality(R) \in Nat
  BY <1>0, <1>1, FS_Subset, FS_CardinalityType
<1>4. R \subseteq P \cup {c} /\ IsFiniteSet(P \cup {c}) /\ Cardinality(P \cup {c}) <= Cardinality(P) + 1
      /\ Cardinality(P \cup {c}) \in Nat
  <2>1. R \subseteq P \cup {c}
    BY <1>1
  <2>2. IsFiniteSet(P \cup {c})
        /\ (Cardinality(P \cup {c}) = Cardinality(P) \/ Cardinality(P \cup {c}) = Cardinality(P) + 1)
    BY <1>3, FS_AddElement
  <2> QED
    BY <1>3, <2>1, <2>2
<1>5. Cardinality(R) <= Cardinality(P) + 1
  BY <1>3, <1>4, FS_Subset
<1>6. ~Pends(q) \/ Pends(request[c]) => Cardinality(R) <= Cardinality(P)
  <2>1. ~Pends(q) \/ Pends(request[c]) => R \subseteq P
    BY <1>1, <1>2
  <2> QED
    BY <1>3, <2>1, FS_Subset
<1>7. ~Pends(q) /\ Pends(request[c]) => Cardinality(R) = Cardinality(P) - 1
  <2>1. ~Pends(q) /\ Pends(request[c]) => R = P \ {c} /\ c \in P
    BY <1>1, <1>2
  <2> QED
    BY <1>3, <2>1, FS_RemoveElement
<1> QED
  BY <1>3, <1>5, <1>6, <1>7 DEF P, R

-----------------------------------------------------------------------------
(* Where a request goes *)

\* register and forgotPassword
LEMMA RegisterMoves ==
  ASSUME Typed, NEW c \in Clients, register(c)
  PROVE  \E q \in Requests : /\ Move(c, q) /\ q.kind = "register" /\ q.read = user
                             /\ q.pc = IF user.exists THEN "find" ELSE "begin"
<1> DEFINE pc == IF user.exists THEN "find" ELSE "begin"
           q == [Idle EXCEPT !.kind = "register", !.read = user, !.pc = pc]
<1>1. pc \in {"find", "begin"} /\ user \in UserType /\ 0 \in 0..MaxCodes
  BY CodesAssumption DEF Typed, TablesTyped
<1>2. Move(c, q)
  BY DEF register
<1> HIDE DEF pc
<1>3. q \in RequestType /\ q.kind = "register" /\ q.read = user /\ q.pc = pc
  BY <1>1, IdleIsRequest DEF Idle, RequestType, Kinds, Pcs
<1> HIDE DEF q
<1>4. q \in Requests
  BY <1>1, <1>3 DEF Requests, Sound, Generating, Submitting
<1> QED
  BY <1>2, <1>3, <1>4 DEF pc

LEMMA ForgotMoves ==
  ASSUME Typed, NEW c \in Clients, forgotPassword(c)
  PROVE  \E q \in Requests : Move(c, q) /\ q.kind = "forgot" /\ q.read = user /\ q.pc = "unblock"
<1> DEFINE q == [Idle EXCEPT !.kind = "forgot", !.read = user, !.pc = "unblock"]
<1>1. user \in UserType /\ 0 \in 0..MaxCodes
  BY CodesAssumption DEF Typed, TablesTyped
<1>2. Move(c, q)
  BY DEF forgotPassword
<1>3. q \in RequestType /\ q.kind = "forgot" /\ q.read = user /\ q.pc = "unblock"
  BY <1>1, IdleIsRequest DEF Idle, RequestType, Kinds, Pcs
<1> HIDE DEF q
<1>4. q \in Requests
  BY <1>3 DEF Requests, Sound, Generating, Submitting
<1> QED
  BY <1>2, <1>3, <1>4

LEMMA FindNoCodeMoves ==
  ASSUME Typed, NEW c \in Clients, findNoCode(c)
  PROVE  \E q \in Requests : /\ Move(c, q) /\ Same(q, request[c])
                             /\ q.pc = IF request[c].kind = "register" THEN "unblock" ELSE "begin"
<1>1. PICK q \in RequestType : /\ Move(c, q) /\ Same(q, request[c])
                               /\ q.pc = IF request[c].kind = "register" THEN "unblock" ELSE "begin"
  BY GotoMoves DEF findNoCode, Typed, Pcs
<1>2. q \in Requests
  BY <1>1 DEF findNoCode, Typed, Requests, Sound, Same, Generating, Submitting
<1> QED
  BY <1>1, <1>2

LEMMA UnblockMoves ==
  ASSUME Typed, NEW c \in Clients, unblock(c)
  PROVE  \E q \in Requests :
           /\ Move(c, q) /\ q.kind = request[c].kind /\ q.old = request[c].old
           /\ q.read = SetAttempt(user, 0) /\ q.pc = AfterUnblock(request[c].kind)
<1> DEFINE read == SetAttempt(user, 0)  pc == AfterUnblock(request[c].kind)
           q == [request[c] EXCEPT !.read = read, !.pc = pc]
<1>1. request[c] \in Requests /\ request[c].pc = "unblock" /\ request[c].kind \in Generating \cup {"resend"}
  BY DEF unblock, Typed, Requests, Sound
<1>2. /\ pc \in {"begin", "find", "generate"} /\ read \in UserType
      /\ pc = "generate" <=> request[c].kind = "resend"
  BY <1>1, SetAttemptType DEF AfterUnblock, Generating, Typed, TablesTyped
<1>3. Move(c, q)
  BY DEF unblock
<1> HIDE DEF read, pc
<1>4. /\ q \in RequestType /\ q.kind = request[c].kind /\ q.old = request[c].old /\ q.code = request[c].code
      /\ q.read = read /\ q.pc = pc
  BY <1>1, <1>2 DEF Requests, RequestType, Pcs
<1> HIDE DEF q
<1>5. q \in Requests
  BY <1>1, <1>2, <1>4 DEF Requests, Sound, Generating, Submitting
<1> QED
  BY <1>3, <1>4, <1>5 DEF read, pc

LEMMA CheckBlockMoves ==
  ASSUME Typed, NEW c \in Clients, checkBlock(c), ~TooMany(request[c].read)
  PROVE  \E q \in Requests : /\ Move(c, q) /\ Same(q, request[c]) /\ q.pc = AfterUnblock(request[c].kind)
<1>1. request[c] \in Requests /\ request[c].pc = "unblock" /\ request[c].kind \in Generating \cup {"resend"}
  BY DEF checkBlock, Typed, Requests, Sound
<1> DEFINE pc == AfterUnblock(request[c].kind)
<1>2. pc \in {"begin", "find", "generate"} /\ (pc = "generate" <=> request[c].kind = "resend")
  BY <1>1 DEF AfterUnblock, Generating
<1>3. Goto(c, pc)
  BY DEF checkBlock
<1> HIDE DEF pc
<1>4. PICK q \in RequestType : Move(c, q) /\ Same(q, request[c]) /\ q.pc = pc
  BY <1>1, <1>2, <1>3, GotoMoves DEF Pcs
<1>5. q \in Requests
  BY <1>1, <1>2, <1>4 DEF Requests, Sound, Same, Generating, Submitting
<1> QED
  BY <1>4, <1>5 DEF pc

LEMMA BeginMoves ==
  ASSUME Typed, NEW c \in Clients, begin(c), ~(user.exists /\ ~request[c].read.exists)
  PROVE  \E q \in Requests :
           /\ Move(c, q) /\ q.kind = request[c].kind /\ q.pc = "mail"
           /\ q.write.exists /\ q.write.attempts = request[c].read.attempts + 1 /\ q.write.block = user.block
<1> DEFINE n == request[c].read.attempts + 1
           w == [user EXCEPT !.exists = TRUE, !.attempts = n]
           q == [request[c] EXCEPT !.pc = "mail", !.write = w]
<1>1. request[c] \in Requests /\ request[c].pc = "begin" /\ request[c].kind \in Generating
  BY DEF begin, Typed, Requests, Sound
<1>2. n \in Nat /\ user \in UserType
  BY <1>1 DEF Typed, TablesTyped, Requests, RequestType, UserType
<1>3. Move(c, q)
  BY DEF begin
<1> HIDE DEF n
<1>4. w \in UserType /\ w.exists /\ w.attempts = n /\ w.block = user.block
  BY <1>2 DEF UserType
<1> HIDE DEF w
<1>5. /\ q \in RequestType /\ q.kind = request[c].kind /\ q.pc = "mail" /\ q.write = w
      /\ q.code = request[c].code /\ q.old = request[c].old
  BY <1>1, <1>4 DEF Requests, RequestType, Pcs
<1> HIDE DEF q
<1>6. q \in Requests
  BY <1>1, <1>5 DEF Requests, Sound, Generating, Submitting
<1> QED
  BY <1>3, <1>4, <1>5, <1>6 DEF n

LEMMA NewCodeMoves ==
  ASSUME Typed, NEW c \in Clients, NEW pc \in {"cache", "count"},
         request[c].pc = IF pc = "cache" THEN "mail" ELSE "generate",
         Move(c, [request[c] EXCEPT !.pc = pc, !.code = generated + 1])
  PROVE  /\ generated + 1 \in Codes /\ Pends(request[c])
         /\ \E q \in Requests : /\ Move(c, q) /\ q.kind = request[c].kind /\ q.pc = pc /\ q.code = generated + 1
                                /\ q.old = request[c].old /\ q.read = request[c].read /\ q.write = request[c].write
<1>1. /\ request[c] \in Requests /\ generated \in Nat
      /\ request[c].kind \in IF pc = "cache" THEN Generating ELSE {"resend"}
  BY DEF Typed, Counted, Requests, Sound
<1>2. Pends(request[c])
  BY <1>1 DEF Pends, Generating
<1>3. generated + 1 \in Codes
  <2>1. c \in Pending
    BY <1>2 DEF Pending
  <2>2. IsFiniteSet(Pending)
    BY CodesAssumption, FS_Subset DEF Pending
  <2>3. Cardinality(Pending) \in Nat /\ Cardinality(Pending) # 0
    BY <2>1, <2>2, FS_CardinalityType, FS_EmptySet
  <2>4. generated + Cardinality(Pending) <= MaxCodes /\ MaxCodes \in Nat
    BY CodesAssumption DEF Typed, Counted
  <2> QED
    BY <1>1, <2>3, <2>4 DEF Codes
<1> DEFINE n == generated + 1
           q == [request[c] EXCEPT !.pc = pc, !.code = n]
<1>4. n \in 0..MaxCodes /\ n \in Codes
  BY <1>3 DEF Codes
<1>5. Move(c, q)
  OBVIOUS
<1> HIDE DEF n
<1>6. /\ q \in RequestType /\ q.kind = request[c].kind /\ q.pc = pc /\ q.code = n
      /\ q.old = request[c].old /\ q.read = request[c].read /\ q.write = request[c].write
  BY <1>1, <1>4 DEF Requests, RequestType, Pcs
<1> HIDE DEF q
<1>7. q \in Requests
  BY <1>1, <1>4, <1>6 DEF Requests, Sound, Generating, Submitting
<1> QED
  BY <1>2, <1>3, <1>5, <1>6, <1>7 DEF n

\* cacheCode, countAttempt, recache and delCode
LEMMA StatementMoves ==
  ASSUME Typed, NEW c \in Clients, NEW pc, Goto(c, pc),
         \/ request[c].pc = "cache" /\ pc = "commit"
         \/ request[c].pc = "count" /\ pc = "recache"
         \/ request[c].pc = "recache" /\ pc = "drop"
         \/ request[c].pc = "del" /\ pc = "commit"
  PROVE  \E q \in Requests : Move(c, q) /\ Same(q, request[c]) /\ q.pc = pc
<1>1. PICK q \in RequestType : Move(c, q) /\ Same(q, request[c]) /\ q.pc = pc
  BY GotoMoves DEF Typed, Pcs
<1>2. request[c] \in Requests
  BY DEF Typed
<1>3. q \in Requests
  BY <1>1, <1>2 DEF Requests, Sound, Same, Generating, Submitting
<1> QED
  BY <1>1, <1>3

LEMMA ResendMoves ==
  ASSUME Typed, NEW c \in Clients, NEW k \in Codes, resendOtp(c, k)
  PROVE  \E q \in Requests : Move(c, q) /\ q.kind = "resend" /\ q.old = k /\ q.pc = "read"
<1> DEFINE q == [Idle EXCEPT !.kind = "resend", !.old = k, !.pc = "read"]
<1>1. k \in 0..MaxCodes /\ 0 \in 0..MaxCodes
  BY CodesAssumption DEF Codes
<1>2. Move(c, q)
  BY DEF resendOtp
<1>3. q \in RequestType /\ q.kind = "resend" /\ q.old = k /\ q.pc = "read"
  BY <1>1, IdleIsRequest DEF Idle, RequestType, Kinds, Pcs
<1> HIDE DEF q
<1>4. q \in Requests
  BY <1>3 DEF Requests, Sound, Generating, Submitting
<1> QED
  BY <1>2, <1>3, <1>4

LEMMA SubmitMoves ==
  ASSUME Typed, NEW c \in Clients, NEW k \in Codes, NEW kind \in Submitting, submit(c, k, kind)
  PROVE  \E q \in Requests : Move(c, q) /\ q.kind = kind /\ q.code = k /\ q.pc = "read"
<1> DEFINE q == [Idle EXCEPT !.kind = kind, !.code = k, !.pc = "read"]
<1>1. k \in 0..MaxCodes /\ 0 \in 0..MaxCodes
  BY CodesAssumption DEF Codes
<1>2. Move(c, q)
  BY DEF submit
<1>3. q \in RequestType /\ q.kind = kind /\ q.code = k /\ q.pc = "read"
  BY <1>1, IdleIsRequest DEF Idle, RequestType, Kinds, Pcs, Submitting
<1> HIDE DEF q
<1>4. q \in Requests
  BY <1>3 DEF Requests, Sound, Generating, Submitting
<1> QED
  BY <1>2, <1>3, <1>4

LEMMA ReadUserMoves ==
  ASSUME Typed, NEW c \in Clients, readUser(c), ~(request[c].kind = "verify" /\ TooMany(user))
  PROVE  \E q \in Requests :
           /\ Move(c, q) /\ q.kind = request[c].kind /\ q.code = request[c].code /\ q.old = request[c].old
           /\ q.read = user /\ q.pc = IF request[c].kind = "resend" THEN "unblock" ELSE "update"
<1> DEFINE pc == IF request[c].kind = "resend" THEN "unblock" ELSE "update"
           q == [request[c] EXCEPT !.read = user, !.pc = pc]
<1>1. /\ request[c] \in Requests /\ user \in UserType /\ request[c].kind \in Submitting \cup {"resend"}
      /\ request[c].kind \in Submitting => request[c].code \in Codes
      /\ request[c].kind = "resend" => request[c].old \in Codes
  BY DEF readUser, Typed, TablesTyped, Requests, Sound
<1>2. pc \in {"unblock", "update"} /\ (pc = "unblock" <=> request[c].kind = "resend")
  OBVIOUS
<1>3. Move(c, q)
  BY DEF readUser
<1> HIDE DEF pc
<1>4. /\ q \in RequestType /\ q.kind = request[c].kind /\ q.code = request[c].code /\ q.old = request[c].old
      /\ q.read = user /\ q.pc = pc
  BY <1>1, <1>2 DEF Requests, RequestType, Pcs
<1> HIDE DEF q
<1>5. q \in Requests
  BY <1>1, <1>2, <1>4 DEF Requests, Sound, Generating, Submitting
<1> QED
  BY <1>3, <1>4, <1>5 DEF pc

LEMMA UpdateMoves ==
  ASSUME Typed, NEW c \in Clients, updateUser(c)
  PROVE  \E q \in Requests :
           /\ Move(c, q) /\ q.kind = request[c].kind /\ q.code = request[c].code /\ q.pc = "del"
           /\ q.write.exists = user.exists /\ q.write.block = "none"
<1> DEFINE verified == user.verified \/ request[c].kind = "verify"
           w == [user EXCEPT !.attempts = 0, !.block = "none", !.verified = verified]
           q == [request[c] EXCEPT !.pc = "del", !.write = w]
<1>1. /\ request[c] \in Requests /\ user \in UserType /\ request[c].kind \in Submitting /\ request[c].code \in Codes
      /\ verified \in BOOLEAN
  BY DEF updateUser, Typed, TablesTyped, Requests, Sound
<1>2. Move(c, q)
  BY DEF updateUser
<1> HIDE DEF verified
<1>3. w \in UserType /\ w.exists = user.exists /\ w.block = "none"
  <2> DEFINE v == [user EXCEPT !.attempts = 0, !.block = "none"]
  <2>1. v \in UserType /\ v.exists = user.exists /\ v.block = "none"
    BY <1>1 DEF UserType, BlockStates
  <2>2. w = [v EXCEPT !.verified = verified]
    BY <1>1 DEF UserType
  <2> HIDE DEF v, w
  <2> QED
    BY <1>1, <2>1, <2>2 DEF UserType
<1> HIDE DEF w
<1>4. /\ q \in RequestType /\ q.kind = request[c].kind /\ q.code = request[c].code /\ q.pc = "del" /\ q.write = w
      /\ q.old = request[c].old
  BY <1>1, <1>3 DEF Requests, RequestType, Pcs
<1> HIDE DEF q
<1>5. q \in Requests
  BY <1>1, <1>4 DEF Requests, Sound, Generating, Submitting
<1> QED
  BY <1>2, <1>3, <1>4, <1>5

-----------------------------------------------------------------------------
(* Types, step by step *)

LEMMA RoomMeansRoom ==
  ASSUME Typed, RoomToGenerate
  PROVE  generated + Cardinality(Pending) < MaxCodes
<1>1. Pending = {c \in Clients : request[c].kind \in {"register", "forgot", "resend"}
                        /\ request[c].pc \in {"read", "find", "unblock", "begin", "mail", "generate"}}
  BY DEF Pending, Pends
<1>2. generated + Cardinality(Pending) < IF alone THEN MaxCodes ELSE MaxAtOnce
  BY <1>1 DEF RoomToGenerate
<1>3. IsFiniteSet(Pending)
  BY CodesAssumption, FS_Subset DEF Pending
<1>4. Cardinality(Pending) \in Nat /\ generated \in Nat
  BY <1>3, FS_CardinalityType DEF Typed, Counted
<1> HIDE DEF RoomToGenerate
<1> QED
  BY <1>2, <1>4, CodesAssumption

\* what a request's step does to the count of the codes
Tallies(c, q) ==
  /\ Move(c, q)
  /\ \/ /\ generated' = generated /\ mailed' = mailed
        /\ ~Pends(q) \/ Pends(request[c]) \/ generated + Cardinality(Pending) < MaxCodes
     \/ /\ generated' = generated + 1 /\ generated + 1 \in Codes /\ mailed' \subseteq mailed \cup {generated + 1}
        /\ ~Pends(q) /\ Pends(request[c])

LEMMA TallyKeepsCount ==
  ASSUME Typed, NEW c \in Clients, NEW q \in Requests, Tallies(c, q)
  PROVE  Counted' /\ request' \in [Clients -> Requests]
<1>1. Move(c, q) /\ request \in [Clients -> Requests] /\ Counted /\ MaxCodes \in Nat
  BY CodesAssumption DEF Tallies, Typed
<1>2. request' \in [Clients -> Requests]
  BY <1>1 DEF Move
<1>3. /\ Cardinality(Pending) \in Nat /\ Cardinality(Pending') \in Nat
      /\ Cardinality(Pending') <= Cardinality(Pending) + 1
      /\ ~Pends(q) \/ Pends(request[c]) => Cardinality(Pending') <= Cardinality(Pending)
      /\ ~Pends(q) /\ Pends(request[c]) => Cardinality(Pending') = Cardinality(Pending) - 1
  BY <1>1, PendingMoves
<1> DEFINE m == Cardinality(Pending)  n == Cardinality(Pending')
<1>4. Counted' <=> /\ generated' \in Nat /\ generated' + n <= MaxCodes
                   /\ mailed' \subseteq 1..generated'
  BY DEF Counted
<1>5. generated \in Nat /\ generated + m <= MaxCodes /\ mailed \subseteq 1..generated
  BY <1>1 DEF Counted
<1> HIDE DEF m, n
<1>6. /\ m \in Nat /\ n \in Nat /\ n <= m + 1
      /\ ~Pends(q) \/ Pends(request[c]) => n <= m
      /\ ~Pends(q) /\ Pends(request[c]) => n = m - 1
  BY <1>3 DEF m, n
<1>7. generated' \in Nat /\ generated' + n <= MaxCodes /\ mailed' \subseteq 1..generated'
  <2>1. CASE /\ generated' = generated /\ mailed' = mailed
             /\ ~Pends(q) \/ Pends(request[c]) \/ generated + m < MaxCodes
    BY <1>1, <1>5, <1>6, <2>1
  <2>2. CASE /\ generated' = generated + 1 /\ mailed' \subseteq mailed \cup {generated + 1}
             /\ ~Pends(q) /\ Pends(request[c])
    <3>1. mailed' \subseteq 1..generated'
      BY <1>5, <2>2
    <3> QED
      BY <1>1, <1>5, <1>6, <2>2, <3>1
  <2> QED
    BY <2>1, <2>2 DEF Tallies, m
<1> QED
  BY <1>2, <1>4, <1>7

LEMMA BeginTallies ==
  ASSUME Typed, NEW c \in Clients, Begin(c)
  PROVE  \E q \in Requests : Tallies(c, q)
<1>1. CASE register(c)
  <2>1. PICK q \in Requests : Move(c, q)
    BY <1>1, RegisterMoves
  <2>2. generated + Cardinality(Pending) < MaxCodes
    BY <1>1, RoomMeansRoom DEF register
  <2> QED
    BY <1>1, <2>1, <2>2 DEF register, tables, Tallies
<1>2. CASE forgotPassword(c)
  <2>1. PICK q \in Requests : Move(c, q)
    BY <1>2, ForgotMoves
  <2>2. generated + Cardinality(Pending) < MaxCodes
    BY <1>2, RoomMeansRoom DEF forgotPassword
  <2> QED
    BY <1>2, <2>1, <2>2 DEF forgotPassword, tables, Tallies
<1>3. ASSUME NEW k \in Codes, resendOtp(c, k)
      PROVE  \E q \in Requests : Tallies(c, q)
  <2>1. PICK q \in Requests : Move(c, q)
    BY <1>3, ResendMoves
  <2>2. generated + Cardinality(Pending) < MaxCodes
    BY <1>3, RoomMeansRoom DEF resendOtp
  <2> QED
    BY <1>3, <2>1, <2>2 DEF resendOtp, tables, Tallies
<1>4. ASSUME NEW k \in Codes, NEW kind \in Submitting, submit(c, k, kind)
      PROVE  \E q \in Requests : Tallies(c, q)
  <2>1. PICK q \in Requests : Move(c, q) /\ q.kind = kind
    BY <1>4, SubmitMoves
  <2>2. ~Pends(q)
    BY <2>1 DEF Pends, Submitting
  <2> QED
    BY <1>4, <2>1, <2>2 DEF submit, tables, Tallies
<1> QED
  BY <1>1, <1>2, <1>3, <1>4 DEF Begin, verifyOtp, resetPassword, Submitting

\* A request that is over has nothing pending.
LEMMA EndTallies ==
  ASSUME Typed, NEW c \in Clients, Move(c, Idle), generated' = generated, mailed' = mailed
  PROVE  \E q \in Requests : Tallies(c, q)
<1>1. Idle \in Requests /\ ~Pends(Idle)
  BY IdleIsRequest DEF Pends
<1> QED
  BY <1>1 DEF Tallies

LEMMA SearchTallies ==
  ASSUME Typed, NEW c \in Clients, findNoCode(c) \/ unblock(c) \/ checkBlock(c) \/ begin(c)
  PROVE  \E q \in Requests : Tallies(c, q)
<1>1. /\ request[c] \in Requests /\ request[c].pc \in {"find", "unblock", "begin"}
      /\ request[c].kind \in {"register", "forgot", "resend"} /\ generated' = generated /\ mailed' = mailed
  BY DEF findNoCode, unblock, checkBlock, begin, tables, Typed, Requests, Sound, Generating
<1>2. Pends(request[c])
  BY <1>1 DEF Pends
<1>3. CASE Move(c, Idle)
  BY <1>1, <1>3, EndTallies
<1>4. ASSUME NEW q \in Requests, Move(c, q)
      PROVE  \E r \in Requests : Tallies(c, r)
  BY <1>1, <1>2, <1>4 DEF Tallies
<1>5. CASE findNoCode(c)
  BY <1>4, <1>5, FindNoCodeMoves
<1>6. CASE unblock(c)
  BY <1>4, <1>6, UnblockMoves
<1>7. CASE checkBlock(c)
  BY <1>3, <1>4, <1>7, CheckBlockMoves DEF checkBlock
<1>8. CASE begin(c)
  BY <1>3, <1>4, <1>8, BeginMoves DEF begin
<1> QED
  BY <1>5, <1>6, <1>7, <1>8

LEMMA ContinueTallies ==
  ASSUME Typed, NEW c \in Clients, Continue(c) \/ crash(c)
  PROVE  \E q \in Requests : Tallies(c, q)
<1>1. CASE (\E k \in Codes : findCode(c, k)) \/ commitCode(c) \/ dropOld(c) \/ commitSubmit(c) \/ crash(c)
  BY <1>1, EndTallies DEF findCode, commitCode, dropOld, commitSubmit, crash, tables
<1>2. CASE findNoCode(c) \/ unblock(c) \/ checkBlock(c) \/ begin(c)
  BY <1>2, SearchTallies
<1>3. CASE mailCode(c)
  <2>1. /\ generated + 1 \in Codes /\ Pends(request[c])
        /\ \E q \in Requests : Move(c, q) /\ q.pc = "cache"
    BY <1>3, NewCodeMoves DEF mailCode
  <2>2. PICK q \in Requests : Move(c, q) /\ ~Pends(q)
    BY <2>1 DEF Pends
  <2> QED
    BY <1>3, <2>1, <2>2 DEF mailCode, Tallies
<1>4. CASE generate(c)
  <2>1. /\ generated + 1 \in Codes /\ Pends(request[c])
        /\ \E q \in Requests : Move(c, q) /\ q.pc = "count"
    BY <1>4, NewCodeMoves DEF generate
  <2>2. PICK q \in Requests : Move(c, q) /\ ~Pends(q)
    BY <2>1 DEF Pends
  <2> QED
    BY <1>4, <2>1, <2>2 DEF generate, Tallies
<1>5. CASE cacheCode(c) \/ countAttempt(c) \/ recache(c) \/ delCode(c)
  <2>1. generated' = generated /\ mailed' = mailed
    BY <1>5 DEF cacheCode, countAttempt, recache, delCode
  <2>2. \E pc \in {"commit", "recache", "drop"} : \E q \in Requests : Move(c, q) /\ q.pc = pc
    BY <1>5, StatementMoves DEF cacheCode, countAttempt, recache, delCode
  <2>3. PICK q \in Requests : Move(c, q) /\ ~Pends(q)
    BY <2>2 DEF Pends
  <2> QED
    BY <2>1, <2>3 DEF Tallies
<1>6. CASE readUser(c)
  <2>1. /\ generated' = generated /\ mailed' = mailed /\ request[c].pc = "read"
    BY <1>6 DEF readUser, tables
  <2>2. CASE request[c].kind = "verify" /\ TooMany(user)
    BY <1>6, <2>1, <2>2, EndTallies DEF readUser
  <2>3. CASE ~(request[c].kind = "verify" /\ TooMany(user))
    <3>1. PICK q \in Requests :
             Move(c, q) /\ q.pc = IF request[c].kind = "resend" THEN "unblock" ELSE "update"
      BY <1>6, <2>3, ReadUserMoves
    <3>2. ~Pends(q) \/ Pends(request[c])
      BY <2>1, <3>1 DEF Pends
    <3> QED
      BY <2>1, <3>1, <3>2 DEF Tallies
  <2> QED
    BY <2>2, <2>3
<1>7. CASE updateUser(c)
  <2>1. PICK q \in Requests : Move(c, q) /\ q.pc = "del"
    BY <1>7, UpdateMoves
  <2> QED
    BY <1>7, <2>1 DEF updateUser, tables, Tallies, Pends
<1> QED
  BY <1>1, <1>2, <1>3, <1>4, <1>5, <1>6, <1>7 DEF Continue

LEMMA BeginKeepsTables ==
  ASSUME NEW c \in Clients, Begin(c)
  PROVE  UNCHANGED <<tables, crashes>>
BY DEF Begin, register, forgotPassword, resendOtp, verifyOtp, resetPassword, submit

LEMMA RequestKeepsTypes ==
  ASSUME Typed, NEW c \in Clients, Begin(c) \/ Continue(c) \/ crash(c)
  PROVE  TablesTyped'
<1>1. TablesTyped /\ request[c] \in Requests /\ request[c] \in RequestType /\ Sound(request[c]) /\ generated \in Nat
  BY DEF Typed, Counted, Requests
<1>2. CASE UNCHANGED tables /\ crashes' \in Nat
  BY <1>1, <1>2 DEF TablesTyped, tables
<1>3. CASE Begin(c) \/ findNoCode(c) \/ checkBlock(c) \/ begin(c) \/ readUser(c) \/ updateUser(c) \/ crash(c)
  <2>1. UNCHANGED tables /\ (crashes' = crashes \/ crashes' = crashes + 1)
    BY <1>3, BeginKeepsTables DEF findNoCode, checkBlock, begin, readUser, updateUser, crash
  <2> QED
    BY <1>1, <1>2, <2>1 DEF TablesTyped
<1>4. CASE \E k \in Codes : findCode(c, k)
  BY <1>1, <1>4 DEF findCode, TablesTyped
<1>5. CASE unblock(c) \/ countAttempt(c)
  <2>1. request[c].read.attempts + 1 \in Nat /\ user \in UserType
    BY <1>1 DEF RequestType, UserType, TablesTyped
  <2>2. SetAttempt(user, 0) \in UserType /\ SetAttempt(user, request[c].read.attempts + 1) \in UserType
    BY <2>1, SetAttemptType
  <2> QED
    BY <1>1, <1>5, <2>2 DEF unblock, countAttempt, TablesTyped
<1>6. CASE mailCode(c)
  BY <1>1, <1>6 DEF mailCode, TablesTyped
<1>7. CASE generate(c)
  <2>1. NewCode \in CodeType
    BY DEF NewCode, CodeType
  <2> QED
    BY <1>1, <1>7, <2>1 DEF generate, TablesTyped
<1>8. CASE cacheCode(c) \/ recache(c) \/ dropOld(c) \/ delCode(c)
  <2>1. /\ request[c].pc \in {"cache", "recache", "drop"} => request[c].code \in Codes
        /\ request[c].pc = "drop" => request[c].old \in Codes
        /\ request[c].pc = "del" => request[c].code \in Codes
    BY <1>1 DEF Sound
  <2> QED
    BY <1>1, <1>8, <2>1 DEF cacheCode, recache, dropOld, delCode, TablesTyped
<1>9. CASE commitCode(c)
  <2>1. NewCode \in CodeType
    BY DEF NewCode, CodeType
  <2>2. request[c].code \in Codes /\ request[c].write \in UserType
    BY <1>1, <1>9 DEF commitCode, Sound, RequestType
  <2> QED
    BY <1>1, <1>9, <2>1, <2>2 DEF commitCode, TablesTyped
<1>10. CASE commitSubmit(c)
  <2>1. request[c].code \in Codes /\ request[c].write \in UserType
    BY <1>1, <1>10 DEF commitSubmit, Sound, RequestType
  <2>2. codes' \in [Codes -> CodeType]
    <3>1. \A k \in Codes : codes[k] \in CodeType /\ [codes[k] EXCEPT !.consumed = TRUE] \in CodeType
      BY <1>1 DEF TablesTyped, CodeType
    <3> QED
      BY <1>10, <3>1 DEF commitSubmit
  <2>3. admitted' \in [Codes -> Nat]
    BY <1>1, <1>10, <2>1 DEF commitSubmit, TablesTyped
  <2>4. token' \in {"none", "unverified", "verified"}
    BY <1>1, <1>10 DEF commitSubmit, TablesTyped
  <2> QED
    BY <1>1, <1>10, <2>1, <2>2, <2>3, <2>4 DEF commitSubmit, TablesTyped
<1> QED
  BY <1>3, <1>4, <1>5, <1>6, <1>7, <1>8, <1>9, <1>10 DEF Continue

\* time
WorldSteps == blockRunsOut \/ \E k \in Codes : expireCode(k) \/ evict(k)

LEMMA WorldKeepsTypes ==
  ASSUME Typed, WorldSteps
  PROVE  TablesTyped' /\ Counted' /\ request' = request
<1>1. TablesTyped /\ Counted
  BY DEF Typed
<1>2. UNCHANGED <<request, generated, mailed>>
  BY DEF WorldSteps, blockRunsOut, expireCode, evict
<1>3. Counted'
  BY <1>1, <1>2 DEF Counted, Pending
<1>4. CASE blockRunsOut
  <2>1. user' \in UserType
    BY <1>1, <1>4 DEF blockRunsOut, TablesTyped, UserType, BlockStates
  <2> QED
    BY <1>1, <1>2, <1>3, <1>4, <2>1 DEF blockRunsOut, TablesTyped
<1>5. ASSUME NEW k \in Codes, expireCode(k) \/ evict(k)
      PROVE  TablesTyped'
  <2>1. codes' \in [Codes -> CodeType]
    BY <1>1, <1>5 DEF expireCode, evict, TablesTyped, CodeType
  <2> QED
    BY <1>1, <1>5, <2>1 DEF expireCode, evict, TablesTyped
<1> QED
  BY <1>2, <1>3, <1>4, <1>5 DEF WorldSteps

LEMMA NextIs ==
  ASSUME Next
  PROVE  /\ WorldSteps \/ \E c \in Clients : Begin(c) \/ Continue(c) \/ crash(c)
         /\ alone' = (alone /\ InTurn')
BY DEF Next, WorldSteps

LEMMA TypedStep == Typed /\ [Next]_vars => Typed'
<1> SUFFICES ASSUME Typed, [Next]_vars
             PROVE  Typed'
  OBVIOUS
<1>1. CASE UNCHANGED vars
  BY <1>1 DEF vars, Typed, TablesTyped, Counted, Pending
<1>2. CASE Next
  <2>1. alone' \in BOOLEAN
    BY <1>2, NextIs DEF Typed, InTurn
  <2>2. CASE WorldSteps
    BY <2>1, <2>2, WorldKeepsTypes DEF Typed
  <2>3. ASSUME NEW c \in Clients, Begin(c) \/ Continue(c) \/ crash(c)
        PROVE  Typed'
    <3>1. PICK q \in Requests : Tallies(c, q)
      BY <2>3, BeginTallies, ContinueTallies
    <3> QED
      BY <2>1, <2>3, <3>1, TallyKeepsCount, RequestKeepsTypes DEF Typed
  <2> QED
    BY <1>2, <2>2, <2>3, NextIs
<1> QED
  BY <1>1, <1>2

LEMMA TypedInit == Init => Typed
<1> SUFFICES ASSUME Init
             PROVE  Typed
  OBVIOUS
<1>1. Pending = {}
  BY IdleIsRequest DEF Init, Pending, Pends
<1>2. Counted
  BY <1>1, FS_EmptySet, CodesAssumption DEF Init, Counted
<1>3. NoCode \in CodeType
  BY DEF NoCode, CodeType
<1> QED
  BY <1>2, <1>3, IdleIsRequest DEF Init, Typed, TablesTyped

LEMMA AlwaysTyped == Spec => []Typed
BY TypedInit, TypedStep, PTL DEF Spec

\* The bound on the codes holds of those generated.
LEMMA CodedTyped ==
  ASSUME Typed
  PROVE  generated \in Nat /\ generated <= MaxCodes /\ mailed \subseteq Codes /\ 1..generated \subseteq Codes
<1>1. IsFiniteSet(Pending)
  BY CodesAssumption, FS_Subset DEF Pending
<1>2. Cardinality(Pending) \in Nat
  BY <1>1, FS_CardinalityType
<1>3. generated \in Nat /\ generated <= MaxCodes
  BY <1>2, CodesAssumption DEF Typed, Counted
<1> QED
  BY <1>3, CodesAssumption DEF Typed, Counted, Codes

\* The types, and never more codes than the bound: what limits the model does so
\* before a code is promised to a request, not after.
THEOREM TypesHold == Spec => []TypeOK
<1>1. Typed => TypeOK
  <2> SUFFICES ASSUME Typed
               PROVE  TypeOK
    OBVIOUS
  <2>1. generated \in Nat /\ generated <= MaxCodes /\ mailed \subseteq Codes
    BY CodedTyped
  <2>2. generated \in 0..MaxCodes
    BY <2>1, CodesAssumption
  <2>3. request \in [Clients -> RequestType]
    BY DEF Typed, Requests
  <2> QED
    BY <2>1, <2>2, <2>3 DEF Typed, TablesTyped, TypeOK, RequestType
<1> QED
  BY <1>1, AlwaysTyped, PTL

-----------------------------------------------------------------------------
(* A mailed code works *)

\* A request of register or forgotPassword whose code is mailed and not committed
Fresh(q) == q.pc \in {"cache", "commit"} /\ q.kind \in Generating

FreshSound(q) ==
  Fresh(q) => /\ q.code \in 1..generated /\ codes[q.code].status = "none"
              /\ q.pc = "commit" => q.code \in cache \cup dropped

\* A mailed code that is live is in the cache or deleted from it by a request; what
\* makes this inductive is that a code whose row is still to come is nobody else's.
MailInv ==
  /\ \A k \in Codes : k > generated => codes[k].status = "none"
  /\ \A k \in mailed : Live(k) => k \in cache \cup dropped
  /\ \A c \in Clients : FreshSound(request[c])
  /\ \A c, d \in Clients : c # d /\ Fresh(request[c]) /\ Fresh(request[d]) => request[c].code # request[d].code

\* A step that changes no status and loses no code of the cache
Calm(c, q) ==
  /\ Move(c, q) /\ generated' = generated /\ mailed' = mailed
  /\ \A k \in Codes : codes'[k].status = codes[k].status
  /\ cache \cup dropped \subseteq cache' \cup dropped'
  /\ Fresh(q) => /\ Fresh(request[c]) /\ q.code = request[c].code
                 /\ q.pc = "commit" => q.code \in cache' \cup dropped'

LEMMA CalmKeepsMail ==
  ASSUME Typed, MailInv, NEW c \in Clients, NEW q \in Requests, Calm(c, q)
  PROVE  MailInv'
<1>1. /\ request \in [Clients -> Requests] /\ mailed \subseteq Codes /\ 1..generated \subseteq Codes
  BY CodedTyped DEF Typed
<1>2. \A d \in Clients : request'[d] = IF d = c THEN q ELSE request[d]
  BY <1>1 DEF Calm, Move
<1>3. \A k \in Codes : k > generated' => codes'[k].status = "none"
  BY DEF Calm, MailInv
<1>4. \A k \in mailed' : Live(k)' => k \in cache' \cup dropped'
  BY <1>1 DEF Calm, MailInv, Live
<1>5. ASSUME NEW d \in Clients
      PROVE  FreshSound(request[d])'
  <2>1. CASE d = c
    <3>1. FreshSound(request[c])
      BY DEF MailInv
    <3>2. Fresh(q) => /\ q.code \in 1..generated' /\ codes'[q.code].status = "none"
                      /\ q.pc = "commit" => q.code \in cache' \cup dropped'
      BY <1>1, <3>1 DEF Calm, FreshSound
    <3> QED
      BY <1>2, <2>1, <3>2 DEF FreshSound, Fresh
  <2>2. CASE d # c
    <3>1. FreshSound(request[d]) /\ request'[d] = request[d]
      BY <1>2, <2>2 DEF MailInv
    <3> QED
      BY <1>1, <3>1 DEF Calm, FreshSound, Fresh
  <2> QED
    BY <2>1, <2>2
<1>6. \A d, e \in Clients : d # e /\ Fresh(request'[d]) /\ Fresh(request'[e]) => request'[d].code # request'[e].code
  BY <1>2 DEF Calm, MailInv
<1> QED
  BY <1>3, <1>4, <1>5, <1>6 DEF MailInv, Fresh

LEMMA MailCodeKeepsMail ==
  ASSUME Typed, MailInv, NEW c \in Clients, mailCode(c)
  PROVE  MailInv'
<1>1. PICK q \in Requests : Move(c, q) /\ q.pc = "cache" /\ q.code = generated + 1
  BY NewCodeMoves DEF mailCode
<1>2. generated + 1 \in Codes /\ generated \in Nat /\ request \in [Clients -> Requests] /\ mailed \subseteq 1..generated
  BY NewCodeMoves DEF mailCode, Typed, Counted
<1>3. UNCHANGED <<codes, cache, dropped>> /\ generated' = generated + 1 /\ mailed' = mailed \cup {generated + 1}
  BY DEF mailCode
<1>4. \A d \in Clients : request'[d] = IF d = c THEN q ELSE request[d]
  BY <1>1, <1>2 DEF Move
<1>5. codes[generated + 1].status = "none"
  BY <1>2 DEF MailInv
<1>6. \A k \in Codes : k > generated' => codes'[k].status = "none"
  BY <1>2, <1>3 DEF MailInv, Codes
<1>7. \A k \in mailed' : Live(k)' => k \in cache' \cup dropped'
  BY <1>3, <1>5 DEF MailInv, Live
<1>8. ASSUME NEW d \in Clients
      PROVE  FreshSound(request[d])' /\ (d # c /\ Fresh(request[d]') => request[d]'.code # generated + 1)
  <2>1. CASE d = c
    BY <1>1, <1>2, <1>3, <1>4, <1>5, <2>1 DEF FreshSound
  <2>2. CASE d # c
    BY <1>2, <1>3, <1>4, <2>2 DEF FreshSound, Fresh, MailInv
  <2> QED
    BY <2>1, <2>2
<1>9. \A d, e \in Clients : d # e /\ Fresh(request'[d]) /\ Fresh(request'[e]) => request'[d].code # request'[e].code
  BY <1>1, <1>4, <1>8 DEF MailInv
<1> QED
  BY <1>6, <1>7, <1>8, <1>9 DEF MailInv, Fresh

LEMMA GenerateKeepsMail ==
  ASSUME Typed, MailInv, NEW c \in Clients, generate(c)
  PROVE  MailInv'
<1>1. PICK q \in Requests : Move(c, q) /\ q.pc = "count"
  BY NewCodeMoves DEF generate
<1>2. /\ generated + 1 \in Codes /\ generated \in Nat /\ request \in [Clients -> Requests]
      /\ mailed \subseteq 1..generated /\ codes \in [Codes -> CodeType]
  BY NewCodeMoves DEF generate, Typed, TablesTyped, Counted
<1>3. /\ UNCHANGED <<mailed, cache, dropped>> /\ generated' = generated + 1
      /\ codes' = [codes EXCEPT ![generated + 1] = NewCode]
  BY DEF generate
<1>4. \A d \in Clients : request'[d] = IF d = c THEN q ELSE request[d]
  BY <1>1, <1>2 DEF Move
<1>5. ~Fresh(q)
  BY <1>1 DEF Fresh
<1>6. \A k \in Codes : k # generated + 1 => codes'[k] = codes[k]
  BY <1>2, <1>3
<1>7. \A k \in Codes : k > generated' => codes'[k].status = "none"
  BY <1>2, <1>3, <1>6 DEF MailInv, Codes
<1>8. \A k \in 1..generated : k \in Codes /\ codes'[k] = codes[k]
  BY <1>2, <1>6, CodedTyped
<1>9. \A k \in mailed' : Live(k)' => k \in cache' \cup dropped'
  BY <1>2, <1>3, <1>8 DEF MailInv, Live
<1>10. ASSUME NEW d \in Clients
       PROVE  FreshSound(request[d])'
  <2>1. CASE d = c
    BY <1>4, <1>5, <2>1 DEF FreshSound, Fresh
  <2>2. CASE d # c
    <3>1. FreshSound(request[d]) /\ request'[d] = request[d]
      BY <1>4, <2>2 DEF MailInv
    <3> QED
      BY <1>2, <1>3, <1>8, <3>1 DEF FreshSound, Fresh
  <2> QED
    BY <2>1, <2>2
<1>11. \A d, e \in Clients : d # e /\ Fresh(request'[d]) /\ Fresh(request'[e]) => request'[d].code # request'[e].code
  BY <1>4, <1>5 DEF MailInv
<1> QED
  BY <1>7, <1>9, <1>10, <1>11 DEF MailInv, Fresh

LEMMA CommitCodeKeepsMail ==
  ASSUME Typed, MailInv, NEW c \in Clients, commitCode(c)
  PROVE  MailInv'
<1>1. /\ Move(c, Idle) /\ request[c].code \in Codes /\ request[c].code \in 1..generated
      /\ request[c].code \in cache \cup dropped /\ Fresh(request[c])
  BY DEF commitCode, Typed, Requests, Sound, MailInv, FreshSound, Fresh, Generating
<1>2. /\ generated \in Nat /\ request \in [Clients -> Requests] /\ mailed \subseteq Codes
      /\ codes \in [Codes -> CodeType] /\ 1..generated \subseteq Codes
  BY CodedTyped DEF Typed, TablesTyped, Counted
<1> DEFINE k0 == request[c].code
<1>3. UNCHANGED <<mailed, cache, dropped, generated>> /\ codes' = [codes EXCEPT ![k0] = NewCode]
  BY DEF commitCode
<1>4. \A d \in Clients : request'[d] = IF d = c THEN Idle ELSE request[d]
  BY <1>1, <1>2 DEF Move
<1>5. ~Fresh(Idle)
  BY IdleIsRequest DEF Fresh
<1>6. \A d \in Clients : d # c /\ Fresh(request[d]) => request[d].code # k0
  BY <1>1 DEF MailInv
<1>7. k0 \in Codes /\ k0 \in 1..generated /\ k0 \in cache \cup dropped
  BY <1>1
<1> HIDE DEF k0
<1>8. \A k \in Codes : k # k0 => codes'[k] = codes[k]
  BY <1>2, <1>3
<1>9. \A k \in Codes : k > generated' => codes'[k].status = "none"
  BY <1>2, <1>3, <1>7, <1>8 DEF MailInv, Codes
<1>10. \A k \in mailed' : Live(k)' => k \in cache' \cup dropped'
  BY <1>2, <1>3, <1>7, <1>8 DEF MailInv, Live
<1>11. ASSUME NEW d \in Clients
       PROVE  FreshSound(request[d])'
  <2>1. CASE d = c
    BY <1>4, <1>5, <2>1 DEF FreshSound, Fresh
  <2>2. CASE d # c
    <3>1. FreshSound(request[d]) /\ request'[d] = request[d]
      BY <1>4, <2>2 DEF MailInv
    <3> QED
      BY <1>2, <1>3, <1>6, <1>8, <2>2, <3>1 DEF FreshSound, Fresh
  <2> QED
    BY <2>1, <2>2
<1>12. \A d, e \in Clients : d # e /\ Fresh(request'[d]) /\ Fresh(request'[e]) => request'[d].code # request'[e].code
  BY <1>4, <1>5 DEF MailInv
<1> QED
  BY <1>9, <1>10, <1>11, <1>12 DEF MailInv, Fresh

LEMMA WorldKeepsMail ==
  ASSUME Typed, MailInv, WorldSteps
  PROVE  MailInv'
<1>1. UNCHANGED <<request, generated, mailed, dropped>>
  BY DEF WorldSteps, blockRunsOut, expireCode, evict
<1>2. mailed \subseteq Codes /\ 1..generated \subseteq Codes /\ codes \in [Codes -> CodeType]
  BY CodedTyped DEF Typed, TablesTyped
<1>3. CASE blockRunsOut
  BY <1>1, <1>3 DEF blockRunsOut, MailInv, FreshSound, Fresh, Live
<1>4. ASSUME NEW k \in Codes, expireCode(k) \/ evict(k)
      PROVE  MailInv'
  <2>1. codes[k].status \in {"live", "expired"} /\ (k \in cache' \/ codes'[k].status = "expired")
        /\ \A j \in Codes : j # k => codes'[j] = codes[j] /\ (j \in cache => j \in cache')
        /\ (codes'[k].status = "expired" \/ codes'[k] = codes[k])
        /\ cache' \subseteq cache
    BY <1>2, <1>4 DEF expireCode, evict, Live, CodeType
  <2>2. \A j \in Codes : j > generated' => codes'[j].status = "none"
    BY <1>1, <2>1 DEF MailInv
  <2>3. \A j \in mailed' : Live(j)' => j \in cache' \cup dropped'
    BY <1>1, <1>2, <2>1 DEF MailInv, Live
  <2>4. ASSUME NEW d \in Clients
        PROVE  FreshSound(request[d])'
    <3>1. FreshSound(request[d])
      BY DEF MailInv
    <3> QED
      BY <1>1, <1>2, <2>1, <3>1 DEF FreshSound, Fresh
  <2> QED
    BY <1>1, <2>2, <2>3, <2>4 DEF MailInv, Fresh
<1> QED
  BY <1>3, <1>4 DEF WorldSteps

\* A request that ends or goes anywhere but to its commit does so calmly when it
\* leaves the statuses and the cache alone.
LEMMA AwayIsCalm ==
  ASSUME NEW c \in Clients, NEW q, Move(c, q), ~Fresh(q), generated' = generated, mailed' = mailed,
         \A k \in Codes : codes'[k].status = codes[k].status, cache \cup dropped \subseteq cache' \cup dropped'
  PROVE  Calm(c, q)
BY DEF Calm

LEMMA BeginIsCalm ==
  ASSUME Typed, NEW c \in Clients, Begin(c)
  PROVE  \E q \in Requests : Calm(c, q)
<1>1. UNCHANGED <<generated, mailed, codes, cache, dropped>>
  BY BeginKeepsTables DEF tables
<1>2. ASSUME NEW q \in Requests, Move(c, q), ~Fresh(q)
      PROVE  \E r \in Requests : Calm(c, r)
  BY <1>1, <1>2, AwayIsCalm
<1>3. CASE register(c)
  <2>1. \E q \in Requests : Move(c, q) /\ q.pc \in {"find", "begin"}
    BY <1>3, RegisterMoves
  <2> QED
    BY <2>1, <1>2 DEF Fresh
<1>4. CASE forgotPassword(c)
  BY <1>2, <1>4, ForgotMoves DEF Fresh
<1>5. ASSUME NEW k \in Codes, resendOtp(c, k)
      PROVE  \E q \in Requests : Calm(c, q)
  BY <1>2, <1>5, ResendMoves DEF Fresh
<1>6. ASSUME NEW k \in Codes, NEW kind \in Submitting, submit(c, k, kind)
      PROVE  \E q \in Requests : Calm(c, q)
  BY <1>2, <1>6, SubmitMoves DEF Fresh
<1> QED
  BY <1>3, <1>4, <1>5, <1>6 DEF Begin, verifyOtp, resetPassword, Submitting

LEMMA IdleMoveIsCalm ==
  ASSUME NEW c \in Clients, Move(c, Idle), generated' = generated, mailed' = mailed,
         \A k \in Codes : codes'[k].status = codes[k].status, cache \cup dropped \subseteq cache' \cup dropped'
  PROVE  \E q \in Requests : Calm(c, q)
<1>1. Idle \in Requests /\ ~Fresh(Idle)
  BY IdleIsRequest DEF Fresh
<1> QED
  BY <1>1, AwayIsCalm

LEMMA ContinueIsCalm ==
  ASSUME Typed, NEW c \in Clients, Continue(c) \/ crash(c), ~mailCode(c), ~generate(c), ~commitCode(c)
  PROVE  \E q \in Requests : Calm(c, q)
<1>1. CASE (\E k \in Codes : findCode(c, k)) \/ crash(c)
  BY <1>1, IdleMoveIsCalm DEF findCode, crash, tables
<1>2. CASE dropOld(c)
  BY <1>2, IdleMoveIsCalm DEF dropOld
<1>3. CASE commitSubmit(c)
  <2>1. \A k \in Codes : codes'[k].status = codes[k].status
    BY <1>3 DEF commitSubmit, Typed, TablesTyped, CodeType
  <2> QED
    BY <1>3, <2>1, IdleMoveIsCalm DEF commitSubmit
<1>4. CASE findNoCode(c) \/ unblock(c) \/ checkBlock(c) \/ begin(c) \/ readUser(c) \/ updateUser(c) \/ countAttempt(c)
  <2>1. UNCHANGED <<generated, mailed, codes, cache, dropped>>
    BY <1>4 DEF findNoCode, unblock, checkBlock, begin, readUser, updateUser, countAttempt, tables
  <2>2. ASSUME NEW q \in Requests, Move(c, q), ~Fresh(q)
        PROVE  \E r \in Requests : Calm(c, r)
    BY <2>1, <2>2, AwayIsCalm
  <2>3. CASE Move(c, Idle)
    BY <2>1, <2>3, IdleMoveIsCalm
  <2>4. CASE findNoCode(c)
    <3>1. \E q \in Requests : Move(c, q) /\ q.pc \in {"unblock", "begin"}
      BY <2>4, FindNoCodeMoves
    <3> QED
      BY <2>2, <3>1 DEF Fresh
  <2>5. request[c].pc = "unblock" => AfterUnblock(request[c].kind) \in {"begin", "find", "generate"}
    BY DEF Typed, Requests, Sound, Generating, AfterUnblock
  <2>6. CASE unblock(c) \/ checkBlock(c)
    <3>1. CASE unblock(c)
      <4>1. \E q \in Requests : Move(c, q) /\ q.pc \in {"begin", "find", "generate"}
        BY <2>5, <3>1, UnblockMoves DEF unblock
      <4> QED
        BY <2>2, <4>1 DEF Fresh
    <3>2. CASE checkBlock(c) /\ ~TooMany(request[c].read)
      <4>1. \E q \in Requests : Move(c, q) /\ q.pc \in {"begin", "find", "generate"}
        BY <2>5, <3>2, CheckBlockMoves DEF checkBlock
      <4> QED
        BY <2>2, <4>1 DEF Fresh
    <3> QED
      BY <2>3, <2>6, <3>1, <3>2 DEF checkBlock
  <2>7. CASE begin(c)
    <3>1. CASE ~(user.exists /\ ~request[c].read.exists)
      BY <2>2, <2>7, <3>1, BeginMoves DEF Fresh
    <3> QED
      BY <2>3, <2>7, <3>1 DEF begin
  <2>8. CASE readUser(c)
    <3>1. CASE ~(request[c].kind = "verify" /\ TooMany(user))
      <4>1. \E q \in Requests : Move(c, q) /\ q.pc \in {"unblock", "update"}
        BY <2>8, <3>1, ReadUserMoves
      <4> QED
        BY <2>2, <4>1 DEF Fresh
    <3> QED
      BY <2>3, <2>8, <3>1 DEF readUser
  <2>9. CASE updateUser(c)
    BY <2>2, <2>9, UpdateMoves DEF Fresh
  <2>10. CASE countAttempt(c)
    <3>1. \E q \in Requests : Move(c, q) /\ q.pc = "recache"
      BY <2>10, StatementMoves DEF countAttempt
    <3> QED
      BY <2>2, <3>1 DEF Fresh
  <2> QED
    BY <1>4, <2>4, <2>6, <2>7, <2>8, <2>9, <2>10
<1>5. CASE cacheCode(c)
  <2>1. request[c].pc = "cache" /\ request[c].kind \in Generating
    BY <1>5 DEF cacheCode, Typed, Requests, Sound
  <2>2. PICK q \in Requests : Move(c, q) /\ Same(q, request[c]) /\ q.pc = "commit"
    BY <1>5, StatementMoves DEF cacheCode
  <2> QED
    BY <1>5, <2>1, <2>2 DEF cacheCode, Calm, Fresh, Same
<1>6. CASE recache(c)
  <2>1. PICK q \in Requests : Move(c, q) /\ q.pc = "drop"
    BY <1>6, StatementMoves DEF recache
  <2> QED
    BY <1>6, <2>1, AwayIsCalm DEF recache, Fresh
<1>7. CASE delCode(c)
  <2>1. request[c].kind \in Submitting
    BY <1>7 DEF delCode, Typed, Requests, Sound
  <2>2. PICK q \in Requests : Move(c, q) /\ Same(q, request[c]) /\ q.pc = "commit"
    BY <1>7, StatementMoves DEF delCode
  <2>3. ~Fresh(q)
    BY <2>1, <2>2 DEF Fresh, Same, Generating, Submitting
  <2> QED
    BY <1>7, <2>2, <2>3, AwayIsCalm DEF delCode
<1> QED
  BY <1>1, <1>2, <1>3, <1>4, <1>5, <1>6, <1>7 DEF Continue

LEMMA MailInit == Init => MailInv
BY IdleIsRequest DEF Init, MailInv, NoCode, FreshSound, Fresh

LEMMA MailStep == Typed /\ MailInv /\ [Next]_vars => MailInv'
<1> SUFFICES ASSUME Typed, MailInv, [Next]_vars
             PROVE  MailInv'
  OBVIOUS
<1>1. CASE UNCHANGED vars
  BY <1>1 DEF vars, MailInv, FreshSound, Fresh, Live
<1>2. CASE WorldSteps
  BY <1>2, WorldKeepsMail
<1>3. ASSUME NEW c \in Clients, Begin(c) \/ Continue(c) \/ crash(c)
      PROVE  MailInv'
  BY <1>3, BeginIsCalm, ContinueIsCalm, CalmKeepsMail, MailCodeKeepsMail, GenerateKeepsMail, CommitCodeKeepsMail
<1> QED
  BY <1>1, <1>2, <1>3, NextIs

\* A code that was handed out and mailed works until it expires or a request deletes
\* it, whatever fails and however the requests interleave: the copy of register and
\* forgotPassword is in the cache before their row is committed.
THEOREM MailedCodesAlwaysWork == Spec => []MailedCodesWork
<1>1. MailInv => MailedCodesWork
  BY DEF MailInv, MailedCodesWork
<1>2. Typed /\ MailInv /\ [Next]_vars => Typed' /\ MailInv'
  BY TypedStep, MailStep
<1> QED
  BY <1>1, <1>2, TypedInit, MailInit, PTL DEF Spec

-----------------------------------------------------------------------------
(* Nothing happens before the user exists *)

\* Without a user there is no block, no code and no request but a registration; a
\* transaction leaves a user behind.
ExistsInv ==
  /\ user.exists \/ /\ user.block = "none" /\ handed = {}
                    /\ \A k \in Codes : codes[k].status = "none"
                    /\ \A c \in Clients : request[c].kind \in {"none", "register"}
  /\ \A c \in Clients : request[c].pc \in {"mail", "cache", "del", "commit"} => request[c].write.exists

\* what a step of a request does about that
Founded(c, q) ==
  /\ Move(c, q)
  /\ q.pc \in {"mail", "cache", "del", "commit"} => q.write.exists
  /\ user'.exists \/ /\ ~user.exists /\ user'.block = "none" /\ UNCHANGED <<handed, codes>>
                     /\ q.kind \in {"none", "register"}

LEMMA FoundedKeepsExists ==
  ASSUME Typed, ExistsInv, NEW c \in Clients, NEW q \in Requests, Founded(c, q)
  PROVE  ExistsInv'
<1>1. \A d \in Clients : request'[d] = IF d = c THEN q ELSE request[d]
  BY DEF Typed, Founded, Move
<1> QED
  BY <1>1 DEF Founded, ExistsInv

LEMMA BeginIsFounded ==
  ASSUME Typed, ExistsInv, NEW c \in Clients, Begin(c)
  PROVE  \E q \in Requests : Founded(c, q)
<1>1. UNCHANGED <<user, handed, codes>>
  BY BeginKeepsTables DEF tables
<1>2. user \in UserType /\ (~user.exists => user.block = "none" /\ handed = {})
  BY DEF ExistsInv, Typed, TablesTyped
<1>3. CASE register(c)
  <2>1. PICK q \in Requests : Move(c, q) /\ q.kind = "register" /\ q.pc \in {"find", "begin"}
    BY <1>3, RegisterMoves
  <2> QED
    BY <1>1, <1>2, <2>1 DEF Founded, UserType
<1>4. CASE forgotPassword(c)
  BY <1>1, <1>4, ForgotMoves DEF Founded, forgotPassword
<1>5. ASSUME NEW k \in Codes, resendOtp(c, k)
      PROVE  \E q \in Requests : Founded(c, q)
  BY <1>1, <1>2, <1>5, ResendMoves DEF Founded, resendOtp
<1>6. ASSUME NEW k \in Codes, NEW kind \in Submitting, submit(c, k, kind)
      PROVE  \E q \in Requests : Founded(c, q)
  BY <1>1, <1>2, <1>6, SubmitMoves DEF Founded, submit
<1> QED
  BY <1>3, <1>4, <1>5, <1>6 DEF Begin, verifyOtp, resetPassword, Submitting

LEMMA ContinueIsFounded ==
  ASSUME Typed, ExistsInv, NEW c \in Clients, Continue(c) \/ crash(c)
  PROVE  \E q \in Requests : Founded(c, q)
<1>1. /\ request[c] \in Requests /\ user \in UserType /\ user.exists \in BOOLEAN /\ Sound(request[c])
      /\ request[c].write \in UserType
  BY DEF Typed, TablesTyped, UserType, Requests, RequestType
<1>2. /\ ~user.exists => user.block = "none" /\ request[c].kind \in {"none", "register"}
      /\ request[c].pc \in {"mail", "cache", "del", "commit"} => request[c].write.exists
      /\ \A k \in Codes : Live(k) => user.exists
  BY DEF ExistsInv, Live
<1>3. Idle \in Requests /\ Idle.pc = "idle" /\ Idle.kind = "none"
  BY IdleIsRequest
<1>4. ASSUME Move(c, Idle), user'.exists \/ UNCHANGED <<user, handed, codes>>
      PROVE  \E q \in Requests : Founded(c, q)
  BY <1>1, <1>2, <1>3, <1>4 DEF Founded
<1>5. ASSUME NEW q \in Requests, Move(c, q), q.kind = request[c].kind, UNCHANGED <<user, handed, codes>>,
             q.pc \in {"mail", "cache", "del", "commit"} => q.write.exists
      PROVE  \E r \in Requests : Founded(c, r)
  BY <1>1, <1>2, <1>5 DEF Founded
<1>6. request[c].pc = "unblock" => AfterUnblock(request[c].kind) \in {"begin", "find", "generate"}
  BY <1>1 DEF Sound, Generating, AfterUnblock
<1>7. CASE (\E k \in Codes : findCode(c, k)) \/ crash(c)
  BY <1>2, <1>4, <1>7 DEF findCode, crash, tables, Outstanding
<1>8. CASE findNoCode(c)
  <2>1. \E q \in Requests : Move(c, q) /\ q.kind = request[c].kind /\ q.pc \in {"unblock", "begin"}
    BY <1>8, FindNoCodeMoves DEF Same
  <2> QED
    BY <1>5, <1>8, <2>1 DEF findNoCode, tables
<1>9. CASE unblock(c)
  <2>1. PICK q \in Requests : Move(c, q) /\ q.kind = request[c].kind /\ q.pc \in {"begin", "find", "generate"}
    BY <1>6, <1>9, UnblockMoves DEF unblock
  <2>2. user'.exists = user.exists /\ user'.block = "none"
    BY <1>1, <1>9, SetAttemptType DEF unblock
  <2> QED
    BY <1>1, <1>2, <1>9, <2>1, <2>2 DEF unblock, Founded
<1>10. CASE checkBlock(c)
  <2>1. CASE TooMany(request[c].read)
    BY <1>4, <1>10, <2>1 DEF checkBlock, tables
  <2>2. CASE ~TooMany(request[c].read)
    <3>1. \E q \in Requests : Move(c, q) /\ q.kind = request[c].kind /\ q.pc \in {"begin", "find", "generate"}
      BY <1>6, <1>10, <2>2, CheckBlockMoves DEF checkBlock, Same
    <3> QED
      BY <1>5, <1>10, <3>1 DEF checkBlock, tables
  <2> QED
    BY <2>1, <2>2
<1>11. CASE begin(c)
  <2>1. CASE user.exists /\ ~request[c].read.exists
    BY <1>4, <1>11, <2>1 DEF begin, tables
  <2>2. CASE ~(user.exists /\ ~request[c].read.exists)
    BY <1>5, <1>11, <2>2, BeginMoves DEF begin, tables
  <2> QED
    BY <2>1, <2>2
<1>12. CASE mailCode(c)
  BY <1>2, <1>5, <1>12, NewCodeMoves DEF mailCode
<1>13. CASE cacheCode(c) \/ delCode(c)
  <2>1. /\ request[c].pc \in {"cache", "del"} /\ UNCHANGED <<user, handed, codes>>
        /\ \E q \in Requests : Move(c, q) /\ Same(q, request[c])
    BY <1>13, StatementMoves DEF cacheCode, delCode
  <2> QED
    BY <1>2, <1>5, <2>1 DEF Same
<1>14. CASE commitCode(c) \/ commitSubmit(c)
  BY <1>2, <1>4, <1>14 DEF commitCode, commitSubmit
<1>15. CASE generate(c) \/ countAttempt(c) \/ recache(c) \/ dropOld(c)
  <2>1. user.exists
    BY <1>1, <1>2, <1>15 DEF generate, countAttempt, recache, dropOld, Sound
  <2>2. user'.exists
    <3>1. request[c].read.attempts + 1 \in Nat
      BY <1>1 DEF Requests, RequestType, UserType
    <3> QED
      BY <1>1, <1>15, <2>1, <3>1, SetAttemptType DEF generate, countAttempt, recache, dropOld
  <2>3. \E q \in Requests : Move(c, q) /\ q.pc \in {"count", "recache", "drop", "idle"}
    <3>1. CASE generate(c)
      BY <3>1, NewCodeMoves DEF generate
    <3>2. CASE countAttempt(c)
      BY <3>2, StatementMoves DEF countAttempt
    <3>3. CASE recache(c)
      BY <3>3, StatementMoves DEF recache
    <3>4. CASE dropOld(c)
      BY <1>3, <3>4 DEF dropOld
    <3> QED
      BY <1>15, <3>1, <3>2, <3>3, <3>4
  <2> QED
    BY <2>2, <2>3 DEF Founded
<1>16. CASE readUser(c)
  <2>1. CASE request[c].kind = "verify" /\ TooMany(user)
    BY <1>4, <1>16, <2>1 DEF readUser, tables
  <2>2. CASE ~(request[c].kind = "verify" /\ TooMany(user))
    <3>1. \E q \in Requests : Move(c, q) /\ q.kind = request[c].kind /\ q.pc \in {"unblock", "update"}
      BY <1>16, <2>2, ReadUserMoves
    <3> QED
      BY <1>5, <1>16, <3>1 DEF readUser, tables
  <2> QED
    BY <2>1, <2>2
<1>17. CASE updateUser(c)
  <2>1. user.exists
    BY <1>1, <1>2, <1>17 DEF updateUser, Sound, Submitting
  <2> QED
    BY <1>5, <1>17, <2>1, UpdateMoves DEF updateUser, tables
<1> QED
  BY <1>7, <1>8, <1>9, <1>10, <1>11, <1>12, <1>13, <1>14, <1>15, <1>16, <1>17 DEF Continue

LEMMA WorldKeepsExists ==
  ASSUME Typed, ExistsInv, WorldSteps
  PROVE  ExistsInv'
<1>1. UNCHANGED <<request, handed>> /\ user \in UserType
  BY DEF WorldSteps, blockRunsOut, expireCode, evict, Typed, TablesTyped
<1>2. CASE blockRunsOut
  <2>1. user.exists /\ user'.exists
    BY <1>1, <1>2 DEF blockRunsOut, ExistsInv, UserType
  <2> QED
    BY <1>1, <2>1 DEF ExistsInv
<1>3. ASSUME NEW k \in Codes, expireCode(k) \/ evict(k)
      PROVE  ExistsInv'
  <2>1. user' = user /\ (user.exists \/ codes' = codes)
    BY <1>3 DEF expireCode, evict, Live, ExistsInv
  <2> QED
    BY <1>1, <2>1 DEF ExistsInv
<1> QED
  BY <1>2, <1>3 DEF WorldSteps

LEMMA ExistsInit == Init => ExistsInv
BY IdleIsRequest DEF Init, ExistsInv, NoCode, NoUser

LEMMA ExistsStep == Typed /\ ExistsInv /\ [Next]_vars => ExistsInv'
<1> SUFFICES ASSUME Typed, ExistsInv, [Next]_vars
             PROVE  ExistsInv'
  OBVIOUS
<1>1. CASE UNCHANGED vars
  BY <1>1 DEF vars, ExistsInv
<1>2. CASE WorldSteps
  BY <1>2, WorldKeepsExists
<1>3. ASSUME NEW c \in Clients, Begin(c) \/ Continue(c) \/ crash(c)
      PROVE  ExistsInv'
  BY <1>3, BeginIsFounded, ContinueIsFounded, FoundedKeepsExists
<1> QED
  BY <1>1, <1>2, <1>3, NextIs

-----------------------------------------------------------------------------
(* Requests in turn *)

\* a block comes with its attempts
Earned(u) == u.block # "none" => u.attempts > 2

TablesInTurn ==
  /\ Earned(user)
  /\ \A k \in Codes : /\ admitted[k] <= 1
                      /\ admitted[k] > 0 => k \notin cache /\ k <= generated

\* A request that has still to look at the block has read one that is long when it
\* still is; one that has looked saw none.
BlockSeen(q) ==
  /\ q.pc = "unblock" \/ (q.pc = "find" /\ q.kind = "register") =>
       (user.block = "long" => q.read.block = "long" /\ q.read.attempts > 2)
  /\ q.pc \in {"begin", "mail", "generate"} \/ (q.pc = "find" /\ q.kind = "forgot") => user.block # "long"

\* The attempts it counts from are the user's, and it commits no unearned block.
AttemptsRead(q) ==
  /\ q.pc \in {"find", "unblock", "begin"} /\ q.kind \in Generating => q.read.attempts = user.attempts
  /\ q.pc \in {"mail", "cache", "del", "commit"} => Earned(q.write)

\* The code it caches or submits has admitted nobody.
CodeUnused(q) ==
  /\ q.pc \in {"cache", "count", "recache"} => admitted[q.code] = 0
  /\ q.kind \in Submitting => q.code <= generated /\ admitted[q.code] = 0
  /\ q.kind \in Submitting /\ q.pc = "commit" => q.code \notin cache

Orderly(q) == BlockSeen(q) /\ AttemptsRead(q) /\ CodeUnused(q)

\* While requests come in turn, what a request has read is still so.
AloneInv == alone => InTurn /\ TablesInTurn /\ \A c \in Clients : Orderly(request[c])

LEMMA IdleIsOrderly == Orderly(Idle) /\ Orderly(Idle)'
BY IdleIsRequest DEF Orderly, BlockSeen, AttemptsRead, CodeUnused, Submitting

\* The request that takes a step has the place to itself.
LEMMA OthersAreIdle ==
  ASSUME Typed, InTurn, InTurn', NEW c \in Clients, Begin(c) \/ Continue(c) \/ crash(c),
         NEW d \in Clients, d # c
  PROVE  request'[d] = Idle
<1>1. \E q \in Requests : Move(c, q)
  BY BeginTallies, ContinueTallies DEF Tallies
<1>2. request'[d] = request[d]
  BY <1>1 DEF Move, Typed
<1>3. CASE Begin(c)
  <2>1. \E q \in Requests : Move(c, q) /\ q.kind # "none"
    <3>1. CASE register(c)
      BY <3>1, RegisterMoves
    <3>2. CASE forgotPassword(c)
      BY <3>2, ForgotMoves
    <3>3. ASSUME NEW k \in Codes, resendOtp(c, k)
          PROVE  \E q \in Requests : Move(c, q) /\ q.kind # "none"
      BY <3>3, ResendMoves
    <3>4. ASSUME NEW k \in Codes, NEW kind \in Submitting, submit(c, k, kind)
          PROVE  \E q \in Requests : Move(c, q) /\ q.kind # "none"
      BY <3>4, SubmitMoves DEF Submitting
    <3> QED
      BY <1>3, <3>1, <3>2, <3>3, <3>4 DEF Begin, verifyOtp, resetPassword, Submitting
  <2>2. request'[c] # Idle
    BY <2>1, IdleIsRequest DEF Move, Typed
  <2> QED
    BY <2>2 DEF InTurn
<1>4. CASE Continue(c) \/ crash(c)
  <2>1. request[c] # Idle
    <3>1. CASE crash(c)
      BY <3>1 DEF crash
    <3>2. CASE Continue(c)
      <4>1. request[c].pc # "idle"
        BY <3>2 DEF Continue, findCode, findNoCode, unblock, checkBlock, begin, mailCode, cacheCode, commitCode,
              generate, countAttempt, recache, dropOld, readUser, updateUser, delCode, commitSubmit
      <4> QED
        BY <4>1, IdleIsRequest
    <3> QED
      BY <1>4, <3>1, <3>2
  <2> QED
    BY <1>2, <2>1 DEF InTurn
<1> QED
  BY <1>3, <1>4

\* what a step of a request in turn leaves
Settles(c) == TablesInTurn' /\ \E q \in Requests : Move(c, q) /\ Orderly(q)'

LEMMA SettlingKeepsTurns ==
  ASSUME Typed, AloneInv, alone, InTurn', NEW c \in Clients, Begin(c) \/ Continue(c) \/ crash(c), Settles(c)
  PROVE  TablesInTurn' /\ \A d \in Clients : Orderly(request[d])'
<1>1. PICK q \in Requests : Move(c, q) /\ Orderly(q)'
  BY DEF Settles
<1>2. request'[c] = q
  BY <1>1 DEF Move, Typed
<1>3. ASSUME NEW d \in Clients
      PROVE  Orderly(request[d])'
  <2>1. CASE d = c
    BY <1>1, <1>2, <2>1 DEF Orderly, BlockSeen, AttemptsRead, CodeUnused
  <2>2. CASE d # c
    <3>1. request'[d] = Idle
      BY <2>2, OthersAreIdle DEF AloneInv
    <3> QED
      BY <3>1, IdleIsOrderly DEF Orderly, BlockSeen, AttemptsRead, CodeUnused
  <2> QED
    BY <2>1, <2>2
<1> QED
  BY <1>3 DEF Settles

LEMMA BeginSettles ==
  ASSUME Typed, ExistsInv, TablesInTurn, NEW c \in Clients, Begin(c)
  PROVE  Settles(c)
<1>1. UNCHANGED <<user, cache, generated, admitted>>
  BY BeginKeepsTables DEF tables
<1>2. TablesInTurn'
  BY <1>1 DEF TablesInTurn
<1>3. Earned(user) /\ user \in UserType /\ (~user.exists => user.block = "none")
  BY DEF TablesInTurn, Typed, TablesTyped, ExistsInv
<1>4. ASSUME NEW q \in Requests, Move(c, q), Orderly(q)
      PROVE  Settles(c)
  <2>1. Orderly(q)'
    BY <1>1, <1>4 DEF Orderly, BlockSeen, AttemptsRead, CodeUnused
  <2> QED
    BY <1>2, <1>4, <2>1 DEF Settles
<1>5. CASE register(c)
  <2>1. PICK q \in Requests : /\ Move(c, q) /\ q.kind = "register" /\ q.read = user
                              /\ q.pc = IF user.exists THEN "find" ELSE "begin"
    BY <1>5, RegisterMoves
  <2>2. BlockSeen(q) /\ AttemptsRead(q)
    BY <1>3, <2>1 DEF BlockSeen, AttemptsRead, Earned
  <2>3. CodeUnused(q)
    BY <2>1 DEF CodeUnused, Submitting
  <2> QED
    BY <1>4, <2>1, <2>2, <2>3 DEF Orderly
<1>6. CASE forgotPassword(c)
  <2>1. PICK q \in Requests : Move(c, q) /\ q.kind = "forgot" /\ q.read = user /\ q.pc = "unblock"
    BY <1>6, ForgotMoves
  <2> QED
    BY <1>3, <1>4, <2>1 DEF Orderly, BlockSeen, AttemptsRead, CodeUnused, Earned, Submitting
<1>7. ASSUME NEW k \in Codes, resendOtp(c, k)
      PROVE  Settles(c)
  <2>1. PICK q \in Requests : Move(c, q) /\ q.kind = "resend" /\ q.pc = "read"
    BY <1>7, ResendMoves
  <2> QED
    BY <1>4, <2>1 DEF Orderly, BlockSeen, AttemptsRead, CodeUnused, Submitting
<1>8. ASSUME NEW k \in Codes, NEW kind \in Submitting, submit(c, k, kind)
      PROVE  Settles(c)
  <2>1. PICK q \in Requests : Move(c, q) /\ q.kind = kind /\ q.code = k /\ q.pc = "read"
    BY <1>8, SubmitMoves
  <2>2. k \in mailed /\ k \in cache
    BY <1>8 DEF submit
  <2>3. k <= generated /\ admitted[k] = 0
    BY <2>2 DEF Typed, TablesTyped, Counted, TablesInTurn
  <2> QED
    BY <1>4, <2>1, <2>3 DEF Orderly, BlockSeen, AttemptsRead, CodeUnused, Submitting
<1> QED
  BY <1>5, <1>6, <1>7, <1>8 DEF Begin, verifyOtp, resetPassword, Submitting

LEMMA SearchSettles ==
  ASSUME Typed, TablesInTurn, NEW c \in Clients, Orderly(request[c]),
         findNoCode(c) \/ checkBlock(c) \/ begin(c) \/ readUser(c) \/ updateUser(c)
  PROVE  Settles(c)
<1>1. UNCHANGED <<user, cache, generated, admitted>>
  BY DEF findNoCode, checkBlock, begin, readUser, updateUser, tables
<1>2. TablesInTurn'
  BY <1>1 DEF TablesInTurn
<1>3. /\ Earned(user) /\ user \in UserType /\ request[c] \in Requests /\ Sound(request[c])
      /\ request[c].read \in UserType
  BY DEF TablesInTurn, Typed, TablesTyped, Requests, RequestType
<1>4. ASSUME NEW q \in Requests, Move(c, q), Orderly(q)
      PROVE  Settles(c)
  <2>1. Orderly(q)'
    BY <1>1, <1>4 DEF Orderly, BlockSeen, AttemptsRead, CodeUnused
  <2> QED
    BY <1>2, <1>4, <2>1 DEF Settles
<1>5. CASE Move(c, Idle)
  BY <1>4, <1>5, IdleIsOrderly, IdleIsRequest
<1>6. CASE findNoCode(c)
  <2>1. PICK q \in Requests : /\ Move(c, q) /\ Same(q, request[c])
                              /\ q.pc = IF request[c].kind = "register" THEN "unblock" ELSE "begin"
    BY <1>6, FindNoCodeMoves
  <2>2. request[c].pc = "find" /\ request[c].kind \in {"register", "forgot"}
    BY <1>3, <1>6 DEF findNoCode, Sound, Generating
  <2> QED
    BY <1>4, <2>1, <2>2 DEF Orderly, BlockSeen, AttemptsRead, CodeUnused, Same, Generating, Submitting
<1>7. CASE checkBlock(c)
  <2>1. CASE TooMany(request[c].read)
    BY <1>5, <1>7, <2>1 DEF checkBlock
  <2>2. CASE ~TooMany(request[c].read)
    <3>1. PICK q \in Requests : /\ Move(c, q) /\ Same(q, request[c]) /\ q.pc = AfterUnblock(request[c].kind)
      BY <1>7, <2>2, CheckBlockMoves
    <3>2. request[c].pc = "unblock" /\ request[c].kind \in {"register", "forgot", "resend"}
      BY <1>3, <1>7 DEF checkBlock, Sound, Generating
    <3>3. q.pc \in {"begin", "find", "generate"} /\ (q.pc = "find" => request[c].kind = "forgot")
      BY <3>1, <3>2 DEF AfterUnblock
    <3>4. user.block # "long"
      BY <1>3, <2>2, <3>2 DEF Orderly, BlockSeen, TooMany, InFuture
    <3> QED
      BY <1>4, <3>1, <3>2, <3>3, <3>4 DEF Orderly, BlockSeen, AttemptsRead, CodeUnused, Same, Generating, Submitting
  <2> QED
    BY <2>1, <2>2
<1>8. CASE begin(c)
  <2>1. CASE user.exists /\ ~request[c].read.exists
    BY <1>5, <1>8, <2>1 DEF begin
  <2>2. CASE ~(user.exists /\ ~request[c].read.exists)
    <3>1. PICK q \in Requests :
            /\ Move(c, q) /\ q.kind = request[c].kind /\ q.pc = "mail"
            /\ q.write.exists /\ q.write.attempts = request[c].read.attempts + 1 /\ q.write.block = user.block
      BY <1>8, <2>2, BeginMoves
    <3>2. request[c].pc = "begin" /\ request[c].kind \in Generating
      BY <1>8 DEF begin, Generating
    <3>3. user.block # "long" /\ request[c].read.attempts = user.attempts /\ user.attempts \in Nat
      BY <1>3, <3>2 DEF Orderly, BlockSeen, AttemptsRead, UserType
    <3>4. Earned(q.write)
      BY <1>3, <3>1, <3>3 DEF Earned
    <3> QED
      BY <1>4, <3>1, <3>2, <3>3, <3>4 DEF Orderly, BlockSeen, AttemptsRead, CodeUnused, Generating, Submitting
  <2> QED
    BY <2>1, <2>2
<1>9. CASE readUser(c)
  <2>1. CASE request[c].kind = "verify" /\ TooMany(user)
    BY <1>5, <1>9, <2>1 DEF readUser
  <2>2. CASE ~(request[c].kind = "verify" /\ TooMany(user))
    <3>1. PICK q \in Requests :
            /\ Move(c, q) /\ q.kind = request[c].kind /\ q.code = request[c].code
            /\ q.read = user /\ q.pc = IF request[c].kind = "resend" THEN "unblock" ELSE "update"
      BY <1>9, <2>2, ReadUserMoves
    <3>2. request[c].kind \in {"verify", "reset", "resend"}
      BY <1>3, <1>9 DEF readUser, Sound, Submitting
    <3>3. BlockSeen(q) /\ AttemptsRead(q)
      BY <1>3, <3>1, <3>2 DEF BlockSeen, AttemptsRead, Earned, Generating
    <3>4. CodeUnused(q)
      BY <3>1 DEF Orderly, CodeUnused
    <3> QED
      BY <1>4, <3>1, <3>3, <3>4 DEF Orderly
  <2> QED
    BY <2>1, <2>2
<1>10. CASE updateUser(c)
  <2>1. PICK q \in Requests :
          /\ Move(c, q) /\ q.kind = request[c].kind /\ q.code = request[c].code /\ q.pc = "del"
          /\ q.write.block = "none"
    BY <1>10, UpdateMoves
  <2> QED
    BY <1>4, <2>1 DEF Orderly, BlockSeen, AttemptsRead, CodeUnused, Earned
<1> QED
  BY <1>6, <1>7, <1>8, <1>9, <1>10

\* A request that ends leaves only the tables to be looked at.
LEMMA EndSettles ==
  ASSUME NEW c \in Clients, Move(c, Idle), TablesInTurn'
  PROVE  Settles(c)
BY IdleIsOrderly, IdleIsRequest DEF Settles

LEMMA GenerateSettles ==
  ASSUME Typed, TablesInTurn, NEW c \in Clients, Orderly(request[c]),
         \/ unblock(c) \/ mailCode(c) \/ cacheCode(c) \/ commitCode(c)
         \/ generate(c) \/ countAttempt(c) \/ recache(c) \/ dropOld(c)
  PROVE  Settles(c)
<1>1. /\ Earned(user) /\ user \in UserType /\ request[c] \in Requests /\ Sound(request[c])
      /\ request[c].read.attempts + 1 \in Nat /\ generated \in Nat /\ admitted \in [Codes -> Nat]
  BY DEF TablesInTurn, Typed, TablesTyped, Counted, Requests, RequestType, UserType
<1>2. \A k \in Codes : admitted[k] <= 1 /\ (admitted[k] > 0 => k \notin cache /\ k <= generated)
  BY DEF TablesInTurn
<1>3. CASE unblock(c)
  <2>1. PICK q \in Requests :
          /\ Move(c, q) /\ q.kind = request[c].kind /\ q.read = SetAttempt(user, 0)
          /\ q.pc = AfterUnblock(request[c].kind)
    BY <1>3, UnblockMoves
  <2>2. request[c].kind \in {"register", "forgot", "resend"} /\ q.pc \in {"begin", "find", "generate"}
        /\ (q.pc = "find" => q.kind = "forgot")
    BY <1>1, <1>3, <2>1 DEF unblock, Sound, Generating, AfterUnblock
  <2>3. /\ user' = SetAttempt(user, 0) /\ UNCHANGED <<cache, generated, admitted>>
    BY <1>3 DEF unblock
  <2>4. user'.attempts = 0 /\ user'.block = "none" /\ q.read.attempts = user'.attempts
    BY <1>1, <2>1, <2>3, SetAttemptType
  <2>5. TablesInTurn'
    BY <1>2, <2>3, <2>4 DEF TablesInTurn, Earned
  <2>6. Orderly(q)'
    BY <2>1, <2>2, <2>4 DEF Orderly, BlockSeen, AttemptsRead, CodeUnused, Submitting
  <2> QED
    BY <2>1, <2>5, <2>6 DEF Settles
<1>4. CASE mailCode(c) \/ generate(c)
  <2>1. /\ UNCHANGED <<user, cache, admitted>> /\ generated' = generated + 1
        /\ request[c].pc \in {"mail", "generate"}
    BY <1>4 DEF mailCode, generate
  <2>2. PICK q \in Requests : /\ Move(c, q) /\ q.pc \in {"cache", "count"} /\ q.code = generated + 1
                              /\ q.kind = request[c].kind /\ q.write = request[c].write
                              /\ generated + 1 \in Codes /\ (q.pc = "cache" => request[c].pc = "mail")
    <3>1. CASE mailCode(c)
      BY <3>1, NewCodeMoves DEF mailCode
    <3>2. CASE generate(c)
      BY <3>2, NewCodeMoves DEF generate
    <3> QED
      BY <1>4, <3>1, <3>2
  <2>3. TablesInTurn'
    BY <1>1, <1>2, <2>1 DEF TablesInTurn, Codes
  <2>4. admitted[generated + 1] = 0
    BY <1>1, <1>2, <2>2
  <2>5. request[c].kind \notin Submitting
    BY <1>1, <2>1 DEF Sound, Generating, Submitting
  <2>6. Orderly(q)'
    BY <2>1, <2>2, <2>4, <2>5 DEF Orderly, BlockSeen, AttemptsRead, CodeUnused
  <2> QED
    BY <2>2, <2>3, <2>6 DEF Settles
<1>5. CASE cacheCode(c) \/ recache(c)
  <2>1. /\ UNCHANGED <<user, generated, admitted>> /\ cache' = cache \cup {request[c].code}
        /\ request[c].pc \in {"cache", "recache"}
    BY <1>5 DEF cacheCode, recache
  <2>2. PICK q \in Requests : /\ Move(c, q) /\ Same(q, request[c]) /\ q.pc \in {"commit", "drop"}
                              /\ (q.pc = "commit" => request[c].pc = "cache")
    BY <1>5, StatementMoves DEF cacheCode, recache
  <2>3. admitted[request[c].code] = 0 /\ request[c].code \in Codes
    BY <1>1, <2>1 DEF Orderly, CodeUnused, Sound
  <2>4. TablesInTurn'
    BY <1>1, <1>2, <2>1, <2>3 DEF TablesInTurn
  <2>5. request[c].kind \notin Submitting
    BY <1>1, <2>1 DEF Sound, Generating, Submitting
  <2>6. Orderly(q)'
    BY <2>1, <2>2, <2>5 DEF Orderly, BlockSeen, AttemptsRead, CodeUnused, Same
  <2> QED
    BY <2>2, <2>4, <2>6 DEF Settles
<1>6. CASE commitCode(c)
  <2>1. /\ user' = request[c].write /\ UNCHANGED <<cache, generated, admitted>> /\ Move(c, Idle)
        /\ Earned(request[c].write)
    BY <1>6 DEF commitCode, Orderly, AttemptsRead
  <2>2. TablesInTurn'
    BY <1>2, <2>1 DEF TablesInTurn, Earned
  <2> QED
    BY <2>1, <2>2, EndSettles
<1>7. CASE countAttempt(c)
  <2>1. /\ user' = SetAttempt(user, request[c].read.attempts + 1) /\ UNCHANGED <<cache, generated, admitted>>
        /\ request[c].pc = "count"
    BY <1>7 DEF countAttempt
  <2>2. PICK q \in Requests : Move(c, q) /\ Same(q, request[c]) /\ q.pc = "recache"
    BY <1>7, StatementMoves DEF countAttempt
  <2>3. user'.block # "none" => user'.attempts > 2
    <3> DEFINE n == request[c].read.attempts + 1
    <3>1. n \in Nat /\ user' = SetAttempt(user, n)
      BY <1>1, <2>1
    <3> HIDE DEF n
    <3>2. user'.attempts = n /\ user'.block = IF n >= 3 THEN "long" ELSE "none"
      BY <1>1, <3>1, SetAttemptType
    <3> QED
      BY <3>1, <3>2
  <2>4. TablesInTurn'
    BY <1>2, <2>1, <2>3 DEF TablesInTurn, Earned
  <2>5. Orderly(q)'
    BY <1>1, <2>1, <2>2 DEF Orderly, BlockSeen, AttemptsRead, CodeUnused, Same, Sound, Submitting
  <2> QED
    BY <2>2, <2>4, <2>5 DEF Settles
<1>8. CASE dropOld(c)
  <2>1. UNCHANGED <<user, generated, admitted>> /\ cache' \subseteq cache /\ Move(c, Idle)
    BY <1>8 DEF dropOld
  <2>2. TablesInTurn'
    BY <1>1, <1>2, <2>1 DEF TablesInTurn
  <2> QED
    BY <2>1, <2>2, EndSettles
<1> QED
  BY <1>3, <1>4, <1>5, <1>6, <1>7, <1>8

LEMMA SubmitSettles ==
  ASSUME Typed, TablesInTurn, NEW c \in Clients, Orderly(request[c]),
         (\E k \in Codes : findCode(c, k)) \/ crash(c) \/ delCode(c) \/ commitSubmit(c)
  PROVE  Settles(c)
<1>1. request[c] \in Requests /\ Sound(request[c]) /\ generated \in Nat /\ admitted \in [Codes -> Nat]
  BY DEF Typed, TablesTyped, Counted, Requests
<1>2. \A k \in Codes : admitted[k] <= 1 /\ (admitted[k] > 0 => k \notin cache /\ k <= generated)
  BY DEF TablesInTurn
<1>3. CASE (\E k \in Codes : findCode(c, k)) \/ crash(c)
  <2>1. UNCHANGED <<user, cache, generated, admitted>> /\ Move(c, Idle)
    BY <1>3 DEF findCode, crash, tables
  <2>2. TablesInTurn'
    BY <2>1 DEF TablesInTurn
  <2> QED
    BY <2>1, <2>2, EndSettles
<1>4. CASE delCode(c)
  <2>1. /\ UNCHANGED <<user, generated, admitted>> /\ cache' = cache \ {request[c].code}
        /\ request[c].pc = "del"
    BY <1>4 DEF delCode
  <2>2. PICK q \in Requests : Move(c, q) /\ Same(q, request[c]) /\ q.pc = "commit"
    BY <1>4, StatementMoves DEF delCode
  <2>3. TablesInTurn'
    BY <1>2, <2>1 DEF TablesInTurn
  <2>4. Orderly(q)'
    BY <2>1, <2>2 DEF Orderly, BlockSeen, AttemptsRead, CodeUnused, Same
  <2> QED
    BY <2>2, <2>3, <2>4 DEF Settles
<1>5. CASE commitSubmit(c)
  <2>1. /\ user' = request[c].write /\ UNCHANGED <<cache, generated>> /\ Move(c, Idle)
        /\ admitted' = [admitted EXCEPT ![request[c].code] = @ + 1]
        /\ request[c].pc = "commit" /\ request[c].kind \in Submitting
    BY <1>5 DEF commitSubmit, Submitting
  <2>2. /\ Earned(request[c].write) /\ request[c].code \in Codes
        /\ admitted[request[c].code] = 0 /\ request[c].code \notin cache /\ request[c].code <= generated
    BY <1>1, <2>1 DEF Orderly, AttemptsRead, CodeUnused, Sound
  <2>3. TablesInTurn'
    <3>1. ASSUME NEW k \in Codes
          PROVE  admitted'[k] <= 1 /\ (admitted'[k] > 0 => k \notin cache' /\ k <= generated')
      BY <1>1, <1>2, <2>1, <2>2
    <3> QED
      BY <2>1, <2>2, <3>1 DEF TablesInTurn, Earned
  <2> QED
    BY <2>1, <2>3, EndSettles
<1> QED
  BY <1>3, <1>4, <1>5

LEMMA WorldKeepsTurns ==
  ASSUME Typed, TablesInTurn, WorldSteps
  PROVE  TablesInTurn' /\ \A c \in Clients : Orderly(request[c]) => Orderly(request[c])'
<1>1. /\ UNCHANGED <<request, generated, admitted>> /\ cache' \subseteq cache
      /\ user'.attempts = user.attempts /\ (user'.block # user.block => user.block # "none")
      /\ (user'.block = "long" => user.block = "long")
  <2>1. CASE blockRunsOut
    BY <2>1 DEF blockRunsOut, Typed, TablesTyped, UserType
  <2>2. CASE \E k \in Codes : expireCode(k) \/ evict(k)
    BY <2>2 DEF expireCode, evict
  <2> QED
    BY <2>1, <2>2 DEF WorldSteps
<1>2. TablesInTurn'
  BY <1>1 DEF TablesInTurn, Earned
<1>3. ASSUME NEW c \in Clients, Orderly(request[c])
      PROVE  Orderly(request[c])'
  BY <1>1, <1>3 DEF Orderly, BlockSeen, AttemptsRead, CodeUnused
<1> QED
  BY <1>2, <1>3

LEMMA ContinueSettles ==
  ASSUME Typed, TablesInTurn, NEW c \in Clients, Orderly(request[c]), Continue(c) \/ crash(c)
  PROVE  Settles(c)
BY SearchSettles, GenerateSettles, SubmitSettles DEF Continue

LEMMA AloneInit == Init => AloneInv
<1> SUFFICES ASSUME Init
             PROVE  AloneInv
  OBVIOUS
<1>1. \A c \in Clients : request[c] = Idle
  BY DEF Init
<1>2. InTurn /\ TablesInTurn
  BY <1>1 DEF Init, InTurn, TablesInTurn, Earned, NoUser
<1> QED
  BY <1>1, <1>2, IdleIsOrderly DEF AloneInv

LEMMA AloneStep == Typed /\ ExistsInv /\ AloneInv /\ [Next]_vars => AloneInv'
<1> SUFFICES ASSUME Typed, ExistsInv, AloneInv, [Next]_vars, alone'
             PROVE  InTurn' /\ TablesInTurn' /\ \A c \in Clients : Orderly(request[c])'
  BY DEF AloneInv
<1>1. CASE UNCHANGED vars
  BY <1>1 DEF vars, AloneInv, InTurn, TablesInTurn, Orderly, BlockSeen, AttemptsRead, CodeUnused
<1>2. CASE Next
  <2>1. alone /\ InTurn' /\ InTurn /\ TablesInTurn /\ \A c \in Clients : Orderly(request[c])
    BY <1>2, NextIs DEF AloneInv
  <2>2. CASE WorldSteps
    BY <2>1, <2>2, WorldKeepsTurns
  <2>3. ASSUME NEW c \in Clients, Begin(c) \/ Continue(c) \/ crash(c)
        PROVE  TablesInTurn' /\ \A d \in Clients : Orderly(request[d])'
    <3>1. Settles(c)
      BY <2>1, <2>3, BeginSettles, ContinueSettles
    <3> QED
      BY <2>1, <2>3, <3>1, SettlingKeepsTurns
  <2> QED
    BY <1>2, <2>1, <2>2, <2>3, NextIs
<1> QED
  BY <1>1, <1>2

LEMMA AlwaysInTurn == Spec => [](Typed /\ AloneInv)
<1>1. Init => Typed /\ ExistsInv /\ AloneInv
  BY TypedInit, ExistsInit, AloneInit
<1>2. Typed /\ ExistsInv /\ AloneInv /\ [Next]_vars => Typed' /\ ExistsInv' /\ AloneInv'
  BY TypedStep, ExistsStep, AloneStep
<1> QED
  BY <1>1, <1>2, PTL DEF Spec

\* As long as requests come one at a time, a code admits one verification or reset:
\* a submitted code leaves the cache before it admits, and no request puts a code
\* back that has admitted.
THEOREM CodesAdmitOnce == Spec => []CodeAdmitsOnce
<1>1. AloneInv => CodeAdmitsOnce
  BY DEF AloneInv, TablesInTurn, CodeAdmitsOnce
<1> QED
  BY <1>1, AlwaysInTurn, PTL

\* As long as requests come one at a time, a block comes with the attempts that
\* explain it: no request commits a row whose block it did not count for.
THEOREM BlocksAreEarned == Spec => []BlockIsEarned
<1>1. AloneInv => BlockIsEarned
  BY DEF AloneInv, TablesInTurn, Earned, BlockIsEarned
<1> QED
  BY <1>1, AlwaysInTurn, PTL

\* As long as requests come one at a time, a user blocked for a minute or more gets
\* no code: whoever generates one has looked at the block, and it was over.
THEOREM BlockedUsersGetNoCode == Spec => BlockedGeneratesNothing
<1> DEFINE Blocked == alone /\ user.block = "long" => generated' = generated
<1>1. Typed /\ AloneInv /\ [Next]_vars => [Blocked]_vars
  <2> SUFFICES ASSUME Typed, AloneInv, Next, alone, user.block = "long"
               PROVE  generated' = generated
    OBVIOUS
  <2>1. CASE WorldSteps
    BY <2>1 DEF WorldSteps, blockRunsOut, expireCode, evict
  <2>2. ASSUME NEW c \in Clients, Begin(c) \/ Continue(c) \/ crash(c)
        PROVE  generated' = generated
    <3>1. Orderly(request[c])
      BY DEF AloneInv
    <3>2. ~mailCode(c) /\ ~generate(c)
      BY <3>1 DEF Orderly, BlockSeen, mailCode, generate
    <3>3. CASE Begin(c)
      BY <3>3, BeginKeepsTables DEF tables
    <3>4. CASE Continue(c) \/ crash(c)
      BY <3>2, <3>4 DEF Continue, findCode, findNoCode, unblock, checkBlock, begin, cacheCode, commitCode,
            countAttempt, recache, dropOld, readUser, updateUser, delCode, commitSubmit, crash, tables
    <3> QED
      BY <2>2, <3>3, <3>4
  <2> QED
    BY <2>1, <2>2, NextIs
<1>2. Spec => [][Blocked]_vars
  BY <1>1, AlwaysInTurn, PTL DEF Spec
<1> QED
  BY <1>2 DEF BlockedGeneratesNothing
=============================================================================
