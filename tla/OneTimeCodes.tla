----------------------------- MODULE OneTimeCodes -----------------------------
(***************************************************************************)
(* Email verification and password reset by one-time codes, for one email: *)
(* AuthService.register, forgotPassword and resetPassword,                 *)
(* MailAuthService.verifyOtp and resendOtp, OneTimeCodeService.            *)
(*                                                                         *)
(* A code has a row in OneTimeCodes and a copy in the Redis cache; only    *)
(* the copy carries the OTP in clear.  An action is the code between two   *)
(* awaits.  A transaction keeps the user's row locked from its first       *)
(* statement; its writes to the database appear when it commits, those to  *)
(* the cache at once.  Codes are numbered in the order of their creation.  *)
(***************************************************************************)
EXTENDS Naturals, FiniteSets

CONSTANTS
  Clients,     \* requests in flight at once
  MaxCodes,    \* bound on the codes ever generated, while requests come in turn...
  MaxAtOnce,   \* ... and once two have been in flight at once
  MaxCrashes   \* bound on the requests that fail between two awaits, one less at once

ASSUME CodesAssumption ==
  /\ {MaxCodes, MaxAtOnce, MaxCrashes} \subseteq Nat /\ MaxAtOnce <= MaxCodes
  /\ IsFiniteSet(Clients)

VARIABLES
  user,      \* the user's committed row
  codes,     \* code -> its committed row of OneTimeCodes
  cache,     \* the codes in the Redis cache
  mailed,    \* the codes whose OTP was mailed
  handed,    \* the codes returned to a client
  generated, \* codes generated so far
  admitted,  \* code -> verifications and resets that it has admitted
  dropped,   \* the codes that a request deleted from the cache
  token,     \* the isVerified claim of the last tokens that verifyOtp returned
  request,   \* client -> the request it serves
  crashes,   \* requests that have failed between two awaits
  alone      \* history: no two requests have been in flight at once

vars == <<user, codes, cache, mailed, handed, generated, admitted, dropped, token, request, crashes, alone>>
tables == <<user, codes, cache, mailed, handed, generated, admitted, dropped, token>>

Codes == 1..MaxCodes

\* Minutes left of blockedAt: at least one, less than one, none; dateDiff cuts
\* the fraction off, so that both "short" and "past" count as over for it.
BlockStates == {"none", "long", "short", "past"}
InFuture(block) == block \in {"long", "short"}
DiffIsOver(block) == block \in {"short", "past"}

NoUser  == [exists |-> FALSE, verified |-> FALSE, attempts |-> 0, block |-> "none"]
NoCode  == [status |-> "none", consumed |-> FALSE]
NewCode == [status |-> "live", consumed |-> FALSE]

\* kind, next statement, the code submitted or generated, the code submitted to
\* resendOtp, the user's row as the request read it, as its transaction writes it
Idle == [kind |-> "none", pc |-> "idle", code |-> 0, old |-> 0, read |-> NoUser, write |-> NoUser]

Init ==
  /\ user = NoUser
  /\ codes = [k \in Codes |-> NoCode]
  /\ cache = {} /\ mailed = {} /\ handed = {} /\ dropped = {}
  /\ generated = 0
  /\ admitted = [k \in Codes |-> 0]
  /\ token = "none"
  /\ request = [c \in Clients |-> Idle]
  /\ crashes = 0
  /\ alone = TRUE

Move(c, r) == request' = [request EXCEPT ![c] = r]
Goto(c, pc) == Move(c, [request[c] EXCEPT !.pc = pc])

HoldsUser(c) == request[c].pc \in {"mail", "cache", "del", "consume", "commit"}
UserIsFree == \A c \in Clients : ~HoldsUser(c)

Live(k) == codes[k].status = "live"
Outstanding == {k \in Codes : Live(k) /\ ~codes[k].consumed}

\* seeded fault: counts one attempt less
SetAttemptOneLess(u, n) == [u EXCEPT !.attempts = n - 1, !.block = IF n >= 3 THEN "long" ELSE "none"]
\* setAttempt: the count, and a block from the third on
SetAttempt(u, n) == [u EXCEPT !.attempts = n, !.block = IF n >= 3 THEN "long" ELSE "none"]

\* seeded fault: blocks from the fourth attempt on
TooManyOffByOne(u) == u.attempts > 3 /\ InFuture(u.block)
TooMany(u) == u.attempts > 2 /\ InFuture(u.block)

-----------------------------------------------------------------------------
(* register and forgotPassword *)

RoomToGenerate ==
  generated + Cardinality({c \in Clients : request[c].kind \in {"register", "forgot", "resend"}
                                           /\ request[c].pc \in {"read", "find", "unblock", "begin", "mail", "generate"}})
    < IF alone THEN MaxCodes ELSE MaxAtOnce

\* A request may start beside another only within the bounds for requests at once.
RoomBeside ==
  (\E c \in Clients : request[c] # Idle) => generated <= MaxAtOnce /\ crashes < MaxCrashes

\* the user as they read it; register looks for a code first, forgot for a block
register(c) ==
  /\ request[c] = Idle /\ RoomToGenerate
  /\ Move(c, [Idle EXCEPT !.kind = "register", !.read = user,
                          !.pc = IF user.exists THEN "find" ELSE "begin"])
  /\ UNCHANGED <<tables, crashes>>

forgotPassword(c) ==
  /\ request[c] = Idle /\ RoomToGenerate
  /\ user.exists /\ user.verified
  /\ Move(c, [Idle EXCEPT !.kind = "forgot", !.read = user, !.pc = "unblock"])
  /\ UNCHANGED <<tables, crashes>>

\* getNotExpiredOtpCode: any outstanding code is handed out again...
findCode(c, k) ==
  /\ request[c].pc = "find"
  /\ k \in Outstanding
  /\ handed' = handed \cup {k}
  /\ Move(c, Idle)
  /\ UNCHANGED <<user, codes, cache, mailed, generated, admitted, dropped, token, crashes>>

\* ... and without one the request goes on
findNoCode(c) ==
  /\ request[c].pc = "find"
  /\ Outstanding = {}
  /\ Goto(c, IF request[c].kind = "register" THEN "unblock" ELSE "begin")
  /\ UNCHANGED <<tables, crashes>>

AfterUnblock(kind) ==
  CASE kind = "register" -> "begin" [] kind = "forgot" -> "find" [] kind = "resend" -> "generate"

\* a block that is over is lifted and the row read again...
unblock(c) ==
  /\ request[c].pc = "unblock"
  /\ DiffIsOver(request[c].read.block)
  /\ UserIsFree
  /\ user' = SetAttempt(user, 0)
  /\ Move(c, [request[c] EXCEPT !.read = SetAttempt(user, 0), !.pc = AfterUnblock(request[c].kind)])
  /\ UNCHANGED <<codes, cache, mailed, handed, generated, admitted, dropped, token, crashes>>

\* ... and one that is not is an error
checkBlock(c) ==
  /\ request[c].pc = "unblock"
  /\ ~DiffIsOver(request[c].read.block)
  /\ IF TooMany(request[c].read) THEN Move(c, Idle)
                                 ELSE Goto(c, AfterUnblock(request[c].kind))
  /\ UNCHANGED <<tables, crashes>>

\* the transaction: the user is created if it was not read (the email is unique),
\* the attempt counted from the row that was read
begin(c) ==
  /\ request[c].pc = "begin"
  /\ request[c].kind \in {"register", "forgot"}
  /\ UserIsFree
  /\ IF user.exists /\ ~request[c].read.exists THEN Move(c, Idle)
     ELSE Move(c, [request[c] EXCEPT !.pc = "mail",
            !.write = [user EXCEPT !.exists = TRUE, !.attempts = request[c].read.attempts + 1]])
  /\ UNCHANGED <<tables, crashes>>

\* generate and send
mailCode(c) ==
  /\ request[c].pc = "mail"
  /\ generated' = generated + 1
  /\ mailed' = mailed \cup {generated + 1}
  /\ Move(c, [request[c] EXCEPT !.pc = "cache", !.code = generated + 1])
  /\ UNCHANGED <<user, codes, cache, handed, admitted, dropped, token, crashes>>

\* seeded fault: does not cache the code
SkipCache(c) ==
  /\ request[c].pc = "cache"
  /\ Goto(c, "commit")
  /\ UNCHANGED <<tables, crashes>>

cacheCode(c) ==
  /\ request[c].pc = "cache"
  /\ cache' = cache \cup {request[c].code}
  /\ Goto(c, "commit")
  /\ UNCHANGED <<user, codes, mailed, handed, generated, admitted, dropped, token, crashes>>

commitCode(c) ==
  /\ request[c].pc = "commit"
  /\ request[c].kind \in {"register", "forgot"}
  /\ user' = request[c].write
  /\ codes' = [codes EXCEPT ![request[c].code] = NewCode]
  /\ handed' = handed \cup {request[c].code}
  /\ Move(c, Idle)
  /\ UNCHANGED <<cache, mailed, generated, admitted, dropped, token, crashes>>

-----------------------------------------------------------------------------
(* resendOtp: no transaction, and no mail *)

resendOtp(c, k) ==
  /\ request[c] = Idle /\ RoomToGenerate
  /\ k \in handed \cap cache
  /\ Move(c, [Idle EXCEPT !.kind = "resend", !.old = k, !.pc = "read"])
  /\ UNCHANGED <<tables, crashes>>

generate(c) ==
  /\ request[c].pc = "generate"
  /\ generated' = generated + 1
  /\ codes' = [codes EXCEPT ![generated + 1] = NewCode]
  /\ Move(c, [request[c] EXCEPT !.pc = "count", !.code = generated + 1])
  /\ UNCHANGED <<user, cache, mailed, handed, admitted, dropped, token, crashes>>

countAttempt(c) ==
  /\ request[c].pc = "count"
  /\ UserIsFree
  /\ user' = SetAttempt(user, request[c].read.attempts + 1)
  /\ Goto(c, "recache")
  /\ UNCHANGED <<codes, cache, mailed, handed, generated, admitted, dropped, token, crashes>>

recache(c) ==
  /\ request[c].pc = "recache"
  /\ cache' = cache \cup {request[c].code}
  /\ Goto(c, "drop")
  /\ UNCHANGED <<user, codes, mailed, handed, generated, admitted, dropped, token, crashes>>

dropOld(c) ==
  /\ request[c].pc = "drop"
  /\ cache' = cache \ {request[c].old}
  /\ dropped' = dropped \cup {request[c].old}
  /\ handed' = handed \cup {request[c].code}
  /\ Move(c, Idle)
  /\ UNCHANGED <<user, codes, mailed, generated, admitted, token, crashes>>

-----------------------------------------------------------------------------
(* verifyOtp and resetPassword: a client submits a code and the OTP it was mailed *)

submit(c, k, kind) ==
  /\ request[c] = Idle
  /\ k \in handed \cap mailed
  /\ k \in cache /\ Live(k)
  /\ Move(c, [Idle EXCEPT !.kind = kind, !.code = k, !.pc = "read"])
  /\ UNCHANGED <<tables, crashes>>

verifyOtp(c, k)     == submit(c, k, "verify")
resetPassword(c, k) == submit(c, k, "reset")

\* the user's row; verifyOtp refuses a blocked one, resetPassword does not look,
\* resendOtp looks next whether the block is over
readUser(c) ==
  /\ request[c].pc = "read"
  /\ IF request[c].kind = "verify" /\ TooMany(user) THEN Move(c, Idle)
     ELSE Move(c, [request[c] EXCEPT !.read = user,
                     !.pc = IF request[c].kind = "resend" THEN "unblock" ELSE "update"])
  /\ UNCHANGED <<tables, crashes>>

\* seeded fault: the block stays
UpdateKeepsBlock(c) ==
  /\ request[c].pc = "update"
  /\ UserIsFree
  /\ Move(c, [request[c] EXCEPT !.pc = "del",
       !.write = [user EXCEPT !.attempts = 0, !.verified = @ \/ request[c].kind = "verify"]])
  /\ UNCHANGED <<tables, crashes>>

\* the transaction updates the user...
updateUser(c) ==
  /\ request[c].pc = "update"
  /\ UserIsFree
  /\ Move(c, [request[c] EXCEPT !.pc = "del",
       !.write = [user EXCEPT !.attempts = 0, !.block = "none",
                              !.verified = @ \/ request[c].kind = "verify"]])
  /\ UNCHANGED <<tables, crashes>>

\* seeded fault: leaves the code in the cache
KeepInCache(c) ==
  /\ request[c].pc = "del"
  /\ Goto(c, "commit")
  /\ UNCHANGED <<tables, crashes>>

\* ... drops the code from the cache...
delCode(c) ==
  /\ request[c].pc = "del"
  /\ cache' = cache \ {request[c].code}
  /\ dropped' = dropped \cup {request[c].code}
  /\ Goto(c, "commit")
  /\ UNCHANGED <<user, codes, mailed, handed, generated, admitted, token, crashes>>

\* the rows consumed: verifyOtp's own code, all of them for resetPassword
Consumed(c) ==
  IF request[c].kind = "verify" THEN {request[c].code}
  ELSE {k \in Codes : codes[k].status # "none"}

\* ... and commits; verifyOtp makes its tokens of the row it read before
commitSubmit(c) ==
  /\ request[c].pc = "commit"
  /\ request[c].kind \in {"verify", "reset"}
  /\ user' = request[c].write
  /\ codes' = [k \in Codes |-> IF k \in Consumed(c) THEN [codes[k] EXCEPT !.consumed = TRUE]
                               ELSE codes[k]]
  /\ admitted' = [admitted EXCEPT ![request[c].code] = @ + 1]
  /\ token' = IF request[c].kind = "reset" THEN token
              ELSE IF request[c].read.verified THEN "verified" ELSE "unverified"
  /\ Move(c, Idle)
  /\ UNCHANGED <<cache, mailed, handed, generated, dropped, crashes>>

-----------------------------------------------------------------------------
(* Time and faults *)

\* a block runs out
blockRunsOut ==
  /\ user.block \in {"long", "short"}
  /\ UserIsFree
  /\ user' = [user EXCEPT !.block = IF @ = "long" THEN "short" ELSE "past"]
  /\ UNCHANGED <<codes, cache, mailed, handed, generated, admitted, dropped, token, request, crashes>>

\* expiresAt is reached, in the order in which the codes were generated...
expireCode(k) ==
  /\ Live(k)
  /\ \A j \in 1..(k - 1) : ~Live(j)
  /\ codes' = [codes EXCEPT ![k].status = "expired"]
  /\ UNCHANGED <<user, cache, mailed, handed, generated, admitted, dropped, token, request, crashes>>

\* ... before the copy in the cache, which was made later for the same time
evict(k) ==
  /\ k \in cache /\ codes[k].status = "expired"
  /\ cache' = cache \ {k}
  /\ UNCHANGED <<user, codes, mailed, handed, generated, admitted, dropped, token, request, crashes>>

\* an await throws or the process dies: a transaction is rolled back, the rest stays
crash(c) ==
  /\ crashes < IF alone THEN MaxCrashes ELSE MaxCrashes - 1
  /\ request[c] # Idle
  /\ Move(c, Idle)
  /\ crashes' = crashes + 1
  /\ UNCHANGED tables

-----------------------------------------------------------------------------
Begin(c) ==
  /\ RoomBeside
  /\ \/ register(c) \/ forgotPassword(c)
     \/ \E k \in Codes : resendOtp(c, k) \/ verifyOtp(c, k) \/ resetPassword(c, k)

Continue(c) ==
  \/ (\E k \in Codes : findCode(c, k)) \/ findNoCode(c) \/ unblock(c) \/ checkBlock(c)
  \/ begin(c) \/ mailCode(c) \/ cacheCode(c) \/ commitCode(c)
  \/ generate(c) \/ countAttempt(c) \/ recache(c) \/ dropOld(c)
  \/ readUser(c) \/ updateUser(c) \/ delCode(c) \/ commitSubmit(c)

InTurn == \A c, d \in Clients : request[c] = Idle \/ request[d] = Idle \/ c = d

Next ==
  /\ \/ \E c \in Clients : Begin(c) \/ Continue(c) \/ crash(c)
     \/ blockRunsOut \/ \E k \in Codes : expireCode(k) \/ evict(k)
  /\ alone' = (alone /\ InTurn')

Spec == Init /\ [][Next]_vars

-----------------------------------------------------------------------------
(* Properties *)

Kinds == {"none", "register", "forgot", "resend", "verify", "reset"}
Pcs == {"idle", "find", "unblock", "begin", "mail", "cache", "commit", "generate", "count",
        "recache", "drop", "read", "update", "del"}
UserType == [exists : BOOLEAN, verified : BOOLEAN, attempts : Nat, block : BlockStates]
CodeType == [status : {"none", "live", "expired"}, consumed : BOOLEAN]

\* The types of the rows, the cache and the requests.
TypeOK ==
  /\ user \in UserType
  /\ codes \in [Codes -> CodeType]
  /\ cache \cup mailed \cup handed \cup dropped \subseteq Codes
  /\ generated \in 0..MaxCodes /\ crashes \in Nat /\ alone \in BOOLEAN
  /\ admitted \in [Codes -> Nat]
  /\ token \in {"none", "unverified", "verified"}
  /\ request \in [Clients -> [kind : Kinds, pc : Pcs, code : 0..MaxCodes, old : 0..MaxCodes,
                              read : UserType, write : UserType]]

\* A code that was handed out and mailed can be submitted until it expires or a
\* request deletes it: register and forgotPassword cache it before they commit its
\* row, so that no failure leaves a row for which the client waits in vain.
MailedCodesWork == \A k \in handed \cap mailed : Live(k) => k \in cache \cup dropped

\* As long as requests come one at a time, a code admits one verification or one
\* reset.
CodeAdmitsOnce == alone => \A k \in Codes : admitted[k] <= 1

\* As long as requests come one at a time, no code is generated while the user is
\* blocked for a minute or more ("after too many, the account is temporarily
\* blocked").
BlockedGeneratesNothing == [][alone /\ user.block = "long" => generated' = generated]_vars

\* As long as requests come one at a time, a block comes with the attempts that
\* explain it.
BlockIsEarned == alone /\ user.block # "none" => user.attempts > 2

\* AuthGuard lets a verified user pass: the tokens that verifyOtp returns say so.
VerifiedUserPassesGuard == token # "none" => token = "verified"
=============================================================================
