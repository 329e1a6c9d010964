----------------------------- MODULE Access_proofs -----------------------------
(***************************************************************************)
(* Proofs about Access: for any users, roles, permissions and admins'      *)
(* requests, roles and permissions are replaced as wholes, and a handler   *)
(* that changes the site is reached only by those whom its roles name.     *)
(***************************************************************************)
EXTENDS Access, TLAPS

-----------------------------------------------------------------------------
(* The decorators *)

\* What a handler changes decides the guards and the roles it needs.
Fits(h) ==
  /\ h.changes = "site" => "auth" \in h.guards /\ h.roles = {"admin"}
  /\ h.changes = "files" => "auth" \in h.guards /\ h.roles = {"admin", "user"}

AllFit(controller) == \A h \in DOMAIN controller : Fits(controller[h])

LEMMA EditorialFits == AllFit(Editorial)
BY DEF AllFit, Fits, Editorial, Public, ForAdmins, Handler

LEMMA JobsFit == AllFit(JobsController)
BY DEF AllFit, Fits, JobsController, ForAdmins, ForMembers, Handler

LEMMA UsersFit == AllFit(UsersController)
BY DEF AllFit, Fits, UsersController, ForAdmins, ForMembers, Handler

LEMMA RolesFit == AllFit(RolesController)
BY DEF AllFit, Fits, RolesController, ForAdmins, ForMembers, Handler

LEMMA FilesFit == AllFit(FilesController)
BY DEF AllFit, Fits, FilesController, Public, ForMembers, Handler

LEMMA AuthFits == AllFit(AuthController)
<1> DEFINE open == Public("own session")
           signedIn == Handler({"jwt"}, {}, "own session")
           google == Handler({"google"}, {}, "own session")
<1>1. Fits(open) /\ Fits(signedIn) /\ Fits(google)
  BY DEF Fits, Public, Handler
<1>2. AuthController = [
        register |-> open, login |-> open, refreshTokens |-> open, verify |-> open, resend |-> open,
        forgotPassword |-> open, resetPassword |-> open, logout |-> signedIn,
        googleAuth |-> google, googleCallback |-> google]
  BY DEF AuthController
<1> HIDE DEF open, signedIn, google
<1> QED
  BY <1>1, <1>2 DEF AllFit

LEMMA HandlersFit == \A h \in Handlers : Fits(h)
<1>1. \A c \in DOMAIN Controllers : AllFit(Controllers[c])
  BY EditorialFits, JobsFit, UsersFit, RolesFit, FilesFit, AuthFits
     DEF Controllers, BlogsController, ChronologyController, CouncilCalendarController, CouncilController,
         DocumentCategoriesController, DocumentsController, EventsController, ExpertsController,
         MeetingsController, MembersController, NewsController, ReportsController, SpecialProjectsController,
         TeamController, TestimonialsController
<1> QED
  BY <1>1 DEF Handlers, AllFit

-----------------------------------------------------------------------------
(* The guards *)

\* While the guards are at work the user's roles are among those watched; when they have
\* decided, the watch tells why.
Watched ==
  check.route.roles # {} =>
    /\ check.pc \in {"jwt", "auth"} => held[check.user] \subseteq ever /\ always \subseteq held[check.user]
    /\ check.pc = "admitted" /\ "auth" \in check.route.guards =>
         ever \cap (check.route.roles \cup {"super_admin"}) # {}
    /\ check.pc = "forbidden" => always \cap (check.route.roles \cup {"super_admin"}) = {}

CheckInv ==
  /\ check = NoCheck \/ check \in [pc : {"jwt", "auth", "admitted", "forbidden"}, user : Users, route : Handlers]
  /\ Watched

\* What the guard computes is what is watched.
LEMMA GuardReadsHeld ==
  ASSUME NEW u \in Users
  PROVE  {Lower(r.name) : r \in getUserRoles(u)} = held[u]
BY DEF getUserRoles, held, IsLive

LEMMA AdminsLeaveCheck == ASSUME NEW c \in Clients, Admin(c) PROVE check' = check
BY DEF Admin, create, update, remove, assignPermissions, assignRolesToUser, insertRole, writeRole, markRole,
       fail, deleteMany, lockRows, createMany, commit, Accept, Goto

\* A step beside the guards is watched.
LEMMA BesideKeeps ==
  ASSUME CheckInv, check' = check, Watch
  PROVE  CheckInv'
<1>1. CASE check = NoCheck
  BY <1>1 DEF CheckInv, Watched, NoCheck, Public, Handler
<1>2. CASE check # NoCheck /\ check.route.roles = {}
  BY <1>2 DEF CheckInv, Watched
<1>3. CASE check # NoCheck /\ check.route.roles # {} /\ check.pc \in {"admitted", "forbidden"}
  <2>1. ever' = ever /\ always' = always
    BY <1>3 DEF Watch
  <2> QED
    BY <1>3, <2>1 DEF CheckInv, Watched
<1>4. CASE check # NoCheck /\ check.route.roles # {} /\ check.pc \in {"jwt", "auth"}
  <2>1. ever' = ever \cup held'[check.user] /\ always' = always \cap held'[check.user]
    BY <1>4 DEF Watch
  <2>2. Watched'
    BY <1>4, <2>1 DEF Watched
  <2> QED
    BY <2>2 DEF CheckInv
<1> QED
  BY <1>1, <1>2, <1>3, <1>4 DEF CheckInv

LEMMA ArriveKeeps ==
  ASSUME CheckInv, Watch, NEW u \in Users, NEW route \in Handlers, arrive(u, route)
  PROVE  CheckInv'
<1>1. /\ check = NoCheck
      /\ check' = [pc |-> IF route.guards = {} THEN "admitted" ELSE "jwt", user |-> u, route |-> route]
  BY DEF arrive
<1>2. check' \in [pc : {"jwt", "auth", "admitted", "forbidden"}, user : Users, route : Handlers]
  BY <1>1
<1>3. CASE route.roles = {}
  BY <1>1, <1>2, <1>3 DEF CheckInv, Watched
<1>4. CASE route.roles # {}
  <2>1. ever' = held'[u] /\ always' = held'[u]
    BY <1>1, <1>4 DEF Watch, NoCheck
  <2>2. Watched'
    BY <1>1, <1>4, <2>1 DEF Watched
  <2> QED
    BY <1>2, <2>2 DEF CheckInv
<1> QED
  BY <1>3, <1>4

\* What a guard decides.
LEMMA DecisionKeeps ==
  ASSUME CheckInv, Watch, NEW pc \in {"auth", "admitted", "forbidden"}, Decided(pc),
         check.pc \in {"jwt", "auth"},
         pc = "admitted" /\ "auth" \in check.route.guards /\ check.route.roles # {} =>
           held[check.user] \cap (check.route.roles \cup {"super_admin"}) # {},
         pc = "forbidden" => held[check.user] \cap (check.route.roles \cup {"super_admin"}) = {}
  PROVE  CheckInv'
<1>1. check # NoCheck
  BY DEF NoCheck
<1>2. check \in [pc : {"jwt", "auth", "admitted", "forbidden"}, user : Users, route : Handlers]
  BY <1>1 DEF CheckInv
<1>3. /\ check' \in [pc : {"jwt", "auth", "admitted", "forbidden"}, user : Users, route : Handlers]
      /\ check'.pc = pc /\ check'.user = check.user /\ check'.route = check.route
  BY <1>2 DEF Decided
<1>4. held' = held
  BY DEF Decided, tables, held
<1>5. CASE check.route.roles = {}
  BY <1>3, <1>5 DEF CheckInv, Watched
<1>6. CASE check.route.roles # {}
  <2>1. ever' = ever \cup held[check.user] /\ always' = always \cap held[check.user]
    BY <1>1, <1>3, <1>4, <1>6 DEF Watch
  <2>2. held[check.user] \subseteq ever /\ always \subseteq held[check.user]
    BY <1>6 DEF CheckInv, Watched
  <2>3. Watched'
    BY <1>3, <1>4, <2>1, <2>2 DEF Watched
  <2> QED
    BY <1>3, <2>3 DEF CheckInv
<1> QED
  BY <1>5, <1>6

LEMMA EndKeeps == ASSUME check' = NoCheck PROVE CheckInv'
BY DEF CheckInv, Watched, NoCheck, Public, Handler

LEMMA CheckStep == CheckInv /\ [Next]_vars => CheckInv'
<1> SUFFICES ASSUME CheckInv, [Next]_vars PROVE CheckInv'
  OBVIOUS
<1>1. CASE UNCHANGED vars
  BY <1>1 DEF vars, tables, CheckInv, Watched, held
<1>2. CASE Watch /\ \E c \in Clients : Admin(c)
  BY <1>2, AdminsLeaveCheck, BesideKeeps
<1>3. CASE Watch /\ \E u \in Users, route \in Handlers : arrive(u, route)
  BY <1>3, ArriveKeeps
<1>4. CASE Watch /\ JwtAuthGuard
  <2>1. check.pc = "jwt"
    BY <1>4 DEF JwtAuthGuard
  <2>2. CASE Refused
    BY <2>2, EndKeeps DEF Refused
  <2>3. CASE ~Refused
    BY <1>4, <2>1, <2>3, DecisionKeeps DEF JwtAuthGuard
  <2> QED
    BY <2>2, <2>3
<1>5. CASE Watch /\ AuthGuard
  <2> DEFINE names == {Lower(r.name) : r \in getUserRoles(check.user)}
  <2>1. /\ check.pc = "auth"
        /\ Refused \/ Decided(IF check.route.roles = {} \/ "super_admin" \in names
                                 \/ names \cap check.route.roles # {}
                              THEN "admitted" ELSE "forbidden")
    BY <1>5 DEF AuthGuard
  <2>2. check.user \in Users
    BY <2>1 DEF CheckInv, NoCheck
  <2>3. names = held[check.user]
    BY <2>2, GuardReadsHeld
  <2> HIDE DEF names
  <2>4. CASE Refused
    BY <2>4, EndKeeps DEF Refused
  <2>5. CASE Decided("admitted") /\ (\/ check.route.roles = {} \/ "super_admin" \in names
                                     \/ names \cap check.route.roles # {})
    <3>1. check.route.roles # {} => held[check.user] \cap (check.route.roles \cup {"super_admin"}) # {}
      BY <2>3, <2>5
    <3> QED
      BY <1>5, <2>1, <2>5, <3>1, DecisionKeeps
  <2>6. CASE Decided("forbidden") /\ ~("super_admin" \in names \/ names \cap check.route.roles # {})
    <3>1. held[check.user] \cap (check.route.roles \cup {"super_admin"}) = {}
      BY <2>3, <2>6
    <3> QED
      BY <1>5, <2>1, <2>6, <3>1, DecisionKeeps
  <2> QED
    BY <2>1, <2>4, <2>5, <2>6
<1>6. CASE leave
  BY <1>6, EndKeeps DEF leave
<1> QED
  BY <1>1, <1>2, <1>3, <1>4, <1>5, <1>6 DEF Next, Guard

THEOREM CheckInvariant == Spec => []CheckInv
<1>1. Init => CheckInv
  BY DEF Init, CheckInv, Watched, NoCheck, Public, Handler
<1> QED
  BY <1>1, CheckStep, PTL DEF Spec

\* A handler that changes the site, its users, roles or jobs is reached only by one who
\* has held a live role of an administrator while it was checked; one that stores files
\* also by a user: whatever is replaced, renamed or deleted meanwhile.
THEOREM ChangesAlwaysNeedRole == Spec => []ChangesNeedRole
<1>1. CheckInv => ChangesNeedRole
  <2> SUFFICES ASSUME CheckInv, check.pc = "admitted"
               PROVE  /\ check.route.changes = "site" => ever \cap {"admin", "super_admin"} # {}
                      /\ check.route.changes = "files" => ever \cap {"admin", "super_admin", "user"} # {}
    BY DEF ChangesNeedRole
  <2>1. check.route \in Handlers
    BY DEF CheckInv, NoCheck
  <2>2. Fits(check.route)
    BY <2>1, HandlersFit
  <2>3. CASE check.route.changes = "site"
    <3>1. "auth" \in check.route.guards /\ check.route.roles = {"admin"}
      BY <2>2, <2>3 DEF Fits
    <3> QED
      BY <2>3, <3>1 DEF CheckInv, Watched
  <2>4. CASE check.route.changes = "files"
    <3>1. "auth" \in check.route.guards /\ check.route.roles = {"admin", "user"}
      BY <2>2, <2>4 DEF Fits
    <3> QED
      BY <2>4, <3>1 DEF CheckInv, Watched
  <2> QED
    BY <2>3, <2>4
<1> QED
  BY <1>1, CheckInvariant, PTL

\* The watch of a handler without roles is empty.
Unwatched == check.route.roles = {} => always = {}

\* A user who holds a role that the handler requires all along is not refused for want
\* of it.
THEOREM HoldersNeverForbidden == Spec => []HoldersAreNotForbidden
<1>1. Init => Unwatched
  BY DEF Init, Unwatched
<1>2. Unwatched /\ [Next]_vars => Unwatched'
  BY DEF Unwatched, Next, Watch, vars
<1>3. CheckInv /\ Unwatched => HoldersAreNotForbidden
  BY DEF CheckInv, Watched, Unwatched, HoldersAreNotForbidden
<1> QED
  BY <1>1, <1>2, <1>3, CheckInvariant, PTL DEF Spec

-----------------------------------------------------------------------------
(* The tables and the admins' requests *)

Made(r) == role[r].state # "absent"
Belongs(o) == IF o \in Users THEN RoleIds ELSE Permissions

Rows == [state : {"absent", "live", "deleted"},
         name : Names \cup {"none", "super_admin", "admin", "user"}, system : BOOLEAN]

RolesOK == role \in [RoleIds -> Rows]

LinksOK ==
  /\ links \in [Owners -> SUBSET Items]
  /\ \A o \in Owners : links[o] \subseteq Belongs(o)
  /\ \A r \in RoleIds : Made(r) \/ links[r] = {}

Replacing == {"delete", "deleting", "create", "commit"}
Requests == [pc : {"idle", "insert", "write", "mark"} \cup Replacing, id : RoleIds \cup {0},
             name : Names \cup {"none", Kept}, owner : Owners \cup {0}, want : SUBSET (Items \cup {Kept}),
             saw : SUBSET Items, dropped : SUBSET Items, beside : SUBSET Items]

\* A request is about what exists.
AboutRows(q) ==
  /\ q.pc = "insert" => q.name \in Names /\ q.want \subseteq Permissions
  /\ q.pc = "write" => /\ q.id \in RoleIds /\ Made(q.id) /\ q.name \in Names \cup {Kept}
                       /\ q.want = Missing \/ q.want \subseteq Permissions
  /\ q.pc = "mark" => q.id \in RoleIds /\ Made(q.id)
  /\ q.pc \in Replacing => /\ q.owner \in Owners /\ (q.owner \in RoleIds => Made(q.owner))
                           /\ q.want \subseteq Belongs(q.owner)

\* What a replacement has not dropped was committed beside it.
Covers(q) ==
  /\ q.pc = "deleting" => links[q.owner] \subseteq q.saw \cup q.beside
  /\ q.pc \in {"create", "commit"} => links[q.owner] \subseteq q.dropped \cup q.beside

RequestsOK ==
  /\ request \in [Clients -> Requests]
  /\ \A c \in Clients : AboutRows(request[c]) /\ Covers(request[c])

TableInv == RolesOK /\ LinksOK /\ RequestsOK

LEMMA RolesAreNoUsers == ASSUME NEW r \in RoleIds PROVE r \in Owners /\ Belongs(r) = Permissions
BY AccessAssumption DEF Owners, Belongs

LEMMA InitTables == Init => TableInv
<1> SUFFICES ASSUME Init PROVE TableInv
  OBVIOUS
<1>1. /\ 1 \in RoleIds /\ 2 \in RoleIds /\ 3 \in RoleIds /\ 4 \in RoleIds
  BY AccessAssumption DEF RoleIds
<1>2. PICK made \in {NoRole, Row("Admin", FALSE)} :
        /\ role = [r \in RoleIds |-> CASE r <= 3 -> Seed[r] [] r = 4 -> made [] OTHER -> NoRole]
        /\ \E r \in IF made = NoRole THEN 1..3 ELSE {4} :
             links = [o \in Owners |-> IF o \in Users THEN {r}
                                       ELSE IF o \in {1, 2} THEN Permissions ELSE {}]
  BY DEF Init
<1>3. PICK u \in RoleIds : links = [o \in Owners |-> IF o \in Users THEN {u}
                                                     ELSE IF o \in {1, 2} THEN Permissions ELSE {}]
  <2>1. (IF made = NoRole THEN 1..3 ELSE {4}) \subseteq RoleIds
    BY <1>1
  <2> QED
    BY <1>2, <2>1
<1>4. made \in Rows /\ NoRole \in Rows
  <2>1. NoRole \in Rows
    BY DEF Rows, NoRole
  <2>2. Row("Admin", FALSE) \in Rows
    BY AccessAssumption DEF Rows, Row
  <2> QED
    BY <1>2, <2>1, <2>2
<1>5. Seed[1] \in Rows /\ Seed[2] \in Rows /\ Seed[3] \in Rows
      /\ Seed[1].state = "live" /\ Seed[2].state = "live"
  BY DEF Seed, Row, Rows
<1>6. \A r \in RoleIds : r <= 3 => r = 1 \/ r = 2 \/ r = 3
  BY AccessAssumption DEF RoleIds
<1>7. RolesOK
  <2>1. ASSUME NEW r \in RoleIds PROVE role[r] \in Rows
    <3>1. CASE r <= 3
      BY <1>2, <1>5, <1>6, <3>1
    <3>2. CASE ~(r <= 3)
      BY <1>2, <1>4, <3>2
    <3> QED
      BY <3>1, <3>2
  <2> QED
    BY <1>2, <2>1 DEF RolesOK
<1>8. LinksOK
  <2>1. Made(1) /\ Made(2)
    BY <1>1, <1>2, <1>5, AccessAssumption DEF Made
  <2>2. ASSUME NEW o \in Owners PROVE links[o] \subseteq Belongs(o) /\ links[o] \subseteq Items
    BY <1>3 DEF Belongs, Items
  <2>3. ASSUME NEW r \in RoleIds PROVE Made(r) \/ links[r] = {}
    BY <1>3, <2>1, AccessAssumption DEF Owners
  <2> QED
    BY <1>3, <2>2, <2>3 DEF LinksOK
<1>9. RequestsOK
  <2>1. request = [c \in Clients |-> Idle]
    BY DEF Init
  <2>2. Idle \in Requests /\ Idle.pc = "idle"
    BY DEF Idle, Requests
  <2> QED
    BY <2>1, <2>2 DEF RequestsOK, AboutRows, Covers, Replacing
<1> QED
  BY <1>7, <1>8, <1>9 DEF TableInv

\* A step of c that leaves the links alone keeps what is known of the others.
LEMMA OneRequest ==
  ASSUME TableInv, NEW c \in Clients, NEW q \in Requests, request' = [request EXCEPT ![c] = q], links' = links,
         RolesOK', \A r \in RoleIds : Made(r) => Made(r)',
         AboutRows(q)', Covers(q)'
  PROVE  TableInv'
<1>1. LinksOK'
  BY DEF TableInv, LinksOK
<1>2. ASSUME NEW d \in Clients PROVE AboutRows(request[d])' /\ Covers(request[d])'
  <2>1. CASE d = c
    <3>1. request'[d] = q
      BY <2>1 DEF TableInv, RequestsOK
    <3> QED
      BY <3>1 DEF AboutRows, Covers, Made
  <2>2. CASE d # c
    <3>1. request'[d] = request[d]
      BY <2>2 DEF TableInv, RequestsOK
    <3>2. AboutRows(request[d]) /\ Covers(request[d])
      BY DEF TableInv, RequestsOK
    <3>3. Covers(request[d])'
      BY <3>1, <3>2 DEF Covers
    <3>4. AboutRows(request[d])'
      BY <3>1, <3>2 DEF AboutRows
    <3> QED
      BY <3>3, <3>4
  <2> QED
    BY <2>1, <2>2
<1>3. RequestsOK'
  BY <1>2 DEF TableInv, RequestsOK
<1> QED
  BY <1>1, <1>3 DEF TableInv

\* A request that finds its rows.
LEMMA AcceptKeeps ==
  ASSUME TableInv, NEW c \in Clients, NEW q \in Requests, Accept(c, q), AboutRows(q),
         q.pc \notin {"deleting", "create", "commit"}
  PROVE  TableInv'
<1>1. request' = [request EXCEPT ![c] = q] /\ links' = links /\ role' = role
  BY DEF Accept, tables
<1>2. RolesOK' /\ \A r \in RoleIds : Made(r) => Made(r)'
  BY <1>1 DEF TableInv, RolesOK, Made
<1>3. AboutRows(q)' /\ Covers(q)'
  BY <1>1 DEF AboutRows, Covers, Made
<1> QED
  BY <1>1, <1>2, <1>3, OneRequest

LEMMA FindKeeps ==
  ASSUME TableInv, NEW c \in Clients,
         \/ create(c) \/ \E r \in RoleIds : update(c, r) \/ remove(c, r) \/ assignPermissions(c, r)
         \/ \E u \in Users : assignRolesToUser(c, u)
  PROVE  TableInv'
<1>1. \A r \in RoleIds : IsLive(r) => Made(r)
  BY DEF IsLive, Made
<1>2. ASSUME NEW name \in Names, NEW want \in SUBSET Permissions,
             Accept(c, [Idle EXCEPT !.pc = "insert", !.name = name, !.want = want])
      PROVE  TableInv'
  <2> DEFINE q == [Idle EXCEPT !.pc = "insert", !.name = name, !.want = want]
  <2>1. q \in Requests /\ q.pc = "insert" /\ q.name = name /\ q.want = want
    BY DEF Idle, Requests, Items
  <2> HIDE DEF q
  <2>2. AboutRows(q)
    BY <2>1 DEF AboutRows, Replacing
  <2> QED
    BY <1>2, <2>1, <2>2, AcceptKeeps DEF q
<1>3. ASSUME NEW r \in RoleIds, IsLive(r), NEW name \in Names \cup {Kept},
             NEW want \in (SUBSET Permissions) \cup {Missing},
             Accept(c, [Idle EXCEPT !.pc = "write", !.id = r, !.name = name, !.want = want])
      PROVE  TableInv'
  <2> DEFINE q == [Idle EXCEPT !.pc = "write", !.id = r, !.name = name, !.want = want]
  <2>1. want \in SUBSET (Items \cup {Kept})
    BY DEF Missing, Items
  <2>2. q \in Requests /\ q.pc = "write" /\ q.id = r /\ q.name = name /\ q.want = want
    BY <2>1 DEF Idle, Requests
  <2> HIDE DEF q
  <2>3. AboutRows(q)
    BY <1>1, <1>3, <2>2 DEF AboutRows, Replacing
  <2> QED
    BY <1>3, <2>2, <2>3, AcceptKeeps DEF q
<1>4. ASSUME NEW r \in RoleIds, IsLive(r), Accept(c, [Idle EXCEPT !.pc = "mark", !.id = r]) PROVE TableInv'
  <2> DEFINE q == [Idle EXCEPT !.pc = "mark", !.id = r]
  <2>1. q \in Requests /\ q.pc = "mark" /\ q.id = r
    BY DEF Idle, Requests
  <2> HIDE DEF q
  <2>2. AboutRows(q)
    BY <1>1, <1>4, <2>1 DEF AboutRows, Replacing
  <2> QED
    BY <1>4, <2>1, <2>2, AcceptKeeps DEF q
<1>5. ASSUME NEW o \in Owners, o \in RoleIds => Made(o), NEW want \in SUBSET Belongs(o),
             Accept(c, [Idle EXCEPT !.pc = "delete", !.owner = o, !.want = want])
      PROVE  TableInv'
  <2> DEFINE q == [Idle EXCEPT !.pc = "delete", !.owner = o, !.want = want]
  <2>1. want \in SUBSET (Items \cup {Kept})
    BY DEF Belongs, Items
  <2>2. q \in Requests /\ q.pc = "delete" /\ q.owner = o /\ q.want = want
    BY <2>1 DEF Idle, Requests, Replacing
  <2> HIDE DEF q
  <2>3. AboutRows(q)
    BY <1>5, <2>2 DEF AboutRows
  <2> QED
    BY <1>5, <2>2, <2>3, AcceptKeeps DEF q
<1>6. ASSUME create(c) PROVE TableInv'
  BY <1>2, <1>6 DEF create
<1>7. ASSUME NEW r \in RoleIds, update(c, r) PROVE TableInv'
  BY <1>3, <1>7 DEF update
<1>8. ASSUME NEW r \in RoleIds, remove(c, r) PROVE TableInv'
  BY <1>4, <1>8 DEF remove
<1>9. ASSUME NEW r \in RoleIds, assignPermissions(c, r) PROVE TableInv'
  BY <1>1, <1>5, <1>9, RolesAreNoUsers DEF assignPermissions
<1>10. ASSUME NEW u \in Users, assignRolesToUser(c, u) PROVE TableInv'
  <2>1. PICK want \in SUBSET {r \in RoleIds : IsLive(r)} :
          Accept(c, [Idle EXCEPT !.pc = "delete", !.owner = u, !.want = want])
    BY <1>10 DEF assignRolesToUser
  <2>2. u \in Owners /\ u \notin RoleIds /\ want \in SUBSET Belongs(u)
    BY AccessAssumption DEF Owners, Belongs
  <2> QED
    BY <1>5, <2>1, <2>2
<1> QED
  BY <1>6, <1>7, <1>8, <1>9, <1>10

\* A request that goes on.
LEMMA GotoKeeps ==
  ASSUME TableInv, NEW c \in Clients, NEW q \in Requests, Goto(c, q), links' = links, RolesOK',
         \A r \in RoleIds : Made(r) => Made(r)', AboutRows(q)', Covers(q)
  PROVE  TableInv'
<1>1. request' = [request EXCEPT ![c] = q]
  BY DEF Goto
<1>2. Covers(q)'
  BY DEF Covers
<1> QED
  BY <1>1, <1>2, OneRequest

LEMMA EndRequest == Idle \in Requests /\ Idle.pc = "idle" /\ Covers(Idle)
BY DEF Idle, Requests, Covers

LEMMA IdleAboutRows == AboutRows(Idle)'
<1>1. Idle.pc = "idle"
  BY EndRequest
<1> QED
  BY <1>1 DEF AboutRows, Replacing

\* A request whose role is there goes on to replace its permissions.
LEMMA BeginKeeps ==
  ASSUME TableInv, NEW c \in Clients, NEW r \in RoleIds, request[c].want \subseteq Permissions,
         Goto(c, [request[c] EXCEPT !.pc = "delete", !.owner = r]), links' = links, RolesOK',
         \A s \in RoleIds : Made(s) => Made(s)', role'[r].state # "absent"
  PROVE  TableInv'
<1>1. PICK q : q = [request[c] EXCEPT !.pc = "delete", !.owner = r]
  OBVIOUS
<1>2. r \in Owners /\ Belongs(r) = Permissions
  BY RolesAreNoUsers
<1>3. request[c] \in Requests
  BY DEF TableInv, RequestsOK
<1>4. q \in Requests /\ q.pc = "delete" /\ q.owner = r /\ q.want = request[c].want
  BY <1>1, <1>2, <1>3 DEF Requests, Replacing
<1>5. AboutRows(q)' /\ Covers(q)
  BY <1>2, <1>4 DEF AboutRows, Covers, Made
<1> QED
  BY <1>1, <1>4, <1>5, GotoKeeps

LEMMA InsertKeeps ==
  ASSUME TableInv, NEW c \in Clients, insertRole(c)
  PROVE  TableInv'
<1>1. PICK r \in RoleIds :
        /\ request[c].pc = "insert" /\ role[r] = NoRole
        /\ role' = [role EXCEPT ![r] = [state |-> "live", name |-> request[c].name, system |-> FALSE]]
        /\ Goto(c, IF request[c].want = {} THEN Idle ELSE [request[c] EXCEPT !.pc = "delete", !.owner = r])
        /\ links' = links
  BY DEF insertRole
<1>2. request[c] \in Requests /\ request[c].name \in Names /\ request[c].want \subseteq Permissions
  BY <1>1 DEF TableInv, RequestsOK, AboutRows
<1> DEFINE row == [state |-> "live", name |-> request[c].name, system |-> FALSE]
<1>3. row \in Rows /\ row.state = "live"
  BY <1>2 DEF Rows
<1> HIDE DEF row
<1>4. role' = [role EXCEPT ![r] = row]
  BY <1>1 DEF row
<1>5. RolesOK' /\ role'[r].state # "absent" /\ \A s \in RoleIds : Made(s) => Made(s)'
  BY <1>3, <1>4 DEF TableInv, RolesOK, Made
<1>6. CASE request[c].want = {}
  BY <1>1, <1>5, <1>6, EndRequest, IdleAboutRows, GotoKeeps
<1>7. CASE request[c].want # {}
  BY <1>1, <1>2, <1>5, <1>7, BeginKeeps
<1> QED
  BY <1>6, <1>7

LEMMA WriteKeeps ==
  ASSUME TableInv, NEW c \in Clients, writeRole(c)
  PROVE  TableInv'
<1> DEFINE r == request[c].id  name == request[c].name
<1>1. /\ request[c].pc = "write" /\ links' = links
      /\ role' = IF name = Kept THEN role ELSE [role EXCEPT ![r].name = name]
      /\ Goto(c, IF request[c].want = Missing THEN Idle ELSE [request[c] EXCEPT !.pc = "delete", !.owner = r])
  BY DEF writeRole
<1>2. /\ request[c] \in Requests /\ r \in RoleIds /\ Made(r) /\ name \in Names \cup {Kept}
      /\ request[c].want = Missing \/ request[c].want \subseteq Permissions
  BY <1>1 DEF TableInv, RequestsOK, AboutRows
<1> HIDE DEF r, name
<1>3. RolesOK' /\ role'[r].state # "absent" /\ \A s \in RoleIds : Made(s) => Made(s)'
  <2>1. role \in [RoleIds -> Rows]
    BY DEF TableInv, RolesOK
  <2>2. CASE name = Kept
    BY <1>1, <1>2, <2>1, <2>2 DEF RolesOK, Made
  <2>3. CASE name # Kept
    <3> DEFINE row == [role[r] EXCEPT !.name = name]
    <3>1. row \in Rows /\ row.state = role[r].state
      BY <1>2, <2>1, <2>3 DEF Rows
    <3>2. role' = [role EXCEPT ![r] = row]
      BY <1>1, <2>3
    <3> HIDE DEF row
    <3> QED
      BY <1>2, <2>1, <3>1, <3>2 DEF RolesOK, Made
  <2> QED
    BY <2>2, <2>3
<1>4. CASE request[c].want = Missing
  BY <1>1, <1>3, <1>4, EndRequest, IdleAboutRows, GotoKeeps
<1>5. CASE request[c].want # Missing
  BY <1>1, <1>2, <1>3, <1>5, BeginKeeps
<1> QED
  BY <1>4, <1>5

LEMMA MarkKeeps ==
  ASSUME TableInv, NEW c \in Clients, markRole(c)
  PROVE  TableInv'
<1> DEFINE r == request[c].id  row == [role[r] EXCEPT !.state = "deleted"]
<1>1. /\ request[c].pc = "mark" /\ links' = links /\ role' = [role EXCEPT ![r] = row] /\ Goto(c, Idle)
  BY DEF markRole
<1>2. r \in RoleIds /\ Made(r)
  BY <1>1 DEF TableInv, RequestsOK, AboutRows
<1> HIDE DEF r
<1>3. row \in Rows /\ row.state = "deleted"
  BY <1>2 DEF TableInv, RolesOK, Rows
<1> HIDE DEF row
<1>4. RolesOK' /\ \A s \in RoleIds : Made(s) => Made(s)'
  BY <1>1, <1>2, <1>3 DEF TableInv, RolesOK, Made
<1> QED
  BY <1>1, <1>4, EndRequest, IdleAboutRows, GotoKeeps

LEMMA FailKeeps ==
  ASSUME TableInv, NEW c \in Clients, fail(c)
  PROVE  TableInv'
<1>1. Goto(c, Idle) /\ links' = links /\ role' = role
  BY DEF fail, tables
<1>2. RolesOK' /\ \A s \in RoleIds : Made(s) => Made(s)'
  BY <1>1 DEF TableInv, RolesOK, Made
<1> QED
  BY <1>1, <1>2, EndRequest, IdleAboutRows, GotoKeeps

-----------------------------------------------------------------------------
(* The replacement *)

\* A statement of the transaction that changes no table.
LEMMA StatementKeeps ==
  ASSUME TableInv, NEW c \in Clients, request[c].pc \in Replacing,
         NEW q \in Requests, q.pc \in Replacing, q.owner = request[c].owner, q.want = request[c].want,
         Covers(q), Goto(c, q), UNCHANGED tables
  PROVE  TableInv'
<1>1. links' = links /\ role' = role
  BY DEF tables
<1>2. RolesOK' /\ \A s \in RoleIds : Made(s) => Made(s)'
  BY <1>1 DEF TableInv, RolesOK, Made
<1>3. AboutRows(request[c])
  BY DEF TableInv, RequestsOK
<1>4. AboutRows(q)'
  BY <1>1, <1>3 DEF AboutRows, Made, Replacing
<1> QED
  BY <1>1, <1>2, <1>4, GotoKeeps

LEMMA DeleteKeeps ==
  ASSUME TableInv, NEW c \in Clients, deleteMany(c)
  PROVE  TableInv'
<1> DEFINE saw == links[request[c].owner]
           q == [request[c] EXCEPT !.pc = "deleting", !.saw = saw]
<1>1. request[c].pc = "delete" /\ Goto(c, q) /\ UNCHANGED tables
  BY DEF deleteMany
<1>2. request[c] \in Requests /\ request[c].owner \in Owners
  BY <1>1 DEF TableInv, RequestsOK, AboutRows, Replacing
<1>3. saw \in SUBSET Items
  BY <1>2 DEF TableInv, LinksOK
<1> HIDE DEF saw
<1>4. /\ q \in Requests /\ q.pc = "deleting" /\ q.saw = saw
      /\ q.owner = request[c].owner /\ q.want = request[c].want
  BY <1>2, <1>3 DEF Requests, Replacing
<1> HIDE DEF q
<1>5. Covers(q)
  BY <1>4 DEF Covers, saw
<1> QED
  BY <1>1, <1>4, <1>5, StatementKeeps DEF Replacing

LEMMA LockKeeps ==
  ASSUME TableInv, NEW c \in Clients, lockRows(c)
  PROVE  TableInv'
<1> DEFINE dropped == request[c].saw
           q == [request[c] EXCEPT !.pc = "create", !.dropped = dropped]
<1>1. request[c].pc = "deleting" /\ Goto(c, q) /\ UNCHANGED tables
  BY DEF lockRows
<1>2. request[c] \in Requests /\ Covers(request[c])
  BY DEF TableInv, RequestsOK
<1>3. dropped \in SUBSET Items
  BY <1>2 DEF Requests
<1>4. links[request[c].owner] \subseteq dropped \cup request[c].beside
  BY <1>1, <1>2 DEF Covers
<1> HIDE DEF dropped
<1>5. /\ q \in Requests /\ q.pc = "create" /\ q.dropped = dropped /\ q.beside = request[c].beside
      /\ q.owner = request[c].owner /\ q.want = request[c].want
  BY <1>2, <1>3 DEF Requests, Replacing
<1> HIDE DEF q
<1>6. Covers(q)
  BY <1>4, <1>5 DEF Covers
<1> QED
  BY <1>1, <1>5, <1>6, StatementKeeps DEF Replacing

LEMMA CreateKeeps ==
  ASSUME TableInv, NEW c \in Clients, createMany(c)
  PROVE  TableInv'
<1> DEFINE q == [request[c] EXCEPT !.pc = "commit"]
<1>1. request[c].pc = "create" /\ Goto(c, q) /\ UNCHANGED tables
  BY DEF createMany
<1>2. request[c] \in Requests /\ Covers(request[c])
  BY DEF TableInv, RequestsOK
<1>3. /\ q \in Requests /\ q.pc = "commit" /\ q.dropped = request[c].dropped /\ q.beside = request[c].beside
      /\ q.owner = request[c].owner /\ q.want = request[c].want
  BY <1>2 DEF Requests, Replacing
<1> HIDE DEF q
<1>4. Covers(q)
  BY <1>1, <1>2, <1>3 DEF Covers
<1> QED
  BY <1>1, <1>3, <1>4, StatementKeeps DEF Replacing

LEMMA CommitKeeps ==
  ASSUME TableInv, NEW c \in Clients, commit(c)
  PROVE  TableInv'
<1> DEFINE o == request[c].owner  want == request[c].want  dropped == request[c].dropped
<1>1. /\ request[c].pc = "commit" /\ role' = role
      /\ links' = [links EXCEPT ![o] = (links[o] \ dropped) \cup want]
      /\ request' = [d \in Clients |->
           CASE d = c -> Idle
             [] d # c /\ request[d].owner = o /\ request[d].pc = "deleting" ->
                  [request[d] EXCEPT !.saw = request[d].saw \ dropped, !.beside = request[d].beside \cup want]
             [] d # c /\ request[d].owner = o /\ request[d].pc \in {"create", "commit"} ->
                  [request[d] EXCEPT !.beside = request[d].beside \cup want]
             [] OTHER -> request[d]]
  BY DEF commit, Replaced
<1>2. AboutRows(request[c])
  BY DEF TableInv, RequestsOK
<1>3. o \in Owners /\ (o \in RoleIds => Made(o)) /\ want \subseteq Belongs(o)
  BY <1>1, <1>2 DEF AboutRows, Replacing
<1> HIDE DEF o, want, dropped
<1>4. want \subseteq Items
  BY <1>3 DEF Belongs, Items
<1>5. links \in [Owners -> SUBSET Items]
  BY DEF TableInv, LinksOK
<1>6. RolesOK' /\ \A r \in RoleIds : Made(r)' = Made(r)
  BY <1>1 DEF TableInv, RolesOK, Made
<1>7. links' = [links EXCEPT ![o] = (links[o] \ dropped) \cup want]
  BY <1>1
<1>8. LinksOK'
  BY <1>7, <1>3, <1>4, <1>5, <1>6 DEF TableInv, LinksOK
<1>9. ASSUME NEW d \in Clients
      PROVE  request'[d] \in Requests /\ AboutRows(request[d])' /\ Covers(request[d])'
  <2>1. request[d] \in Requests /\ AboutRows(request[d]) /\ Covers(request[d])
    BY DEF TableInv, RequestsOK
  <2>2. CASE d = c
    <3>1. request'[d] = Idle
      BY <1>1, <2>2
    <3>2. Idle \in Requests /\ Idle.pc = "idle"
      BY EndRequest
    <3> QED
      BY <3>1, <3>2 DEF AboutRows, Covers, Replacing
  <2>3. CASE d # c /\ request[d].owner = o /\ request[d].pc \in {"deleting", "create", "commit"}
    <3> DEFINE beside == request[d].beside \cup want
               saw == IF request[d].pc = "deleting" THEN request[d].saw \ dropped ELSE request[d].saw
               q == [request[d] EXCEPT !.saw = saw, !.beside = beside]
    <3>1. request[d] = [request[d] EXCEPT !.saw = request[d].saw]
      BY <2>1 DEF Requests
    <3>2. request'[d] = q
      BY <1>1, <2>1, <2>3, <3>1 DEF Requests
    <3>3. beside \in SUBSET Items /\ saw \in SUBSET Items
      BY <1>4, <2>1 DEF Requests
    <3>4. /\ links'[o] = (links[o] \ dropped) \cup want
          /\ request[d].pc = "deleting" => saw = request[d].saw \ dropped
      BY <1>1, <1>3, <1>5
    <3> HIDE DEF beside, saw
    <3>5. /\ q \in Requests /\ q.beside = beside /\ q.pc = request[d].pc /\ q.owner = request[d].owner
          /\ q.want = request[d].want /\ q.saw = saw /\ q.dropped = request[d].dropped
      BY <2>1, <3>3 DEF Requests
    <3> HIDE DEF q
    <3>6. AboutRows(request[d])'
      BY <1>6, <2>1, <2>3, <3>2, <3>5 DEF AboutRows, Replacing
    <3>7. Covers(request[d])'
      BY <2>1, <2>3, <3>2, <3>5, <3>4 DEF Covers, beside
    <3> QED
      BY <3>2, <3>5, <3>6, <3>7
  <2>4. CASE d # c /\ ~(request[d].owner = o /\ request[d].pc \in {"deleting", "create", "commit"})
    <3>1. request'[d] = request[d]
      BY <1>1, <2>4
    <3>2. request[d].pc \in {"deleting", "create", "commit"} => links'[request[d].owner] = links[request[d].owner]
      BY <1>1, <1>5, <2>1, <2>4 DEF AboutRows, Replacing
    <3>3. AboutRows(request[d])'
      BY <1>6, <2>1, <3>1 DEF AboutRows
    <3>4. Covers(request[d])'
      BY <2>1, <3>1, <3>2 DEF Covers
    <3> QED
      BY <2>1, <3>1, <3>3, <3>4
  <2> QED
    BY <2>2, <2>3, <2>4
<1>10. request' \in [Clients -> Requests]
  BY <1>1, <1>9
<1> QED
  BY <1>6, <1>8, <1>9, <1>10 DEF TableInv, RequestsOK

LEMMA TableStep == TableInv /\ [Next]_vars => TableInv'
<1> SUFFICES ASSUME TableInv, [Next]_vars PROVE TableInv'
  OBVIOUS
<1>1. ASSUME UNCHANGED <<role, links, request>> PROVE TableInv'
  BY <1>1 DEF TableInv, RolesOK, LinksOK, RequestsOK, AboutRows, Covers, Made
<1>2. CASE UNCHANGED vars
  BY <1>1, <1>2 DEF vars, tables
<1>3. CASE Guard
  BY <1>1, <1>3 DEF Guard, arrive, JwtAuthGuard, AuthGuard, leave, Decided, Refused, tables
<1>4. ASSUME NEW c \in Clients, Admin(c) PROVE TableInv'
  BY <1>4, FindKeeps, InsertKeeps, WriteKeeps, MarkKeeps, FailKeeps, DeleteKeeps, LockKeeps, CreateKeeps,
     CommitKeeps DEF Admin
<1> QED
  BY <1>2, <1>3, <1>4 DEF Next

THEOREM TableInvariant == Spec => []TableInv
<1> QED
  BY InitTables, TableStep, PTL DEF Spec

\* Users have roles and roles have permissions, of a role that exists.
THEOREM TypesHold == Spec => []TypeOK
<1>1. TableInv => TypeOK
  <2> SUFFICES ASSUME TableInv PROVE TypeOK
    OBVIOUS
  <2>1. \A r \in RoleIds : role[r] = NoRole => ~Made(r)
    BY DEF NoRole, Made
  <2> QED
    BY <2>1 DEF TableInv, RolesOK, Rows, LinksOK, Belongs, TypeOK
<1> QED
  BY <1>1, TableInvariant, PTL

\* The roles of a user and the permissions of a role go from one complete set to
\* another, for any number of replacements at once: what a transaction does not drop
\* was committed beside it.
THEOREM AlwaysReplacedWholesale == Spec => ReplacedWholesale
<1>1. TableInv /\ [Next]_vars =>
      [\A o \in Owners : links'[o] # links[o] =>
         \E c \in Clients :
           LET req == request[c]
           IN  req.owner = o /\ req.want \subseteq links'[o] /\ links'[o] \subseteq req.want \cup req.beside]_vars
  <2> SUFFICES ASSUME TableInv, Next, NEW o \in Owners, links'[o] # links[o]
               PROVE  \E c \in Clients :
                        /\ request[c].owner = o /\ request[c].want \subseteq links'[o]
                        /\ links'[o] \subseteq request[c].want \cup request[c].beside
    OBVIOUS
  <2>1. PICK c \in Clients : commit(c)
    <3>1. ~Guard
      BY DEF Guard, arrive, JwtAuthGuard, AuthGuard, leave, Decided, Refused, tables
    <3>2. PICK c \in Clients : Admin(c)
      BY <3>1 DEF Next
    <3>3. commit(c)
      BY <3>2 DEF Admin, create, update, remove, assignPermissions, assignRolesToUser, insertRole, writeRole,
                  markRole, fail, deleteMany, lockRows, createMany, Accept, Goto, tables
    <3> QED
      BY <3>3
  <2>2. /\ request[c].pc = "commit"
        /\ links' = [links EXCEPT ![request[c].owner] = (@ \ request[c].dropped) \cup request[c].want]
    BY <2>1 DEF commit, Replaced
  <2>3. links \in [Owners -> SUBSET Items] /\ Covers(request[c])
    BY DEF TableInv, LinksOK, RequestsOK
  <2>4. request[c].owner = o
    BY <2>2, <2>3
  <2>5. links'[o] = (links[o] \ request[c].dropped) \cup request[c].want
    BY <2>2, <2>3, <2>4
  <2>6. links[o] \subseteq request[c].dropped \cup request[c].beside
    BY <2>2, <2>3, <2>4 DEF Covers
  <2> QED
    BY <2>4, <2>5, <2>6
<1> QED
  BY <1>1, TableInvariant, PTL DEF Spec, ReplacedWholesale
=============================================================================
