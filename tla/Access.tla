-------------------------------- MODULE Access --------------------------------
(***************************************************************************)
(* Roles, their permissions and the guards: RolesService, JwtAuthGuard and *)
(* AuthGuard.  Admins' requests change the tables while a request of one   *)
(* user is being checked.                                                  *)
(*                                                                         *)
(* An action is the code up to and including one statement.  The roles of  *)
(* a user and the permissions of a role are replaced alike: a transaction  *)
(* deletes the owner's rows and creates those that are wanted, at READ     *)
(* COMMITTED.  deleteMany sees the rows that are committed when it starts  *)
(* and waits for a transaction that is deleting one of them; when that one *)
(* commits, the row is gone, and a row it created in its place is another, *)
(* which the statement does not see.  createMany waits for a transaction   *)
(* that has deleted or created a row of the same key, and fails if the key *)
(* is taken.                                                               *)
(***************************************************************************)
EXTENDS Routes, FiniteSets, FiniteSetsExt

CONSTANTS
  Users,
  Permissions, \* keys that the seed gives to the administrators and not to users
  Clients,     \* admins' requests in flight at once
  MaxRoles,    \* bound on the roles, the three of the seed included
  Names,       \* names that requests give to roles
  MaxWanted,   \* bound on the roles given at once
  MaxRequests  \* bound on the admins' requests

RoleIds == 1..MaxRoles
Owners == Users \cup RoleIds
Items == RoleIds \cup Permissions

ASSUME AccessAssumption ==
  /\ MaxRoles \in Nat /\ MaxRoles >= 4
  /\ MaxRequests \in Nat /\ MaxWanted \in Nat
  /\ Users \cap RoleIds = {}
  /\ "Admin" \in Names

VARIABLES
  role,      \* id -> its row
  links,     \* owner -> the items of its committed rows in UserRoles or RolePermissions
  request,   \* client -> the request it serves
  requests,  \* admins' requests so far
  check,     \* the guards at work on one user's request
  ever,      \* names of roles the user has held at some moment of the check
  always     \* and at every moment

tables == <<role, links>>
vars == <<tables, request, requests, check, ever, always>>

NoRole == [state |-> "absent", name |-> "none", system |-> FALSE]
Idle == [pc |-> "idle", id |-> 0, name |-> "none", owner |-> 0, want |-> {},
         saw |-> {}, dropped |-> {}, beside |-> {}]
NoCheck == [pc |-> "idle", user |-> 0, route |-> Public("nothing")]

Kept == "kept"      \* an update that gives no name, or no permissions
Missing == {Kept}

\* the seed: three system roles, of which the first two have the permissions, the user
\* with one of them, or with a role that an admin has made since and that the guard
\* takes for the admins' own
Row(name, system) == [state |-> "live", name |-> name, system |-> system]
Seed == <<Row("super_admin", TRUE), Row("admin", TRUE), Row("user", TRUE)>>
Init ==
  /\ \E made \in {NoRole, Row("Admin", FALSE)} :
       /\ role = [r \in RoleIds |-> CASE r <= 3 -> Seed[r]
                                      [] r = 4 -> made
                                      [] OTHER -> NoRole]
       /\ \E r \in IF made = NoRole THEN 1..3 ELSE {4} :
            links = [o \in Owners |-> IF o \in Users THEN {r}
                                      ELSE IF o \in {1, 2} THEN Permissions ELSE {}]
  /\ request = [c \in Clients |-> Idle]
  /\ requests = 0
  /\ check = NoCheck /\ ever = {} /\ always = {}

IsLive(r) == role[r].state = "live"
Lower(name) == IF name = "Admin" THEN "admin" ELSE name
Free(name, r) == \A s \in RoleIds \ {r} : role[s] = NoRole \/ role[s].name # name

-----------------------------------------------------------------------------
(* The admins' requests: first what each finds... *)

Accept(c, req) ==
  /\ request[c] = Idle /\ requests < MaxRequests
  /\ request' = [request EXCEPT ![c] = req]
  /\ requests' = requests + 1
  /\ UNCHANGED <<tables, check>>

create(c) ==
  \E name \in Names, want \in SUBSET Permissions :
    /\ \A r \in RoleIds : IsLive(r) => role[r].name # name
    /\ Accept(c, [Idle EXCEPT !.pc = "insert", !.name = name, !.want = want])

update(c, r) ==
  \E name \in Names \cup {Kept}, want \in (SUBSET Permissions) \cup {Missing} :
    /\ IsLive(r)
    /\ Accept(c, [Idle EXCEPT !.pc = "write", !.id = r, !.name = name, !.want = want])

remove(c, r) ==
  /\ IsLive(r) /\ ~role[r].system
  /\ Accept(c, [Idle EXCEPT !.pc = "mark", !.id = r])

assignPermissions(c, r) ==
  \E want \in SUBSET Permissions :
    /\ IsLive(r)
    /\ Accept(c, [Idle EXCEPT !.pc = "delete", !.owner = r, !.want = want])

assignRolesToUser(c, u) ==
  \E want \in SUBSET {r \in RoleIds : IsLive(r)} :
    /\ Cardinality(want) <= MaxWanted
    /\ Accept(c, [Idle EXCEPT !.pc = "delete", !.owner = u, !.want = want])

\* ... then what it writes
Goto(c, req) == /\ request' = [request EXCEPT ![c] = req]
                /\ UNCHANGED <<requests, check>>

NextId == Min({r \in RoleIds : role[r] = NoRole})

\* seeded fault: replaces the permissions before the role is there
PermissionsFirst(c) ==
  /\ request[c].pc = "insert"
  /\ \E r \in RoleIds : role[r] = NoRole /\ Goto(c, [request[c] EXCEPT !.pc = "delete", !.owner = r])
  /\ UNCHANGED tables

insertRole(c) ==
  /\ request[c].pc = "insert" /\ Free(request[c].name, 0)
  /\ \E r \in RoleIds :
       /\ role[r] = NoRole /\ r = NextId
       /\ role' = [role EXCEPT ![r] = [state |-> "live", name |-> request[c].name, system |-> FALSE]]
       /\ Goto(c, IF request[c].want = {} THEN Idle
                  ELSE [request[c] EXCEPT !.pc = "delete", !.owner = r])
  /\ UNCHANGED links

\* the row is found by its id alone
writeRole(c) ==
  LET r == request[c].id  name == request[c].name
  IN  /\ request[c].pc = "write" /\ Free(name, r)
      /\ role' = IF name = Kept THEN role ELSE [role EXCEPT ![r].name = name]
      /\ Goto(c, IF request[c].want = Missing THEN Idle
                 ELSE [request[c] EXCEPT !.pc = "delete", !.owner = r])
      /\ UNCHANGED links

markRole(c) ==
  /\ request[c].pc = "mark"
  /\ role' = [role EXCEPT ![request[c].id].state = "deleted"]
  /\ Goto(c, Idle)
  /\ UNCHANGED links

\* a statement fails: a name that is taken, a key that is taken, the database
fail(c) ==
  /\ request[c] # Idle
  /\ Goto(c, Idle)
  /\ UNCHANGED tables

-----------------------------------------------------------------------------
(* The replacement *)

\* the transactions at work on the same rows
Rivals(c) == {d \in Clients \ {c} : request[d].owner = request[c].owner
                                    /\ request[d].pc \in {"create", "commit"}}

deleteMany(c) ==
  /\ request[c].pc = "delete"
  /\ Goto(c, [request[c] EXCEPT !.pc = "deleting", !.saw = links[request[c].owner]])
  /\ UNCHANGED tables

\* seeded fault: deleteMany commits on its own
DeleteOutside(c) ==
  /\ request[c].pc = "deleting"
  /\ \A d \in Rivals(c) : request[d].dropped \cap request[c].saw = {}
  /\ links' = [links EXCEPT ![request[c].owner] = @ \ request[c].saw]
  /\ Goto(c, [request[c] EXCEPT !.pc = "create"])
  /\ UNCHANGED role

\* of the rows it saw it deletes those that are left: saw loses, by commit, what others
\* deleted, and does not get back what they created under the same key
lockRows(c) ==
  /\ request[c].pc = "deleting"
  /\ \A d \in Rivals(c) : request[d].dropped \cap request[c].saw = {}
  /\ Goto(c, [request[c] EXCEPT !.pc = "create", !.dropped = request[c].saw])
  /\ UNCHANGED tables

createMany(c) ==
  /\ request[c].pc = "create"
  /\ \A d \in Rivals(c) :
       request[c].want \cap (request[d].dropped
                             \cup (IF request[d].pc = "commit" THEN request[d].want ELSE {})) = {}
  /\ request[c].want \cap (links[request[c].owner] \ request[c].dropped) = {}
  /\ Goto(c, [request[c] EXCEPT !.pc = "commit"])
  /\ UNCHANGED tables

\* seeded fault: forgets to delete
KeepOld(old, dropped, want) == old \cup want

Replaced(old, dropped, want) == (old \ dropped) \cup want

\* history: what is committed beside the transactions at work on the same owner
commit(c) ==
  LET o == request[c].owner  want == request[c].want  dropped == request[c].dropped
  IN  /\ request[c].pc = "commit"
      /\ links' = [links EXCEPT ![o] = Replaced(@, dropped, want)]
      /\ request' = [d \in Clients |->
           CASE d = c -> Idle
             [] d # c /\ request[d].owner = o /\ request[d].pc = "deleting" ->
                  [request[d] EXCEPT !.saw = @ \ dropped, !.beside = @ \cup want]
             [] d # c /\ request[d].owner = o /\ request[d].pc \in {"create", "commit"} ->
                  [request[d] EXCEPT !.beside = @ \cup want]
             [] OTHER -> request[d]]
      /\ UNCHANGED <<role, requests, check>>

-----------------------------------------------------------------------------
(* The guards, before a handler *)

\* seeded fault: looks at the rows alone
RolesOfRows(u) == {role[r] : r \in links[u]}

getUserRoles(u) == {role[r] : r \in {s \in links[u] : IsLive(s)}}

Decided(pc) == check' = [check EXCEPT !.pc = pc] /\ UNCHANGED <<tables, request, requests>>

Refused == check' = NoCheck /\ UNCHANGED <<tables, request, requests>>

arrive(u, route) ==
  /\ check = NoCheck
  /\ check' = [pc |-> IF route.guards = {} THEN "admitted" ELSE "jwt", user |-> u, route |-> route]
  /\ UNCHANGED <<tables, request, requests>>

\* JwtAuthGuard: the token and its session are valid or not; GoogleOAuthGuard likewise
JwtAuthGuard ==
  /\ check.pc = "jwt"
  /\ Refused \/ Decided(IF "auth" \in check.route.guards THEN "auth" ELSE "admitted")

\* seeded fault: no way round for super_admin
NoBypass ==
  /\ check.pc = "auth"
  /\ \/ Refused
     \/ LET names == {Lower(r.name) : r \in getUserRoles(check.user)}
        IN  Decided(IF names \cap check.route.roles # {} THEN "admitted" ELSE "forbidden")

\* AuthGuard: the claim isVerified of the token, then the roles of the tables
AuthGuard ==
  /\ check.pc = "auth"
  /\ \/ Refused
     \/ LET names == {Lower(r.name) : r \in getUserRoles(check.user)}
        IN  Decided(IF \/ check.route.roles = {}
                       \/ "super_admin" \in names \/ names \cap check.route.roles # {}
                    THEN "admitted" ELSE "forbidden")

leave ==
  /\ check.pc \in {"admitted", "forbidden"}
  /\ check' = NoCheck
  /\ UNCHANGED <<tables, request, requests>>

-----------------------------------------------------------------------------
\* history: the names of the live roles the user holds, moment by moment, while the
\* guards of a handler that requires roles are at work
held == [u \in Users |-> {Lower(role[r].name) : r \in {s \in links[u] : role[s].state = "live"}}]
Watch ==
  IF check'.route.roles = {} THEN ever' = {} /\ always' = {}
  ELSE IF check.pc \in {"admitted", "forbidden"} THEN UNCHANGED <<ever, always>>
  ELSE LET now == held'[check'.user]
       IN  IF check = NoCheck THEN ever' = now /\ always' = now
           ELSE ever' = ever \cup now /\ always' = always \cap now

Admin(c) ==
  \/ create(c) \/ \E r \in RoleIds : update(c, r) \/ remove(c, r) \/ assignPermissions(c, r)
  \/ \E u \in Users : assignRolesToUser(c, u)
  \/ insertRole(c) \/ writeRole(c) \/ markRole(c) \/ fail(c)
  \/ deleteMany(c) \/ lockRows(c) \/ createMany(c) \/ commit(c)

Guard ==
  \/ \E u \in Users, route \in Handlers : arrive(u, route)
  \/ JwtAuthGuard \/ AuthGuard \/ leave

Next == ((\E c \in Clients : Admin(c)) \/ Guard) /\ Watch

Spec == Init /\ [][Next]_vars

-----------------------------------------------------------------------------
(* Properties *)

\* The types of the tables, the requests and the check: users have roles, roles
\* have permissions.
TypeOK ==
  /\ role \in [RoleIds -> [state : {"absent", "live", "deleted"},
                           name : Names \cup {"none", "super_admin", "admin", "user"}, system : BOOLEAN]]
  /\ \A o \in Owners : links[o] \subseteq (IF o \in Users THEN RoleIds ELSE Permissions)
  /\ \A r \in RoleIds : role[r] = NoRole => links[r] = {}

\* The roles of a user and the permissions of a role go from one complete set to
\* another: to what a replacement was asked to leave, and to nothing beside it but
\* what others have committed while it was under way.
ReplacedWholesale ==
  [][\A o \in Owners : links'[o] # links[o] =>
       \E c \in Clients :
         LET req == request[c]
         IN  req.owner = o /\ req.want \subseteq links'[o] /\ links'[o] \subseteq req.want \cup req.beside]_vars

\* A handler that changes the site, its users, roles or jobs is reached only by a
\* user who has held a live role of an administrator at a moment of the check; one
\* that stores files, also by a user.
ChangesNeedRole ==
  check.pc = "admitted" =>
    /\ check.route.changes = "site" => ever \cap {"admin", "super_admin"} # {}
    /\ check.route.changes = "files" => ever \cap {"admin", "super_admin", "user"} # {}

\* A user who holds a role that the handler requires all along is not refused for
\* want of it, whatever is replaced, renamed or deleted meanwhile.
HoldersAreNotForbidden ==
  check.pc = "forbidden" => always \cap (check.route.roles \cup {"super_admin"}) = {}
=============================================================================
