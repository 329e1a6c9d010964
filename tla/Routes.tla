-------------------------------- MODULE Routes --------------------------------
(***************************************************************************)
(* Who may call which handler: the guards and roles that the decorators of *)
(* each controller put on it, and what the handler changes.  Guards are    *)
(* opt-in, there is none for all: a handler without a decorator of its own *)
(* or of its class is public.                                              *)
(***************************************************************************)
EXTENDS Naturals

\* a handler behind guards, for holders of any of roles, that changes what
Handler(guards, roles, changes) == [guards |-> guards, roles |-> roles, changes |-> changes]

Public(changes) == Handler({}, {}, changes)
ForAdmins(changes) == Handler({"jwt", "auth"}, {"admin"}, changes)
ForMembers(changes) == Handler({"jwt", "auth"}, {"admin", "user"}, changes)

\* the controllers of the content modules: guards on the handlers that write
Editorial == [
  findAll |-> Public("nothing"), findOne |-> Public("nothing"),
  create |-> ForAdmins("site"), update |-> ForAdmins("site"), remove |-> ForAdmins("site")]

\* seeded fault: a PUT that lost its decorators
Undecorated == [Editorial EXCEPT !.update = Public("site")]

BlogsController == Editorial
ChronologyController == Editorial
CouncilCalendarController == Editorial
CouncilController == Editorial
DocumentCategoriesController == Editorial
DocumentsController == Editorial
EventsController == Editorial
ExpertsController == Editorial
MeetingsController == Editorial
MembersController == Editorial
NewsController == Editorial
ReportsController == Editorial
SpecialProjectsController == Editorial
TeamController == Editorial
TestimonialsController == Editorial

\* guards on the class, roles on each handler
JobsController == [
  create |-> ForAdmins("site"), retry |-> ForAdmins("site"),
  findAll |-> ForMembers("nothing"), findOne |-> ForMembers("nothing")]

UsersController == [
  findAll |-> ForMembers("nothing"), getProfile |-> ForMembers("nothing"),
  findOne |-> ForMembers("nothing"),
  create |-> ForAdmins("site"), update |-> ForAdmins("site"), remove |-> ForAdmins("site")]

RolesController == [
  create |-> ForAdmins("site"), update |-> ForAdmins("site"), remove |-> ForAdmins("site"),
  assignRoles |-> ForAdmins("site"), assignPermissions |-> ForAdmins("site"),
  findAll |-> ForMembers("nothing"), findOne |-> ForMembers("nothing"),
  listRolesWithPermissions |-> ForMembers("nothing"),
  getUserRoles |-> ForMembers("nothing"), getUserPermissions |-> ForMembers("nothing")]

FilesController == [
  upload |-> ForMembers("files"), uploadMultiple |-> ForMembers("files"),
  getFile |-> Public("nothing")]

\* the requests that make a session have none yet
AuthController == [
  register |-> Public("own session"), login |-> Public("own session"),
  refreshTokens |-> Public("own session"), verify |-> Public("own session"),
  resend |-> Public("own session"), forgotPassword |-> Public("own session"),
  resetPassword |-> Public("own session"),
  logout |-> Handler({"jwt"}, {}, "own session"),
  googleAuth |-> Handler({"google"}, {}, "own session"),
  googleCallback |-> Handler({"google"}, {}, "own session")]

Controllers == [
  blogs |-> BlogsController, chronology |-> ChronologyController,
  councilCalendar |-> CouncilCalendarController, council |-> CouncilController,
  documentCategories |-> DocumentCategoriesController, documents |-> DocumentsController,
  events |-> EventsController, experts |-> ExpertsController, meetings |-> MeetingsController,
  members |-> MembersController, news |-> NewsController, reports |-> ReportsController,
  specialProjects |-> SpecialProjectsController, team |-> TeamController,
  testimonials |-> TestimonialsController, jobs |-> JobsController, users |-> UsersController,
  roles |-> RolesController, files |-> FilesController, auth |-> AuthController]

\* the ways into the program that its guards tell apart
Handlers == UNION {{Controllers[c][h] : h \in DOMAIN Controllers[c]} : c \in DOMAIN Controllers}
=============================================================================
