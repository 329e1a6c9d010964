----------------------------- MODULE ContentTypes -----------------------------
(***************************************************************************)
(* The content modules of the site.  Their services are one program over   *)
(* different columns, and what becomes of a value a request gives, leaves  *)
(* out or gives as null is decided in three places, here one table each:   *)
(*                                                                         *)
(*   the DTO        "required" refuses an absent value and null on         *)
(*                  creation; "nested" is meant to but is @ValidateNested  *)
(*                  alone, which lets both through; "optional" does too    *)
(*   the service    the expression for the column in create and update,    *)
(*                  see OnCreate and OnUpdate                              *)
(*   the model      "required" and "default" columns take no null, and     *)
(*                  only "required" ones have no value of their own        *)
(*                                                                         *)
(* A service has the order of its listing when the query names none, the   *)
(* columns its search looks into, and the columns the query can filter by. *)
(***************************************************************************)
EXTENDS Naturals, Sequences

\* a table made of two; the prover has no definition of TLC's @@
f ++ g == [k \in DOMAIN f \cup DOMAIN g |-> IF k \in DOMAIN f THEN f[k] ELSE g[k]]

As(kind, columns) == [k \in columns |-> kind]

Asc(column)  == [by |-> column, desc |-> FALSE]
Desc(column) == [by |-> column, desc |-> TRUE]

NewestFirst  == << Desc("date") >>
InPlace      == << Asc("order"), Desc("createdAt") >>
InPlaceByDay == << Asc("order"), Asc("date") >>

CreateBlogDto == As("nested", {"title"}) ++
                 As("optional", {"content", "subject", "imageId", "date", "status"})
BlogsModel == As("required", {"title"}) ++
              As("nullable", {"content", "subject", "imageId", "date"}) ++
              As("default", {"status"})
Blogs == [
  data |-> As("text", {"title"}) ++
           As("json", {"content", "subject"}) ++
           As("date", {"date"}) ++
           As("plain", {"imageId", "status"}),
  dto |-> CreateBlogDto, model |-> BlogsModel,
  order |-> NewestFirst, search |-> {"title"}, filter |-> {}]

CreateNewsDto == As("nested", {"title"}) ++
                 As("optional", {"content", "imageId", "date", "status", "otherLink"})
NewsModel == As("required", {"title"}) ++
             As("nullable", {"content", "imageId", "date", "otherLink"}) ++
             As("default", {"status"})
News == [
  data |-> As("text", {"title"}) ++
           As("json", {"content"}) ++
           As("date", {"date"}) ++
           As("plain", {"imageId", "status", "otherLink"}),
  dto |-> CreateNewsDto, model |-> NewsModel,
  order |-> NewestFirst, search |-> {"title"}, filter |-> {}]

CreateReportDto == As("required", {"title"}) ++
                   As("optional", {"description", "previewImageId", "fileId", "date", "status"})
ReportsModel == As("required", {"title"}) ++
                As("nullable", {"description", "previewImageId", "fileId", "date"}) ++
                As("default", {"status"})
Reports == [
  data |-> As("text", {"title"}) ++
           As("json", {"description"}) ++
           As("date", {"date"}) ++
           As("plain", {"previewImageId", "fileId", "status"}),
  dto |-> CreateReportDto, model |-> ReportsModel,
  order |-> NewestFirst, search |-> {"title"}, filter |-> {}]

CreateMeetingDto == As("nested", {"title"}) ++
                    As("optional", {"content", "subject", "imageId", "imageIds", "date", "status"})
MeetingsModel == As("required", {"title"}) ++
                 As("nullable", {"content", "subject", "imageId", "date"}) ++
                 As("default", {"imageIds", "status"})
Meetings == [
  data |-> As("text", {"title"}) ++
           As("json", {"content", "subject"}) ++
           As("date", {"date"}) ++
           As("list", {"imageIds"}) ++
           As("plain", {"imageId", "status"}),
  dto |-> CreateMeetingDto, model |-> MeetingsModel,
  order |-> NewestFirst, search |-> {"title"}, filter |-> {}]

CreateEventDto == As("nested", {"title"}) ++
                  As("optional", {"content", "previewImageId", "imageId", "startDate", "endDate"})
EventsModel == As("required", {"title"}) ++
               As("nullable", {"content", "previewImageId", "imageId", "startDate", "endDate"})
Events == [
  data |-> As("text", {"title"}) ++
           As("json", {"content"}) ++
           As("date", {"startDate", "endDate"}) ++
           As("plain", {"previewImageId", "imageId"}),
  dto |-> CreateEventDto, model |-> EventsModel,
  order |-> << Desc("startDate") >>, search |-> {"title"}, filter |-> {}]

CreateChronologyDto == As("required", {"title"}) ++
                       As("optional", {"description", "date", "order", "status"})
ChronologyModel == As("required", {"title"}) ++
                   As("nullable", {"description", "date"}) ++
                   As("default", {"order", "status"})
Chronology == [
  data |-> As("text", {"title"}) ++
           As("json", {"description"}) ++
           As("date", {"date"}) ++
           As("plain", {"order", "status"}),
  dto |-> CreateChronologyDto, model |-> ChronologyModel,
  order |-> InPlaceByDay, search |-> {"title"}, filter |-> {}]

CreateCouncilCalendarDto == As("required", {"title"}) ++
                            As("optional", {"description", "date", "order", "status"})
CouncilCalendarModel == As("required", {"title"}) ++
                        As("nullable", {"description", "date"}) ++
                        As("default", {"order", "status"})
CouncilCalendar == [
  data |-> As("text", {"title"}) ++
           As("json", {"description"}) ++
           As("date", {"date"}) ++
           As("plain", {"order", "status"}),
  dto |-> CreateCouncilCalendarDto, model |-> CouncilCalendarModel,
  order |-> InPlaceByDay, search |-> {"title"}, filter |-> {}]

CreateCouncilMemberDto == As("nested", {"fullName", "position"}) ++
                          As("optional", {"photoId", "order"})
CouncilModel == As("required", {"fullName", "position"}) ++
                As("nullable", {"photoId"}) ++
                As("default", {"order"})
Council == [
  data |-> As("text", {"fullName", "position"}) ++ As("plain", {"photoId", "order"}),
  dto |-> CreateCouncilMemberDto, model |-> CouncilModel,
  order |-> InPlace, search |-> {"fullName"}, filter |-> {}]

CreateExpertDto == As("required", {"fullName", "position"}) ++
                   As("optional", {"type", "bio", "imageId", "email", "phone", "order", "status"})
ExpertsModel == As("required", {"fullName", "position"}) ++
                As("nullable", {"bio", "imageId", "email", "phone"}) ++
                As("default", {"type", "order", "status"})
Experts == [
  data |-> As("text", {"fullName", "position"}) ++
           As("json", {"bio"}) ++
           As("typed", {"type"}) ++
           As("plain", {"imageId", "email", "phone", "order", "status"}),
  dto |-> CreateExpertDto, model |-> ExpertsModel,
  order |-> InPlace, search |-> {"fullName"}, filter |-> {"type"}]

CreateMemberDto == As("required", {"name"}) ++
                   As("optional", {"description", "logoId", "link", "type", "order", "status"})
MembersModel == As("required", {"name"}) ++
                As("nullable", {"description", "logoId", "link"}) ++
                As("default", {"type", "order", "status"})
Members == [
  data |-> As("text", {"name"}) ++
           As("json", {"description"}) ++
           As("typed", {"type"}) ++
           As("plain", {"logoId", "link", "order", "status"}),
  dto |-> CreateMemberDto, model |-> MembersModel,
  order |-> InPlace, search |-> {"name"}, filter |-> {"type"}]

CreateTeamMemberDto == As("required", {"fullName", "position"}) ++
                       As("optional", {"bio", "photoId", "email", "phone", "order", "status"})
TeamMembersModel == As("required", {"fullName", "position"}) ++
                    As("nullable", {"bio", "photoId", "email", "phone"}) ++
                    As("default", {"order", "status"})
Team == [
  data |-> As("text", {"fullName", "position"}) ++
           As("json", {"bio"}) ++
           As("plain", {"photoId", "email", "phone", "order", "status"}),
  dto |-> CreateTeamMemberDto, model |-> TeamMembersModel,
  order |-> InPlace, search |-> {"fullName"}, filter |-> {}]

CreateSpecialProjectDto == As("required", {"title"}) ++ As("optional", {"link", "order", "status"})
SpecialProjectsModel == As("required", {"title"}) ++
                        As("nullable", {"link"}) ++
                        As("default", {"order", "status"})
SpecialProjects == [
  data |-> As("text", {"title"}) ++ As("plain", {"link", "order", "status"}),
  dto |-> CreateSpecialProjectDto, model |-> SpecialProjectsModel,
  order |-> InPlace, search |-> {"title"}, filter |-> {}]

CreateTestimonialDto == As("optional", {"fullName", "position", "captionId", "logoId", "videoSource", "order", "status"})
TestimonialsModel == As("nullable", {"fullName", "position", "captionId", "logoId", "videoSource"}) ++
                     As("default", {"order", "status"})
Testimonials == [
  data |-> As("plain", {"fullName", "position", "captionId", "logoId", "videoSource", "order", "status"}),
  dto |-> CreateTestimonialDto, model |-> TestimonialsModel,
  order |-> InPlace, search |-> {"fullName", "position"}, filter |-> {}]

Services == [
  blogs |-> Blogs, news |-> News, reports |-> Reports, meetings |-> Meetings, events |-> Events,
  chronology |-> Chronology, councilCalendar |-> CouncilCalendar, council |-> Council,
  experts |-> Experts, members |-> Members, team |-> Team, specialProjects |-> SpecialProjects,
  testimonials |-> Testimonials]

-----------------------------------------------------------------------------
(* What becomes of a value *)

Undefined == 0  \* left out
Null      == 1
Blank     == 2  \* {} and []
Default   == 3  \* of the database or of the service
\* larger numbers stand for values that requests give

Absent(v) == v \in {Undefined, Null}

\* the data of create
OnCreate(data, v) ==
  CASE data \in {"text", "list"} -> IF Absent(v) THEN Blank ELSE v
    [] data \in {"json", "date"} -> IF Absent(v) THEN Null ELSE v
    [] data = "typed" -> IF Absent(v) THEN Default ELSE v
    [] data = "plain" -> v

\* the data of update: undefined leaves the column as it is
OnUpdate(data, v) ==
  CASE data \in {"text", "date"} -> IF Absent(v) THEN Undefined ELSE v
    [] data = "list" -> IF v = Null THEN Blank ELSE v
    [] data \in {"json", "typed", "plain"} -> v

\* seeded fault: a database without NOT NULL
RejectsNothing(model, v) == FALSE

\* Prisma refuses null for a column that cannot be null...
Rejects(model, v) == v = Null /\ model # "nullable"
\* ... and fills in what create leaves out
Filled(model, v) ==
  CASE v # Undefined -> v
    [] v = Undefined /\ model = "default" -> Default
    [] v = Undefined /\ model = "nullable" -> Null
=============================================================================
