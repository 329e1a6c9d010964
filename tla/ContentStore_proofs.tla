-------------------------- MODULE ContentStore_proofs --------------------------
(***************************************************************************)
(* Proofs about ContentStore: for any number of editors and rows, any page *)
(* size and any sequence of requests, the rows keep their types, updates   *)
(* merge, deleted rows are final, the pages cut the listing into its       *)
(* parts, and additions hide no row from a walk through them.              *)
(***************************************************************************)
EXTENDS ContentStore, SequenceTheorems, FiniteSetTheorems, TLAPS

-----------------------------------------------------------------------------
(* The tables *)

DataKinds == {"text", "json", "date", "list", "typed", "plain"}

\* A column whose service has no default of its own is not required; one whose service
\* has takes no null.  What a listing reads are columns.
ColumnsFit(s) ==
  /\ \A k \in DOMAIN s.data :
       /\ s.data[k] \in DataKinds
       /\ s.data[k] = "typed" => s.model[k] = "default"
       /\ s.data[k] = "plain" => s.model[k] \in {"nullable", "default"}
  /\ \A n \in DOMAIN s.order : s.order[n].by \in DOMAIN s.data \cup {"createdAt"}
  /\ s.search \subseteq DOMAIN s.data /\ s.filter \subseteq DOMAIN s.data

LEMMA OrdersFit ==
  ASSUME NEW cols, "order" \in cols
  PROVE  /\ \A n \in DOMAIN InPlace : InPlace[n].by \in cols \cup {"createdAt"}
         /\ "date" \in cols => \A n \in DOMAIN InPlaceByDay : InPlaceByDay[n].by \in cols \cup {"createdAt"}
BY DEF InPlace, InPlaceByDay, Asc, Desc

LEMMA LatestFit ==
  ASSUME NEW cols, NEW k \in cols, NEW order, order = << Desc(k) >>
  PROVE  \A n \in DOMAIN order : order[n].by \in cols \cup {"createdAt"}
BY DEF Desc

LEMMA NewestFits ==
  ASSUME NEW cols, "date" \in cols
  PROVE  \A n \in DOMAIN NewestFirst : NewestFirst[n].by \in cols \cup {"createdAt"}
BY LatestFit DEF NewestFirst

LEMMA BlogsFit == ColumnsFit(Blogs)
  BY NewestFits DEF ColumnsFit, Blogs, BlogsModel, As, DataKinds, ++
LEMMA NewsFit == ColumnsFit(News)
  BY NewestFits DEF ColumnsFit, News, NewsModel, As, DataKinds, ++
LEMMA ReportsFit == ColumnsFit(Reports)
  BY NewestFits DEF ColumnsFit, Reports, ReportsModel, As, DataKinds, ++
LEMMA MeetingsFit == ColumnsFit(Meetings)
<1>0. Meetings.data = As("text", {"title"}) ++ As("json", {"content", "subject"}) ++ As("date", {"date"})
                      ++ As("list", {"imageIds"}) ++ As("plain", {"imageId", "status"})
  BY DEF Meetings
<1>1. "title" \in DOMAIN Meetings.data /\ "date" \in DOMAIN Meetings.data
  BY <1>0 DEF As, ++
<1>2. Meetings.order = NewestFirst /\ Meetings.search = {"title"} /\ Meetings.filter = {}
  BY DEF Meetings
<1>3. \A k \in DOMAIN Meetings.data :
        /\ Meetings.data[k] \in DataKinds \ {"typed"}
        /\ Meetings.data[k] = "plain" => Meetings.model[k] \in {"nullable", "default"}
  BY DEF Meetings, MeetingsModel, As, DataKinds, ++
<1> QED
  BY <1>1, <1>2, <1>3, NewestFits DEF ColumnsFit
LEMMA EventsFit == ColumnsFit(Events)
<1>0. Events.data = As("text", {"title"}) ++ As("json", {"content"}) ++ As("date", {"startDate", "endDate"})
                    ++ As("plain", {"previewImageId", "imageId"})
  BY DEF Events
<1>1. "title" \in DOMAIN Events.data /\ "startDate" \in DOMAIN Events.data
  BY <1>0 DEF As, ++
<1>2. Events.order = << Desc("startDate") >> /\ Events.search = {"title"} /\ Events.filter = {}
  BY DEF Events
<1>3. \A k \in DOMAIN Events.data :
        /\ Events.data[k] \in DataKinds \ {"typed"}
        /\ Events.data[k] = "plain" => Events.model[k] \in {"nullable", "default"}
  BY DEF Events, EventsModel, As, DataKinds, ++
<1> QED
  BY <1>1, <1>2, <1>3, LatestFit DEF ColumnsFit
LEMMA ChronologyFits == ColumnsFit(Chronology)
  BY OrdersFit DEF ColumnsFit, Chronology, ChronologyModel, As, DataKinds, ++
LEMMA CouncilCalendarFits == ColumnsFit(CouncilCalendar)
  BY OrdersFit DEF ColumnsFit, CouncilCalendar, CouncilCalendarModel, As, DataKinds, ++
LEMMA CouncilFits == ColumnsFit(Council)
  BY OrdersFit DEF ColumnsFit, Council, CouncilModel, As, DataKinds, ++
LEMMA ExpertsFit == ColumnsFit(Experts)
  BY OrdersFit DEF ColumnsFit, Experts, ExpertsModel, As, DataKinds, ++
LEMMA MembersFit == ColumnsFit(Members)
  BY OrdersFit DEF ColumnsFit, Members, MembersModel, As, DataKinds, ++
LEMMA TeamFits == ColumnsFit(Team)
  BY OrdersFit DEF ColumnsFit, Team, TeamMembersModel, As, DataKinds, ++
LEMMA SpecialProjectsFit == ColumnsFit(SpecialProjects)
  BY OrdersFit DEF ColumnsFit, SpecialProjects, SpecialProjectsModel, As, DataKinds, ++
LEMMA TestimonialsFit == ColumnsFit(Testimonials)
  BY OrdersFit DEF ColumnsFit, Testimonials, TestimonialsModel, As, DataKinds, ++

LEMMA ServicesFit == \A s \in DOMAIN Services : ColumnsFit(Services[s])
BY BlogsFit, NewsFit, ReportsFit, MeetingsFit, EventsFit, ChronologyFits, CouncilCalendarFits,
   CouncilFits, ExpertsFit, MembersFit, TeamFits, SpecialProjectsFit, TestimonialsFit DEF Services

-----------------------------------------------------------------------------
(* What becomes of a value *)

Offered == {Undefined, Null, 4, 5}

\* A column that is created holds a value, and null only if it may.
LEMMA CreatedHolds ==
  ASSUME NEW d \in DataKinds, NEW m, d = "plain" => m \in {"nullable", "default"},
         NEW v \in Offered, ~Rejects(m, OnCreate(d, v))
  PROVE  /\ Filled(m, OnCreate(d, v)) \in Values \ {Undefined}
         /\ m # "nullable" => Filled(m, OnCreate(d, v)) # Null
BY DEF DataKinds, Offered, Values, Rejects, OnCreate, Filled, Absent, Undefined, Null, Blank, Default

\* So does one that is updated, unless it is left as it is.
LEMMA UpdatedHolds ==
  ASSUME NEW d \in DataKinds, NEW m, NEW v \in Offered, ~Rejects(m, OnUpdate(d, v))
  PROVE  OnUpdate(d, v) # Undefined =>
           /\ OnUpdate(d, v) \in Values \ {Undefined}
           /\ m # "nullable" => OnUpdate(d, v) # Null
BY DEF DataKinds, Offered, Values, Rejects, OnUpdate, Absent, Undefined, Null, Blank

\* An update of a column that was created from g leaves it as a creation from what g
\* and the update say together.
LEMMA SaidIsMerged ==
  ASSUME NEW d \in DataKinds, NEW m, d = "typed" => m = "default",
         NEW g \in Offered, NEW v \in Offered, ~Rejects(m, OnUpdate(d, v))
  PROVE  Filled(m, OnCreate(d, IF v = Undefined \/ (v = Null /\ d \in {"text", "date"}) THEN g ELSE v))
         = IF OnUpdate(d, v) = Undefined THEN Filled(m, OnCreate(d, g)) ELSE OnUpdate(d, v)
<1>1. CASE d \in {"text", "date"}
  <2>1. v \in {Undefined, Null} => OnUpdate(d, v) = Undefined
    BY <1>1 DEF OnUpdate, Absent
  <2>2. v \in {4, 5} => OnUpdate(d, v) = v /\ OnCreate(d, v) = v /\ Filled(m, v) = v
    BY <1>1 DEF OnUpdate, OnCreate, Filled, Absent, Undefined, Null
  <2> QED
    BY <1>1, <2>1, <2>2 DEF Offered, Undefined, Null
<1>2. CASE d = "list"
  <2>1. OnUpdate(d, v) = IF v = Null THEN Blank ELSE v
    BY <1>2 DEF OnUpdate
  <2>2. v # Undefined => Filled(m, OnCreate(d, v)) = IF v = Null THEN Blank ELSE v
    BY <1>2 DEF Offered, OnCreate, Filled, Absent, Undefined, Null, Blank
  <2> QED
    BY <1>2, <2>1, <2>2 DEF Undefined, Null, Blank
<1>3. CASE d \in {"json", "typed", "plain"}
  <2>1. OnUpdate(d, v) = v
    BY <1>3 DEF OnUpdate
  <2>2. v # Undefined => Filled(m, OnCreate(d, v)) = v
    <3>1. v # Null \/ m = "nullable"
      BY <2>1 DEF Rejects
    <3>2. v = Null => OnCreate(d, v) = v
      BY <1>3, <3>1 DEF OnCreate, Absent
    <3>3. v \notin {Undefined, Null} => OnCreate(d, v) = v
      BY <1>3 DEF OnCreate, Absent
    <3> QED
      BY <3>2, <3>3 DEF Filled
  <2> QED
    BY <1>3, <2>1, <2>2
<1> QED
  BY <1>1, <1>2, <1>3 DEF DataKinds

-----------------------------------------------------------------------------
(* Rows, column by column *)

RowsOf(t, s) ==
  {r \in [state : {"live", "deleted"}, value : [t -> Values \ {Undefined}]] :
     \A k \in t : Services[s].model[k] # "nullable" => r.value[k] # Null}

Says(t) == [t -> Offered]

CreatedFrom(t, s, g) ==
  [k \in t |-> Filled(Services[s].model[k], OnCreate(Services[s].data[k], g[k]))]

MergedFrom(t, s, old, v) ==
  [k \in t |-> IF OnUpdate(Services[s].data[k], v[k]) = Undefined THEN old[k]
               ELSE OnUpdate(Services[s].data[k], v[k])]

SaidFrom(t, s, g, v) ==
  [k \in t |-> IF v[k] = Undefined \/ (v[k] = Null /\ Services[s].data[k] \in {"text", "date"})
               THEN g[k] ELSE v[k]]

\* A row that is created is one of the table's.
LEMMA NewRow ==
  ASSUME NEW s \in DOMAIN Services, NEW t \in SUBSET DOMAIN Services[s].data, NEW g \in Says(t),
         \A k \in t : ~Rejects(Services[s].model[k], OnCreate(Services[s].data[k], g[k]))
  PROVE  [state |-> "live", value |-> CreatedFrom(t, s, g)] \in RowsOf(t, s)
<1> DEFINE value == CreatedFrom(t, s, g)
<1>1. ASSUME NEW k \in t
      PROVE  value[k] \in Values \ {Undefined} /\ (Services[s].model[k] # "nullable" => value[k] # Null)
  <2> DEFINE d == Services[s].data[k]  m == Services[s].model[k]  v == g[k]
  <2>1. d \in DataKinds /\ (d = "plain" => m \in {"nullable", "default"})
    BY ServicesFit DEF ColumnsFit
  <2>2. v \in Offered /\ ~Rejects(m, OnCreate(d, v))
    BY DEF Says
  <2>3. value[k] = Filled(m, OnCreate(d, v))
    BY DEF CreatedFrom
  <2> HIDE DEF d, m, v, value
  <2>4. value[k] \in Values \ {Undefined} /\ (m # "nullable" => value[k] # Null)
    BY <2>1, <2>2, <2>3, CreatedHolds
  <2> QED
    BY <2>4 DEF m
<1>2. value \in [t -> Values \ {Undefined}]
  <2>1. value = [k \in t |-> value[k]]
    BY DEF CreatedFrom
  <2> HIDE DEF value
  <2> QED
    BY <1>1, <2>1
<1> HIDE DEF value
<1> QED
  BY <1>1, <1>2 DEF RowsOf, value

\* So is one that is updated.
LEMMA MergedRow ==
  ASSUME NEW s \in DOMAIN Services, NEW t \in SUBSET DOMAIN Services[s].data,
         NEW r \in RowsOf(t, s), NEW v \in Says(t),
         \A k \in t : ~Rejects(Services[s].model[k], OnUpdate(Services[s].data[k], v[k])),
         NEW row, row = [r EXCEPT !.value = MergedFrom(t, s, r.value, v)]
  PROVE  row \in RowsOf(t, s) /\ row.state = r.state /\ row.value = MergedFrom(t, s, r.value, v)
<1> DEFINE value == MergedFrom(t, s, r.value, v)
<1>0. /\ r \in [state : {"live", "deleted"}, value : [t -> Values \ {Undefined}]]
      /\ \A k \in t : Services[s].model[k] # "nullable" => r.value[k] # Null
  BY DEF RowsOf
<1>1. ASSUME NEW k \in t
      PROVE  value[k] \in Values \ {Undefined} /\ (Services[s].model[k] # "nullable" => value[k] # Null)
  <2> DEFINE d == Services[s].data[k]  m == Services[s].model[k]  w == v[k]  old == r.value[k]
  <2>1. d \in DataKinds
    BY ServicesFit DEF ColumnsFit
  <2>2. w \in Offered /\ ~Rejects(m, OnUpdate(d, w))
    BY DEF Says
  <2>3. value[k] = IF OnUpdate(d, w) = Undefined THEN old ELSE OnUpdate(d, w)
    BY DEF MergedFrom
  <2>4. old \in Values \ {Undefined} /\ (m # "nullable" => old # Null)
    BY <1>0
  <2> HIDE DEF d, m, w, old, value
  <2>5. value[k] \in Values \ {Undefined} /\ (m # "nullable" => value[k] # Null)
    BY <2>1, <2>2, <2>3, <2>4, UpdatedHolds
  <2> QED
    BY <2>5 DEF m
<1>2. value \in [t -> Values \ {Undefined}]
  <2>1. value = [k \in t |-> value[k]]
    BY DEF MergedFrom
  <2> HIDE DEF value
  <2> QED
    BY <1>1, <2>1
<1> HIDE DEF value
<1> QED
  BY <1>0, <1>1, <1>2 DEF RowsOf, value

\* An update of a row that was created from g leaves what a creation from g and the
\* update together would.
LEMMA MergedIsCreated ==
  ASSUME NEW s \in DOMAIN Services, NEW t \in SUBSET DOMAIN Services[s].data,
         NEW g \in Says(t), NEW v \in Says(t),
         \A k \in t : ~Rejects(Services[s].model[k], OnUpdate(Services[s].data[k], v[k]))
  PROVE  /\ SaidFrom(t, s, g, v) \in Says(t)
         /\ MergedFrom(t, s, CreatedFrom(t, s, g), v) = CreatedFrom(t, s, SaidFrom(t, s, g, v))
<1>1. SaidFrom(t, s, g, v) \in Says(t)
  BY DEF SaidFrom, Says
<1>2. ASSUME NEW k \in t
      PROVE  MergedFrom(t, s, CreatedFrom(t, s, g), v)[k] = CreatedFrom(t, s, SaidFrom(t, s, g, v))[k]
  <2> DEFINE d == Services[s].data[k]  m == Services[s].model[k]  w == v[k]  h == g[k]
             said == IF w = Undefined \/ (w = Null /\ d \in {"text", "date"}) THEN h ELSE w
  <2>1. d \in DataKinds /\ (d = "typed" => m = "default")
    BY ServicesFit DEF ColumnsFit
  <2>2. h \in Offered /\ w \in Offered /\ ~Rejects(m, OnUpdate(d, w))
    BY DEF Says
  <2>3. CreatedFrom(t, s, SaidFrom(t, s, g, v))[k] = Filled(m, OnCreate(d, said))
    <3>1. SaidFrom(t, s, g, v)[k] = said
      BY DEF SaidFrom
    <3> HIDE DEF said
    <3> QED
      BY <3>1 DEF CreatedFrom
  <2>4. MergedFrom(t, s, CreatedFrom(t, s, g), v)[k]
        = IF OnUpdate(d, w) = Undefined THEN Filled(m, OnCreate(d, h)) ELSE OnUpdate(d, w)
    BY DEF MergedFrom, CreatedFrom
  <2>5. Filled(m, OnCreate(d, said))
        = IF OnUpdate(d, w) = Undefined THEN Filled(m, OnCreate(d, h)) ELSE OnUpdate(d, w)
    <3> HIDE DEF d, m, w, h
    <3> QED
      BY <2>1, <2>2, SaidIsMerged
  <2> QED
    BY <2>3, <2>4, <2>5
<1> QED
  BY <1>1, <1>2 DEF MergedFrom, CreatedFrom

-----------------------------------------------------------------------------
(* The inductive invariant *)

RequestsOf(t) ==
  {NoEdit} \cup [op : {"update"}, id : Items, input : Says(t)]
           \cup [op : {"remove"}, id : Items, input : {<<>>}]

VisitsOf(orders) ==
  [pc : {"home", "asked", "read", "counted", "both", "done"}, order : orders, search : {0, 4},
   only : {0, 4}, page : Nat \ {0}, got : Seq(Items), total : Nat, seen : Seq(Items),
   start : SUBSET Items, change : {"none", "grown", "changed"}, torn : BOOLEAN]

ChosenOK ==
  /\ service \in DOMAIN Services /\ tracked \in SUBSET DOMAIN Services[service].data

TablesOK ==
  /\ item \in [Items -> {NoItem} \cup RowsOf(tracked, service)]
  /\ given \in [Items -> {<<>>} \cup Says(tracked)]

RequestsOK == edit \in [Editors -> RequestsOf(tracked)]

\* A live row is what one creation with all that was said of it would leave.
Merges(i) ==
  scene = "history" /\ Live(i) =>
    given[i] \in Says(tracked) /\ item[i].value = CreatedFrom(tracked, service, given[i])

RowsInv == ChosenOK /\ TablesOK /\ RequestsOK /\ \A i \in Items : Merges(i)

AskableOrders == Orders \cup {<<>>}
VisitInv == visit \in VisitsOf(AskableOrders)

LEMMA TrackedAreColumns == ContentInit => ChosenOK
<1> SUFFICES ASSUME ContentInit PROVE ChosenOK
  OBVIOUS
<1> DEFINE S == Services[service]  cols == DOMAIN S.data
<1>1. service \in DOMAIN Services
  <2>1. Walked \subseteq DOMAIN Services
    BY DEF Walked, Services
  <2> QED
    BY <2>1 DEF ContentInit
<1>2. ColumnsFit(S)
  BY <1>1, ServicesFit
<1>3. Kinds(service) \subseteq cols
  <2>1. ASSUME NEW k \in cols PROVE (CHOOSE l \in cols : Alike(service, k, l)) \in cols
    <3>1. Alike(service, k, k)
      BY DEF Alike
    <3> QED
      BY <3>1
  <2> QED
    BY <2>1 DEF Kinds
<1>4. Ordering(service) \subseteq cols
  BY <1>2 DEF Ordering, ColumnsFit
<1>5. \A t \in Listed(service) : t \subseteq cols
  <2>1. S.search \subseteq cols /\ S.filter \subseteq cols
    BY <1>2 DEF ColumnsFit
  <2> HIDE DEF cols
  <2> QED
    BY <1>4, <2>1 DEF Listed
<1>6. \A t \in kSubset(2, Kinds(service)) : t \subseteq cols
  BY <1>3 DEF kSubset
<1> HIDE DEF cols
<1>7. tracked \subseteq cols
  BY <1>5, <1>6 DEF ContentInit
<1> QED
  BY <1>1, <1>7 DEF ChosenOK, cols

LEMMA InitRows == ContentInit => RowsInv
<1> SUFFICES ASSUME ContentInit PROVE RowsInv
  OBVIOUS
<1>1. /\ item = [i \in Items |-> NoItem] /\ given = [i \in Items |-> <<>>]
      /\ edit = [c \in Editors |-> NoEdit]
  BY DEF ContentInit
<1>2. TablesOK /\ RequestsOK
  BY <1>1 DEF TablesOK, RequestsOK, RequestsOf
<1>3. \A i \in Items : Merges(i)
  BY <1>1 DEF Merges, Live, NoItem
<1> QED
  BY <1>2, <1>3, TrackedAreColumns DEF RowsInv

-----------------------------------------------------------------------------
(* The editors' steps *)

\* A request that finds a row changes no table.
LEMMA FindKeeps ==
  ASSUME RowsInv, NEW c \in Editors, NEW i \in Items, updateItem(c, i) \/ removeItem(c, i)
  PROVE  RowsInv'
<1>1. UNCHANGED <<chosen, item, given>>
  BY DEF updateItem, removeItem
<1>2. RequestsOK'
  <2>1. CASE updateItem(c, i)
    <3>1. Inputs \subseteq Says(tracked)
      BY DEF Inputs, Says, Offered, Undefined, Null
    <3>2. PICK input \in Says(tracked) : edit' = [edit EXCEPT ![c] = [op |-> "update", id |-> i, input |-> input]]
      BY <2>1, <3>1 DEF updateItem
    <3> QED
      BY <1>1, <3>2 DEF RowsInv, RequestsOK, RequestsOf, chosen
  <2>2. CASE removeItem(c, i)
    BY <1>1, <2>2 DEF removeItem, RowsInv, RequestsOK, RequestsOf, chosen
  <2> QED
    BY <2>1, <2>2
<1> QED
  BY <1>1, <1>2 DEF RowsInv, ChosenOK, TablesOK, Merges, Live, chosen

LEMMA CreateKeeps ==
  ASSUME RowsInv, NEW i \in Items, createItem(i)
  PROVE  RowsInv'
<1>1. /\ service' = service /\ tracked' = tracked /\ scene' = scene /\ edit' = edit
  BY DEF createItem, chosen
<1>2. PICK input \in Inputs : /\ Accepted(CreateData(input))
                             /\ item' = [item EXCEPT ![i] = [state |-> "live", value |-> Created(input)]]
                             /\ note(i, input)
  BY DEF createItem
<1>3. input \in Says(tracked)
  BY DEF Inputs, Says, Offered, Undefined, Null
<1>4. Created(input) = CreatedFrom(tracked, service, input)
  BY DEF Created, CreateData, CreatedFrom, Data, Model
<1>5. \A k \in tracked : ~Rejects(Services[service].model[k], OnCreate(Services[service].data[k], input[k]))
  BY <1>2 DEF Accepted, CreateData, Data, Model
<1> DEFINE row == [state |-> "live", value |-> CreatedFrom(tracked, service, input)]
<1>6. row \in RowsOf(tracked, service)
  BY <1>3, <1>5, NewRow DEF RowsInv, ChosenOK
<1>7. row.value = CreatedFrom(tracked, service, input)
  OBVIOUS
<1>8. item' = [item EXCEPT ![i] = row]
  BY <1>2, <1>4
<1> HIDE DEF row
<1>9. scene = "history" => given' = [given EXCEPT ![i] = input]
  BY <1>2 DEF note
<1>10. scene # "history" => given' = given
  BY <1>2 DEF note
<1>11. TablesOK'
  BY <1>1, <1>3, <1>6, <1>8, <1>9, <1>10 DEF RowsInv, TablesOK
<1>12. ASSUME NEW j \in Items PROVE Merges(j)'
  <2>1. CASE j = i
    BY <1>1, <1>3, <1>7, <1>8, <1>9, <2>1 DEF RowsInv, TablesOK, Merges
  <2>2. CASE j # i
    BY <1>1, <1>8, <1>9, <2>2 DEF RowsInv, TablesOK, Merges, Live
  <2> QED
    BY <2>1, <2>2
<1> QED
  BY <1>1, <1>11, <1>12 DEF RowsInv, ChosenOK, RequestsOK

LEMMA UpdateKeeps ==
  ASSUME RowsInv, NEW c \in Editors, writeUpdate(c)
  PROVE  RowsInv'
<1> DEFINE i == edit[c].id  input == edit[c].input
<1>1. /\ service' = service /\ tracked' = tracked /\ scene' = scene
      /\ edit' = [edit EXCEPT ![c] = NoEdit] /\ edit[c].op = "update"
      /\ Live(i) /\ Accepted(UpdateData(input))
      /\ item' = [item EXCEPT ![i].value = Merged(@, input)]
      /\ note(i, Said(given[i], input))
  BY DEF writeUpdate, chosen, finish, Found
<1>2. i \in Items /\ input \in Says(tracked)
  BY <1>1 DEF RowsInv, RequestsOK, RequestsOf, NoEdit
<1> HIDE DEF i, input
<1>3. \A k \in tracked : ~Rejects(Services[service].model[k], OnUpdate(Services[service].data[k], input[k]))
  BY <1>1 DEF Accepted, UpdateData, Data, Model
<1>4. item[i] \in RowsOf(tracked, service)
  BY <1>1, <1>2 DEF RowsInv, TablesOK, Live, NoItem
<1> DEFINE row == [item[i] EXCEPT !.value = MergedFrom(tracked, service, item[i].value, input)]
<1>5. row \in RowsOf(tracked, service) /\ row.state = item[i].state
      /\ row.value = MergedFrom(tracked, service, item[i].value, input)
  <2>1. service \in DOMAIN Services /\ tracked \in SUBSET DOMAIN Services[service].data
    BY DEF RowsInv, ChosenOK
  <2>2. row = [item[i] EXCEPT !.value = MergedFrom(tracked, service, item[i].value, input)]
    OBVIOUS
  <2> HIDE DEF row
  <2> QED
    BY <1>2, <1>3, <1>4, <2>1, <2>2, MergedRow
<1>6. item' = [item EXCEPT ![i] = row]
  <2>1. Merged(item[i].value, input) = MergedFrom(tracked, service, item[i].value, input)
    BY DEF Merged, UpdateData, MergedFrom, Data, Model
  <2> QED
    BY <1>1, <2>1
<1> HIDE DEF row
<1> DEFINE said == SaidFrom(tracked, service, given[i], input)
<1>7. scene = "history" => /\ given' = [given EXCEPT ![i] = said]
                           /\ said \in Says(tracked)
                           /\ row.value = CreatedFrom(tracked, service, said)
  <2> SUFFICES ASSUME scene = "history"
               PROVE  /\ given' = [given EXCEPT ![i] = said]
                      /\ said \in Says(tracked)
                      /\ row.value = CreatedFrom(tracked, service, said)
    OBVIOUS
  <2>1. Said(given[i], input) = said
    BY DEF Said, SaidFrom, Data
  <2>2. given[i] \in Says(tracked) /\ item[i].value = CreatedFrom(tracked, service, given[i])
    BY <1>1, <1>2 DEF RowsInv, Merges
  <2>3. said \in Says(tracked)
        /\ MergedFrom(tracked, service, CreatedFrom(tracked, service, given[i]), input)
           = CreatedFrom(tracked, service, said)
    BY <1>2, <1>3, <2>2, MergedIsCreated DEF RowsInv, ChosenOK
  <2> QED
    BY <1>1, <1>5, <2>1, <2>2, <2>3 DEF note
<1> HIDE DEF said
<1>8. scene # "history" => given' = given
  BY <1>1 DEF note
<1>9. TablesOK'
  BY <1>1, <1>2, <1>5, <1>6, <1>7, <1>8 DEF RowsInv, TablesOK
<1>10. ASSUME NEW j \in Items PROVE Merges(j)'
  <2>1. CASE j = i
    BY <1>1, <1>2, <1>6, <1>7, <2>1 DEF RowsInv, TablesOK, Merges
  <2>2. CASE j # i
    BY <1>1, <1>2, <1>6, <1>7, <2>2 DEF RowsInv, TablesOK, Merges, Live
  <2> QED
    BY <2>1, <2>2
<1>11. RequestsOK'
  BY <1>1 DEF RowsInv, RequestsOK, RequestsOf
<1> QED
  BY <1>1, <1>9, <1>10, <1>11 DEF RowsInv, ChosenOK

LEMMA RemoveKeeps ==
  ASSUME RowsInv, NEW c \in Editors, writeRemove(c)
  PROVE  RowsInv'
<1> DEFINE i == edit[c].id  row == [item[i] EXCEPT !.state = "deleted"]
<1>1. /\ service' = service /\ tracked' = tracked /\ scene' = scene /\ given' = given
      /\ edit' = [edit EXCEPT ![c] = NoEdit] /\ edit[c].op = "remove" /\ Live(i)
      /\ item' = [item EXCEPT ![i] = row]
  BY DEF writeRemove, chosen, finish, Found
<1>2. i \in Items
  BY <1>1 DEF RowsInv, RequestsOK, RequestsOf, NoEdit
<1> HIDE DEF i
<1>3. item[i] \in RowsOf(tracked, service)
  BY <1>1, <1>2 DEF RowsInv, TablesOK, Live, NoItem
<1>4. row \in RowsOf(tracked, service) /\ row.state = "deleted"
  BY <1>3 DEF RowsOf
<1> HIDE DEF row
<1>5. TablesOK'
  BY <1>1, <1>2, <1>4 DEF RowsInv, TablesOK
<1>6. ASSUME NEW j \in Items PROVE Merges(j)'
  BY <1>1, <1>2, <1>4 DEF RowsInv, TablesOK, Merges, Live
<1>7. RequestsOK'
  BY <1>1 DEF RowsInv, RequestsOK, RequestsOf
<1> QED
  BY <1>1, <1>5, <1>6, <1>7 DEF RowsInv, ChosenOK

LEMMA FailKeeps ==
  ASSUME RowsInv, NEW c \in Editors, failWrite(c)
  PROVE  RowsInv'
BY DEF failWrite, finish, chosen, RowsInv, ChosenOK, TablesOK, RequestsOK, RequestsOf, Merges, Live

LEMMA RowsStep == RowsInv /\ [ContentNext]_contentVars => RowsInv'
<1> SUFFICES ASSUME RowsInv, [ContentNext]_contentVars PROVE RowsInv'
  OBVIOUS
<1>1. ASSUME UNCHANGED <<chosen, item, given, edit>> PROVE RowsInv'
  BY <1>1 DEF RowsInv, ChosenOK, TablesOK, RequestsOK, Merges, Live, chosen
<1>2. CASE Visiting
  BY <1>1, <1>2 DEF Visiting, ask, readPage, readCount, turnPage, leave
<1>3. CASE UNCHANGED contentVars
  BY <1>1, <1>3 DEF contentVars
<1>4. ASSUME NEW c \in Editors, Edit(c) PROVE RowsInv'
  BY <1>4, FindKeeps, UpdateKeeps, RemoveKeeps, FailKeeps DEF Edit
<1> QED
  BY <1>2, <1>3, <1>4, CreateKeeps DEF ContentNext

THEOREM RowsInvariant == ContentSpec => []RowsInv
<1> QED
  BY InitRows, RowsStep, PTL DEF ContentSpec

\* Creation and any sequence of updates leave a row as one creation with all that they
\* said would, whatever the columns, the rows, the editors and their interleaving.
THEOREM UpdatesAlwaysMerge == ContentSpec => []UpdatesMerge
<1>1. RowsInv => UpdatesMerge
  <2> SUFFICES ASSUME RowsInv, scene = "history", NEW i \in Items, Live(i)
               PROVE  item[i].value = Created(given[i])
    BY DEF UpdatesMerge
  <2>1. item[i].value = CreatedFrom(tracked, service, given[i])
    BY DEF RowsInv, Merges
  <2> QED
    BY <2>1 DEF Created, CreateData, CreatedFrom, Data, Model
<1> QED
  BY <1>1, RowsInvariant, PTL

\* A deleted row never comes back and never changes, however late the update that found
\* it before.
THEOREM DeletedItemsAreFinal == ContentSpec => DeletedItemIsFinal
<1>1. RowsInv /\ [ContentNext]_contentVars
      => [\A i \in Items : item[i].state = "deleted" => item'[i] = item[i]]_contentVars
  <2> SUFFICES ASSUME RowsInv, ContentNext, NEW i \in Items, item[i].state = "deleted"
               PROVE  item'[i] = item[i]
    OBVIOUS
  <2>0. item = [j \in Items |-> item[j]]
    BY DEF RowsInv, TablesOK
  <2>1. CASE Visiting
    BY <2>1 DEF Visiting, ask, readPage, readCount, turnPage, leave
  <2>2. ASSUME NEW j \in Items, createItem(j) PROVE item'[i] = item[i]
    BY <2>0, <2>2 DEF createItem, NoItem
  <2>3. ASSUME NEW c \in Editors, Edit(c) PROVE item'[i] = item[i]
    <3>1. CASE writeUpdate(c)
      BY <2>0, <3>1 DEF writeUpdate, Found, Live
    <3>2. CASE writeRemove(c)
      BY <2>0, <3>2 DEF writeRemove, Found, Live
    <3> QED
      BY <2>3, <3>1, <3>2 DEF Edit, updateItem, removeItem, failWrite
  <2> QED
    BY <2>1, <2>2, <2>3 DEF ContentNext
<1> QED
  BY <1>1, RowsInvariant, PTL DEF ContentSpec, DeletedItemIsFinal

-----------------------------------------------------------------------------
(* The listing *)

\* Rows that are found are rows of the table, finitely many.
LEMMA WhereIsRows ==
  ASSUME RowsInv, NEW search, NEW only
  PROVE  /\ Where(search, only) \subseteq Items
         /\ \A i \in Where(search, only) : item[i] \in RowsOf(tracked, service)
         /\ IsFiniteSet(Where(search, only)) /\ Cardinality(Where(search, only)) \in Nat
<1>1. Where(search, only) \subseteq Items /\ \A i \in Where(search, only) : Live(i)
  BY DEF Where
<1>2. \A i \in Items : Live(i) => item[i] \in RowsOf(tracked, service)
  BY DEF RowsInv, TablesOK, Live, NoItem
<1>3. IsFiniteSet(Items)
  BY ContentAssumption, FS_Interval DEF Items
<1>4. IsFiniteSet(Where(search, only))
  BY <1>1, <1>3, FS_Subset
<1> QED
  BY <1>1, <1>2, <1>4, FS_CardinalityType

LEMMA KeysAreNumbers ==
  ASSUME RowsInv, NEW i \in Items, item[i] \in RowsOf(tracked, service), NEW k
  PROVE  SortKey(i, k) \in Nat
<1>1. i \in Nat
  BY ContentAssumption DEF Items
<1>2. ASSUME k \in tracked PROVE item[i].value[k] \in Nat
  BY <1>2 DEF RowsOf, Values, Undefined
<1>3. CASE k \in tracked
  BY <1>2, <1>3 DEF SortKey
<1>4. CASE k \notin tracked
  BY <1>1, <1>4 DEF SortKey
<1> QED
  BY <1>3, <1>4

\* No row comes before itself.
LEMMA NotBeforeItself ==
  ASSUME RowsInv, NEW i \in Items, item[i] \in RowsOf(tracked, service)
  PROVE  ~Before(i, i)
<1> SUFFICES ASSUME NEW n \in DOMAIN visit.order
             PROVE  LET o == visit.order[n]
                    IN  ~(IF o.desc THEN SortKey(i, o.by) > SortKey(i, o.by)
                          ELSE SortKey(i, o.by) < SortKey(i, o.by))
  BY DEF Before
<1> DEFINE key == SortKey(i, visit.order[n].by)
<1>1. key \in Nat
  BY KeysAreNumbers
<1> HIDE DEF key
<1>2. ~(key > key) /\ ~(key < key)
  BY <1>1
<1> QED
  BY <1>2 DEF key

\* how many rows of M come before i
Rank(M, i) == Cardinality({j \in M : Before(j, i)})

\* A listing has each row once, and when the order decides between any two rows it has
\* each at its rank.
LEMMA ListingRanks ==
  ASSUME RowsInv, NEW s \in Listings
  PROVE  /\ s \in [1..Cardinality(Matching) -> Matching] /\ Cardinality(Matching) \in Nat
         /\ \A x \in Matching : \E n \in 1..Cardinality(Matching) : s[n] = x
         /\ ~Ties => \A n \in 1..Cardinality(Matching) : Rank(Matching, s[n]) = n - 1
<1> DEFINE N == Cardinality(Matching)
<1>1. /\ Matching \subseteq Items /\ IsFiniteSet(Matching) /\ N \in Nat
      /\ \A i \in Matching : item[i] \in RowsOf(tracked, service)
  BY WhereIsRows DEF Matching
<1>2. /\ s \in [1..N -> Matching] /\ \A i, j \in 1..N : i # j => s[i] # s[j]
      /\ \A p, q \in 1..N : p < q => ~Before(s[q], s[p])
  BY DEF Listings, SetToSeqs
<1> HIDE DEF N
<1>3. \A x \in Matching : \E n \in 1..N : s[n] = x
  <2>1. s \in Injection(1..N, Matching)
    BY <1>2 DEF Injection, IsInjective
  <2>2. IsFiniteSet(1..N) /\ Cardinality(1..N) = N
    BY <1>1, FS_Interval
  <2>3. s \in Surjection(1..N, Matching)
    BY <1>1, <2>1, <2>2, FS_Injection DEF N
  <2> QED
    BY <2>3 DEF Surjection
<1>4. ASSUME ~Ties, NEW n \in 1..N PROVE Rank(Matching, s[n]) = n - 1
  <2> DEFINE first == {s[m] : m \in 1..(n - 1)}
             f == [m \in 1..(n - 1) |-> s[m]]
  <2>1. ASSUME NEW m \in 1..(n - 1) PROVE s[m] \in Matching /\ Before(s[m], s[n])
    <3>1. m \in 1..N /\ m < n /\ s[m] \in Matching /\ s[n] \in Matching /\ s[m] # s[n]
      BY <1>1, <1>2
    <3>2. ~Before(s[n], s[m])
      BY <1>2, <3>1
    <3> QED
      BY <1>4, <3>1, <3>2 DEF Ties
  <2>2. ASSUME NEW x \in Matching, Before(x, s[n]) PROVE x \in first
    <3>1. PICK m \in 1..N : s[m] = x
      BY <1>3
    <3>2. m # n
      <4>1. s[n] \in Items /\ item[s[n]] \in RowsOf(tracked, service)
        BY <1>1, <1>2
      <4> QED
        BY <2>2, <3>1, <4>1, NotBeforeItself
    <3>3. ~(n < m)
      BY <1>2, <2>2, <3>1
    <3>4. m \in 1..(n - 1)
      BY <1>1, <3>2, <3>3
    <3> QED
      BY <3>1, <3>4
  <2>3. {j \in Matching : Before(j, s[n])} = first
    BY <2>1, <2>2
  <2>4. f \in Injection(1..(n - 1), first)
    BY <1>1, <1>2 DEF Injection, IsInjective
  <2>5. f \in Surjection(1..(n - 1), first)
    BY DEF Surjection
  <2>6. IsFiniteSet(1..(n - 1)) /\ Cardinality(1..(n - 1)) = n - 1
    BY <1>1, FS_Interval
  <2>7. Cardinality(first) = n - 1
    <3> HIDE DEF first, f
    <3> QED
      BY <2>4, <2>5, <2>6, FS_Surjection
  <2> QED
    BY <2>3, <2>7 DEF Rank
<1> QED
  BY <1>1, <1>2, <1>3, <1>4 DEF N

\* So there is only one such listing.
LEMMA OneListing ==
  ASSUME RowsInv, ~Ties, NEW s \in Listings, NEW t \in Listings
  PROVE  s = t
<1> DEFINE N == Cardinality(Matching)
<1>1. s \in [1..N -> Matching] /\ t \in [1..N -> Matching] /\ N \in Nat
  BY ListingRanks
<1>2. ASSUME NEW n \in 1..N PROVE s[n] = t[n]
  <2>1. PICK m \in 1..N : t[m] = s[n]
    BY <1>1, ListingRanks
  <2>2. Rank(Matching, s[n]) = n - 1 /\ Rank(Matching, t[m]) = m - 1
    BY ListingRanks
  <2> HIDE DEF N
  <2>3. n = m
    BY <1>1, <2>1, <2>2
  <2> QED
    BY <2>1, <2>3
<1> HIDE DEF N
<1> QED
  BY <1>1, <1>2

-----------------------------------------------------------------------------
(* Pages *)

Least(a, b) == IF a < b THEN a ELSE b

LEMMA PartLength ==
  ASSUME NEW skip \in Nat, NEW limit \in Nat \ {0}, NEW len \in Nat, NEW n,
         n = IF skip + limit < len THEN skip + limit ELSE len
  PROVE  (IF skip + 1 <= n THEN n - (skip + 1) + 1 ELSE 0) = Least(skip + limit, len) - Least(skip, len)
<1>1. CASE skip + limit < len
  BY <1>1 DEF Least
<1>2. CASE ~(skip + limit < len) /\ skip < len
  BY <1>2 DEF Least
<1>3. CASE ~(skip < len)
  BY <1>3 DEF Least
<1> QED
  BY <1>1, <1>2, <1>3

\* A page is the part of the listing after those before it.
LEMMA PageIsPart ==
  ASSUME NEW S, NEW s \in Seq(S), NEW page \in Nat \ {0}
  PROVE  LET skip == Limit * (page - 1)  got == PageOf(s, page, Limit)
         IN  /\ skip \in Nat /\ skip + Limit = Limit * page
             /\ got \in Seq(S) /\ Len(got) = Least(skip + Limit, Len(s)) - Least(skip, Len(s))
             /\ \A i \in 1..Len(got) : got[i] = s[skip + i]
<1> DEFINE skip == Limit * (page - 1)
           m == skip + 1
           n == IF skip + Limit < Len(s) THEN skip + Limit ELSE Len(s)
           got == PageOf(s, page, Limit)
<1>1. skip \in Nat /\ skip + Limit = Limit * page /\ Limit \in Nat \ {0}
  BY ContentAssumption
<1>2. got = SubSeq(s, m, n)
  BY <1>1 DEF PageOf
<1> HIDE DEF skip, got
<1>3. Len(s) \in Nat /\ m \in Int /\ n \in Int
  BY <1>1
<1>4. \A i \in m..n : s[i] \in S
  BY <1>1, <1>3
<1> HIDE DEF m, n
<1>5. /\ SubSeq(s, m, n) \in Seq(S) /\ Len(SubSeq(s, m, n)) = IF m <= n THEN n - m + 1 ELSE 0
      /\ \A i \in 1..(n - m + 1) : SubSeq(s, m, n)[i] = s[m + i - 1]
  BY <1>3, <1>4, SubSeqProperties
<1>6. (IF m <= n THEN n - m + 1 ELSE 0) = Least(skip + Limit, Len(s)) - Least(skip, Len(s))
  BY <1>1, <1>3, PartLength DEF m, n
<1>7. ASSUME NEW i \in 1..Len(got) PROVE got[i] = s[skip + i]
  <2>1. i \in 1..(n - m + 1)
    BY <1>2, <1>3, <1>5
  <2>2. m + i - 1 = skip + i
    BY <1>1, <2>1 DEF m
  <2> QED
    BY <1>2, <1>5, <2>1, <2>2
<1> QED
  BY <1>1, <1>2, <1>5, <1>6, <1>7 DEF skip, got

\* The last page that paginate announces reaches the end.
LEMMA LastPageReaches ==
  ASSUME NEW total \in Nat, NEW page \in Nat \ {0}, ~(page < LastPage(total, Limit))
  PROVE  total <= Limit * page
<1>1. Limit \in Nat \ {0}
  BY ContentAssumption
<1>2. CASE total <= Limit
  BY <1>1, <1>2
<1>3. CASE total > Limit
  <2> DEFINE q == (total + Limit - 1) \div Limit
  <2>1. q \in Int /\ total + Limit - 1 < Limit * q + Limit
    BY <1>1
  <2>2. q <= page
    BY <1>1, <1>3, <2>1 DEF LastPage
  <2> HIDE DEF q
  <2>3. Limit * q <= Limit * page
    BY <1>1, <2>1, <2>2
  <2> QED
    BY <1>1, <2>1, <2>3
<1> QED
  BY <1>1, <1>2, <1>3

-----------------------------------------------------------------------------
(* The visitor's steps *)

Steps == {"home", "asked", "read", "counted", "both", "done"}

\* Nothing but the visit changes...
LEMMA VisitorChangesVisit ==
  ASSUME NEW o, NEW search, NEW only, ask(o, search, only) \/ readPage \/ readCount \/ turnPage \/ leave
  PROVE  item' = item /\ service' = service /\ tracked' = tracked /\ scene' = scene
BY DEF ask, readPage, readCount, turnPage, leave, chosen

\* ... and what it listed stays what it lists.
LEMMA SameListing ==
  ASSUME item' = item, service' = service, tracked' = tracked,
         visit'.order = visit.order, visit'.search = visit.search, visit'.only = visit.only
  PROVE  /\ Matching' = Matching /\ \A i, j : Before(i, j)' = Before(i, j)
         /\ (~Ties)' = ~Ties /\ Listings' = Listings
<1>1. Matching' = Matching
  BY DEF Matching, Where, Live
<1>2. \A i, k : SortKey(i, k)' = SortKey(i, k)
  BY DEF SortKey
<1>3. \A i, j : Before(i, j)' = Before(i, j)
  BY <1>2 DEF Before
<1>4. (~Ties)' = ~Ties
  BY <1>1, <1>3 DEF Ties
<1>5. Listings' = Listings
  BY <1>1, <1>3 DEF Listings
<1> QED
  BY <1>1, <1>3, <1>4, <1>5

\* A page that is read is a part of a listing.
LEMMA ReadGets ==
  ASSUME RowsInv, VisitInv, readPage
  PROVE  \E s \in Listings : LET got == PageOf(s, visit.page, Limit)
                              pc == IF visit.pc = "asked" THEN "read" ELSE "both"
                          IN  /\ s \in Seq(Items) /\ Len(s) = Cardinality(Matching)
                              /\ got \in Seq(Items) /\ pc \in Steps
                              /\ visit' = [visit EXCEPT !.got = got, !.pc = pc]
<1>1. PICK s \in Listings : visit' = [visit EXCEPT !.got = PageOf(s, visit.page, Limit),
                                                 !.pc = IF visit.pc = "asked" THEN "read" ELSE "both"]
  BY DEF readPage
<1>2. s \in [1..Cardinality(Matching) -> Matching] /\ Cardinality(Matching) \in Nat
  BY ListingRanks
<1>3. Matching \subseteq Items
  BY WhereIsRows DEF Matching
<1>4. s \in Seq(Items) /\ Len(s) = Cardinality(Matching)
  BY <1>2, <1>3
<1>5. visit.page \in Nat \ {0}
  BY DEF VisitInv, VisitsOf
<1>6. PageOf(s, visit.page, Limit) \in Seq(Items)
  BY <1>4, <1>5, PageIsPart
<1> QED
  BY <1>1, <1>4, <1>6 DEF Steps

\* what a visitor's step leaves of the record
Keeps(v, w) ==
  /\ w.order = v.order /\ w.search = v.search /\ w.only = v.only
  /\ w.start = v.start /\ w.change = v.change /\ w.torn = v.torn

LEMMA AskStep ==
  ASSUME RowsInv, NEW o \in Orders, NEW search \in {0, 4}, NEW only \in {0, 4}, ask(o, search, only)
  PROVE  /\ visit' \in VisitsOf(AskableOrders)
         /\ visit'.pc = "asked" /\ visit'.search = search /\ visit'.only = only /\ visit'.page = 1
         /\ visit'.seen = <<>> /\ visit'.start = Where(search, only)
         /\ visit'.change = "none" /\ ~visit'.torn
<1> DEFINE none == <<>>
<1>1. visit' = [pc |-> "asked", order |-> o, search |-> search, only |-> only, page |-> 1, got |-> none,
                total |-> 0, seen |-> none, start |-> Where(search, only), change |-> "none", torn |-> FALSE]
  BY DEF ask, AtHome
<1>2. none \in Seq(Items)
  OBVIOUS
<1> DEFINE S == Where(search, only)
<1>3. o \in AskableOrders /\ S \in SUBSET Items
  BY WhereIsRows DEF AskableOrders
<1> HIDE DEF none, S
<1>4. /\ visit' \in VisitsOf(AskableOrders)
      /\ visit'.pc = "asked" /\ visit'.search = search /\ visit'.only = only /\ visit'.page = 1
      /\ visit'.seen = none /\ visit'.start = S
      /\ visit'.change = "none" /\ ~visit'.torn
  BY <1>1, <1>2, <1>3 DEF VisitsOf, S
<1> QED
  BY <1>4 DEF none, S

LEMMA ReadStep ==
  ASSUME RowsInv, VisitInv, readPage
  PROVE  /\ visit' \in VisitsOf(AskableOrders) /\ Keeps(visit, visit')
         /\ visit.pc \in {"asked", "counted"}
         /\ visit'.pc = IF visit.pc = "asked" THEN "read" ELSE "both"
         /\ visit'.page = visit.page /\ visit'.seen = visit.seen /\ visit'.total = visit.total
         /\ \E s \in Listings : /\ s \in Seq(Items) /\ Len(s) = Cardinality(Matching)
                               /\ visit'.got = PageOf(s, visit.page, Limit)
<1>1. PICK s \in Listings :
        LET got == PageOf(s, visit.page, Limit)
            pc == IF visit.pc = "asked" THEN "read" ELSE "both"
        IN  /\ s \in Seq(Items) /\ Len(s) = Cardinality(Matching)
            /\ got \in Seq(Items) /\ pc \in Steps
            /\ visit' = [visit EXCEPT !.got = got, !.pc = pc]
  BY ReadGets
<1> DEFINE got == PageOf(s, visit.page, Limit)
           pc == IF visit.pc = "asked" THEN "read" ELSE "both"
<1>2. got \in Seq(Items) /\ pc \in Steps /\ visit' = [visit EXCEPT !.got = got, !.pc = pc]
  BY <1>1
<1> HIDE DEF got, pc
<1>3. visit \in VisitsOf(AskableOrders)
  BY DEF VisitInv
<1>4. /\ visit' \in VisitsOf(AskableOrders) /\ visit'.pc = pc /\ visit'.got = got /\ Keeps(visit, visit')
      /\ visit'.page = visit.page /\ visit'.seen = visit.seen /\ visit'.total = visit.total
  BY <1>2, <1>3 DEF VisitsOf, Steps, Keeps
<1>5. visit.pc \in {"asked", "counted"}
  BY DEF readPage
<1> QED
  BY <1>1, <1>4, <1>5 DEF got, pc

LEMMA CountStep ==
  ASSUME RowsInv, VisitInv, readCount
  PROVE  /\ visit' \in VisitsOf(AskableOrders) /\ Keeps(visit, visit')
         /\ visit.pc \in {"asked", "read"}
         /\ visit'.pc = IF visit.pc = "asked" THEN "counted" ELSE "both"
         /\ visit'.page = visit.page /\ visit'.seen = visit.seen /\ visit'.got = visit.got
         /\ visit'.total = Cardinality(Matching)
<1> DEFINE total == Cardinality(Matching)
           pc == IF visit.pc = "asked" THEN "counted" ELSE "both"
<1>1. visit' = [visit EXCEPT !.total = total, !.pc = pc] /\ visit.pc \in {"asked", "read"}
  BY DEF readCount
<1>2. total \in Nat /\ pc \in Steps
  BY WhereIsRows DEF Matching, Steps
<1> HIDE DEF total, pc
<1>3. visit \in VisitsOf(AskableOrders)
  BY DEF VisitInv
<1>4. /\ visit' \in VisitsOf(AskableOrders) /\ visit'.pc = pc /\ visit'.total = total /\ Keeps(visit, visit')
      /\ visit'.page = visit.page /\ visit'.seen = visit.seen /\ visit'.got = visit.got
  BY <1>1, <1>2, <1>3 DEF VisitsOf, Steps, Keeps
<1> QED
  BY <1>1, <1>4 DEF total, pc

LEMMA TurnStep ==
  ASSUME RowsInv, VisitInv, turnPage
  PROVE  /\ visit' \in VisitsOf(AskableOrders) /\ Keeps(visit, visit')
         /\ visit.pc = "both" /\ visit'.seen = visit.seen \o visit.got
         /\ hasNext => visit'.pc = "asked" /\ visit'.page = visit.page + 1
         /\ ~hasNext => visit'.pc = "done" /\ visit'.page = visit.page
<1> DEFINE seen == visit.seen \o visit.got
           page == IF hasNext THEN visit.page + 1 ELSE visit.page
           pc == IF hasNext THEN "asked" ELSE "done"
<1>1. visit' = [visit EXCEPT !.seen = seen, !.got = <<>>, !.total = 0, !.page = page, !.pc = pc] /\ visit.pc = "both"
  BY DEF turnPage
<1>2. visit \in VisitsOf(AskableOrders)
  BY DEF VisitInv
<1>3. visit.seen \in Seq(Items) /\ visit.got \in Seq(Items) /\ visit.page \in Nat \ {0}
  BY <1>2 DEF VisitsOf
<1>4. seen \in Seq(Items) /\ page \in Nat \ {0} /\ pc \in Steps
  BY <1>3, ConcatProperties DEF Steps
<1> HIDE DEF seen, page, pc
<1>5. /\ visit' \in VisitsOf(AskableOrders) /\ visit'.pc = pc /\ visit'.seen = seen /\ visit'.page = page
      /\ Keeps(visit, visit')
  <2> DEFINE none == <<>>
             a == [visit EXCEPT !.seen = seen, !.got = none]
             b == [a EXCEPT !.total = 0, !.page = page]
  <2>1. none \in Seq(Items)
    OBVIOUS
  <2>2. visit' = [b EXCEPT !.pc = pc]
    BY <1>1, <1>2 DEF VisitsOf
  <2> HIDE DEF none
  <2>3. a \in VisitsOf(AskableOrders) /\ a.seen = seen /\ Keeps(visit, a)
    BY <1>2, <1>4, <2>1 DEF VisitsOf, Keeps
  <2> HIDE DEF a
  <2>4. b \in VisitsOf(AskableOrders) /\ b.page = page /\ b.seen = a.seen /\ Keeps(a, b)
    BY <1>4, <2>3 DEF VisitsOf, Keeps
  <2> HIDE DEF b
  <2>5. /\ visit' \in VisitsOf(AskableOrders) /\ visit'.pc = pc /\ visit'.page = b.page /\ visit'.seen = b.seen
        /\ Keeps(b, visit')
    BY <1>4, <2>2, <2>4 DEF VisitsOf, Steps, Keeps
  <2> QED
    BY <2>3, <2>4, <2>5 DEF Keeps
<1> QED
  BY <1>1, <1>5 DEF seen, page, pc

LEMMA DisturbStep ==
  ASSUME VisitInv, NEW change \in {"grown", "changed"}, disturb(change), visit.pc # "home"
  PROVE  /\ visit' \in VisitsOf(AskableOrders)
         /\ visit'.order = visit.order /\ visit'.search = visit.search /\ visit'.only = visit.only
         /\ visit'.page = visit.page /\ visit'.pc = visit.pc /\ visit'.got = visit.got /\ visit'.total = visit.total
         /\ visit'.seen = visit.seen /\ visit'.start = visit.start
         /\ visit'.change = IF visit.change = "changed" THEN "changed" ELSE change
         /\ ~visit'.torn => ~visit.torn /\ visit.pc \notin {"read", "counted"}
<1> DEFINE to == IF visit.change = "changed" THEN visit.change ELSE change
           torn == visit.torn \/ visit.pc \in {"read", "counted"}
<1>1. visit \in VisitsOf(AskableOrders)
  BY DEF VisitInv
<1>2. visit' = [visit EXCEPT !.change = to, !.torn = torn]
  BY DEF disturb, AtHome
<1>3. to \in {"grown", "changed"} /\ torn \in BOOLEAN
  OBVIOUS
<1> HIDE DEF to, torn
<1>4. /\ visit' \in VisitsOf(AskableOrders) /\ visit'.change = to /\ visit'.torn = torn
      /\ visit'.order = visit.order /\ visit'.search = visit.search /\ visit'.only = visit.only
      /\ visit'.page = visit.page /\ visit'.pc = visit.pc /\ visit'.got = visit.got /\ visit'.total = visit.total
      /\ visit'.seen = visit.seen /\ visit'.start = visit.start
  BY <1>1, <1>2, <1>3 DEF VisitsOf
<1> QED
  BY <1>4 DEF to, torn

LEMMA DisturbHome ==
  ASSUME VisitInv, NEW change \in {"grown", "changed"}, disturb(change), visit.pc = "home"
  PROVE  visit' \in VisitsOf(AskableOrders) /\ visit'.pc = "home"
<1> DEFINE to == IF visit.change = "changed" THEN visit.change ELSE change
           torn == visit.torn \/ visit.pc \in {"read", "counted"}
<1>1. visit \in VisitsOf(AskableOrders)
  BY DEF VisitInv
<1>2. visit' = visit \/ visit' = [visit EXCEPT !.change = to, !.torn = torn]
  BY DEF disturb
<1>3. to \in {"grown", "changed"} /\ torn \in BOOLEAN
  OBVIOUS
<1> HIDE DEF to, torn
<1> QED
  BY <1>1, <1>2, <1>3 DEF VisitsOf

\* What a step does to the rows and the visit.
LEMMA StepKinds ==
  ASSUME RowsInv, [ContentNext]_contentVars
  PROVE  \/ UNCHANGED <<item, service, tracked, visit>>
         \/ \E o \in Orders, search \in {0, 4}, only \in {0, 4} : ask(o, search, only)
         \/ readPage \/ readCount \/ turnPage \/ leave
         \/ \E i \in Items : createItem(i)
         \/ \E c \in Editors : writeUpdate(c) \/ writeRemove(c)
<1>1. Searches \subseteq {0, 4} /\ Filters \subseteq {0, 4}
  BY DEF Searches, Filters
<1>2. ASSUME NEW c \in Editors, Edit(c), ~writeUpdate(c), ~writeRemove(c)
      PROVE  UNCHANGED <<item, service, tracked, visit>>
  BY <1>2 DEF Edit, updateItem, removeItem, failWrite, chosen
<1>3. CASE UNCHANGED contentVars
  BY <1>3 DEF contentVars, chosen
<1>4. CASE Visiting
  BY <1>1, <1>4 DEF Visiting
<1> QED
  BY <1>2, <1>3, <1>4 DEF ContentNext

LEMMA InitVisit == ContentInit => VisitInv
<1> SUFFICES ASSUME ContentInit PROVE VisitInv
  OBVIOUS
<1> DEFINE none == <<>>
<1>1. none \in Seq(Items) /\ none \in AskableOrders
  BY DEF AskableOrders
<1>2. visit = [pc |-> "home", order |-> none, search |-> 0, only |-> 0, page |-> 1, got |-> none,
               total |-> 0, seen |-> none, start |-> {}, change |-> "none", torn |-> FALSE]
  BY DEF ContentInit, AtHome
<1> HIDE DEF none
<1>3. visit \in VisitsOf(AskableOrders)
  BY <1>1, <1>2 DEF VisitsOf
<1> QED
  BY <1>3 DEF VisitInv

LEMMA VisitStep == RowsInv /\ VisitInv /\ [ContentNext]_contentVars => VisitInv'
<1> SUFFICES ASSUME RowsInv, VisitInv, [ContentNext]_contentVars PROVE VisitInv'
  OBVIOUS
<1>1. service' = service /\ tracked' = tracked
  BY DEF ContentNext, Edit, Visiting, contentVars, chosen, updateItem, removeItem, writeUpdate, writeRemove,
         failWrite, createItem, ask, readPage, readCount, turnPage, leave
<1>2. AskableOrders' = AskableOrders
  BY <1>1 DEF AskableOrders, Orders
<1>3. ASSUME visit' \in VisitsOf(AskableOrders) PROVE VisitInv'
  BY <1>2, <1>3 DEF VisitInv
<1>4. CASE UNCHANGED <<item, service, tracked, visit>>
  BY <1>3, <1>4 DEF VisitInv
<1>5. CASE \E o \in Orders, search \in {0, 4}, only \in {0, 4} : ask(o, search, only)
  BY <1>3, <1>5, AskStep
<1>6. CASE readPage \/ readCount \/ turnPage
  BY <1>3, <1>6, ReadStep, CountStep, TurnStep
<1>7. CASE leave
  <2> DEFINE none == <<>>
  <2>1. none \in Seq(Items) /\ none \in AskableOrders
    BY DEF AskableOrders
  <2>2. visit' = [pc |-> "home", order |-> none, search |-> 0, only |-> 0, page |-> 1, got |-> none,
                  total |-> 0, seen |-> none, start |-> {}, change |-> "none", torn |-> FALSE]
    BY <1>7 DEF leave, AtHome
  <2> HIDE DEF none
  <2>3. visit' \in VisitsOf(AskableOrders)
    BY <2>1, <2>2 DEF VisitsOf
  <2> QED
    BY <1>3, <2>3
<1>8. ASSUME NEW change \in {"grown", "changed"}, disturb(change) PROVE VisitInv'
  BY <1>3, <1>8, DisturbHome, DisturbStep
<1>9. CASE \E i \in Items : createItem(i)
  BY <1>8, <1>9 DEF createItem
<1>10. CASE \E c \in Editors : writeUpdate(c) \/ writeRemove(c)
  BY <1>8, <1>10 DEF writeUpdate, writeRemove
<1> QED
  BY <1>4, <1>5, <1>6, <1>7, <1>9, <1>10, StepKinds

-----------------------------------------------------------------------------
(* A walk during which nothing changes *)

Count == Cardinality(Matching)
Skip == Limit * (visit.page - 1)

\* how much the visitor has seen
QuietCounts ==
  /\ visit.pc \in {"counted", "both"} => visit.total = Count
  /\ Len(visit.seen) = IF visit.pc = "done" THEN Count ELSE Least(Skip, Count)
  /\ visit.pc \in {"read", "both"} => Len(visit.got) = Least(Skip + Limit, Count) - Least(Skip, Count)

\* what is seen is the beginning of the one listing
QuietOrder ==
  /\ visit.pc \in {"read", "both", "done"} => Listings # {}
  /\ ~Ties => \A s \in Listings :
       /\ \A i \in 1..Len(visit.seen) : visit.seen[i] = s[i]
       /\ visit.pc \in {"read", "both"} => \A i \in 1..Len(visit.got) : visit.got[i] = s[Skip + i]

QuietInv == visit.pc # "home" /\ visit.change = "none" => QuietCounts /\ QuietOrder

LEMMA QuietAsk ==
  ASSUME RowsInv, NEW o \in Orders, NEW search \in {0, 4}, NEW only \in {0, 4}, ask(o, search, only)
  PROVE  QuietInv'
<1>1. /\ visit'.pc = "asked" /\ visit'.search = search /\ visit'.only = only /\ visit'.page = 1
      /\ visit'.seen = <<>>
  BY AskStep
<1>2. item' = item /\ service' = service /\ tracked' = tracked
  BY VisitorChangesVisit
<1>3. Matching' = Where(search, only)
  BY <1>1, <1>2 DEF Matching, Where, Live
<1>4. Count' \in Nat
  BY <1>3, WhereIsRows DEF Count
<1>5. Skip' = 0
  BY <1>1, ContentAssumption DEF Skip
<1>6. Len(visit'.seen) = 0
  BY <1>1
<1>7. QuietCounts'
  BY <1>1, <1>4, <1>5, <1>6 DEF QuietCounts, Least
<1>8. QuietOrder'
  BY <1>1, <1>6 DEF QuietOrder
<1> QED
  BY <1>7, <1>8 DEF QuietInv

LEMMA QuietRead ==
  ASSUME RowsInv, VisitInv, QuietInv, readPage
  PROVE  QuietInv'
<1> SUFFICES ASSUME visit'.change = "none" PROVE QuietCounts' /\ QuietOrder'
  BY DEF QuietInv
<1>1. /\ Keeps(visit, visit') /\ visit.pc \in {"asked", "counted"}
      /\ visit'.pc = IF visit.pc = "asked" THEN "read" ELSE "both"
      /\ visit'.page = visit.page /\ visit'.seen = visit.seen /\ visit'.total = visit.total
  BY ReadStep
<1>2. PICK t \in Listings : t \in Seq(Items) /\ Len(t) = Count /\ visit'.got = PageOf(t, visit.page, Limit)
  BY ReadStep DEF Count
<1>3. QuietCounts /\ QuietOrder
  BY <1>1 DEF QuietInv, Keeps
<1>4. Matching' = Matching /\ (~Ties)' = ~Ties /\ Listings' = Listings
  BY <1>1, VisitorChangesVisit, SameListing DEF Keeps
<1>5. Count' = Count /\ Skip' = Skip
  BY <1>1, <1>4 DEF Count, Skip
<1>6. visit.page \in Nat \ {0}
  BY DEF VisitInv, VisitsOf
<1>7. /\ Len(visit'.got) = Least(Skip + Limit, Count) - Least(Skip, Count)
      /\ \A i \in 1..Len(visit'.got) : visit'.got[i] = t[Skip + i]
  <2> DEFINE got == PageOf(t, visit.page, Limit)
  <2>1. /\ Len(got) = Least(Limit * (visit.page - 1) + Limit, Len(t)) - Least(Limit * (visit.page - 1), Len(t))
        /\ \A i \in 1..Len(got) : got[i] = t[Limit * (visit.page - 1) + i]
    BY <1>2, <1>6, PageIsPart
  <2>2. visit'.got = got /\ Len(t) = Count
    BY <1>2
  <2> HIDE DEF got
  <2> QED
    BY <2>1, <2>2 DEF Skip
<1>8. QuietCounts'
  BY <1>1, <1>3, <1>5, <1>7 DEF QuietCounts
<1>9. ~Ties => \A s \in Listings : s = t
  BY OneListing
<1>10. QuietOrder'
  BY <1>1, <1>2, <1>3, <1>4, <1>5, <1>7, <1>9 DEF QuietOrder
<1> QED
  BY <1>8, <1>10

LEMMA QuietCount ==
  ASSUME RowsInv, VisitInv, QuietInv, readCount
  PROVE  QuietInv'
<1> SUFFICES ASSUME visit'.change = "none" PROVE QuietCounts' /\ QuietOrder'
  BY DEF QuietInv
<1>1. /\ Keeps(visit, visit') /\ visit.pc \in {"asked", "read"}
      /\ visit'.pc = IF visit.pc = "asked" THEN "counted" ELSE "both"
      /\ visit'.page = visit.page /\ visit'.seen = visit.seen /\ visit'.got = visit.got
      /\ visit'.total = Count
  BY CountStep DEF Count
<1>2. QuietCounts /\ QuietOrder
  BY <1>1 DEF QuietInv, Keeps
<1>3. Matching' = Matching /\ (~Ties)' = ~Ties /\ Listings' = Listings
  BY <1>1, VisitorChangesVisit, SameListing DEF Keeps
<1>4. Count' = Count /\ Skip' = Skip
  BY <1>1, <1>3 DEF Count, Skip
<1> QED
  BY <1>1, <1>2, <1>3, <1>4 DEF QuietCounts, QuietOrder

LEMMA QuietTurn ==
  ASSUME RowsInv, VisitInv, QuietInv, turnPage
  PROVE  QuietInv'
<1> SUFFICES ASSUME visit'.change = "none" PROVE QuietCounts' /\ QuietOrder'
  BY DEF QuietInv
<1>1. /\ Keeps(visit, visit') /\ visit.pc = "both" /\ visit'.seen = visit.seen \o visit.got
      /\ hasNext => visit'.pc = "asked" /\ visit'.page = visit.page + 1
      /\ ~hasNext => visit'.pc = "done" /\ visit'.page = visit.page
  BY TurnStep
<1>2. QuietCounts /\ QuietOrder
  BY <1>1 DEF QuietInv, Keeps
<1>3. Matching' = Matching /\ (~Ties)' = ~Ties /\ Listings' = Listings
  BY <1>1, VisitorChangesVisit, SameListing DEF Keeps
<1>4. Count' = Count /\ Count \in Nat
  BY <1>3, WhereIsRows DEF Count, Matching
<1>5. visit.page \in Nat \ {0} /\ visit.seen \in Seq(Items) /\ visit.got \in Seq(Items)
  BY DEF VisitInv, VisitsOf
<1>6. /\ Skip \in Nat /\ Skip + Limit = Limit * visit.page /\ Limit \in Nat \ {0}
      /\ hasNext => Skip' = Skip + Limit
  BY <1>1, <1>5, ContentAssumption DEF Skip
<1>7. /\ Len(visit.seen) = Least(Skip, Count)
      /\ Len(visit.got) = Least(Skip + Limit, Count) - Least(Skip, Count)
      /\ visit.total = Count
  BY <1>1, <1>2 DEF QuietCounts
<1>8. /\ Len(visit'.seen) = Least(Skip + Limit, Count)
      /\ \A i \in 1..Len(visit'.seen) :
           visit'.seen[i] = IF i <= Len(visit.seen) THEN visit.seen[i] ELSE visit.got[i - Len(visit.seen)]
  <2>1. /\ Len(visit'.seen) = Len(visit.seen) + Len(visit.got)
        /\ \A i \in 1..Len(visit.seen) + Len(visit.got) :
             visit'.seen[i] = IF i <= Len(visit.seen) THEN visit.seen[i] ELSE visit.got[i - Len(visit.seen)]
    <3> DEFINE both == visit.seen \o visit.got
    <3>1. /\ Len(both) = Len(visit.seen) + Len(visit.got)
          /\ \A i \in 1..Len(visit.seen) + Len(visit.got) :
               both[i] = IF i <= Len(visit.seen) THEN visit.seen[i] ELSE visit.got[i - Len(visit.seen)]
      BY <1>5, ConcatProperties
    <3>2. visit'.seen = both
      BY <1>1
    <3> HIDE DEF both
    <3> QED
      BY <3>1, <3>2
  <2>2. Least(Skip, Count) \in Nat /\ Least(Skip + Limit, Count) \in Nat
    BY <1>4, <1>6 DEF Least
  <2> QED
    BY <1>7, <2>1, <2>2
<1>9. ~hasNext => Least(Skip + Limit, Count) = Count
  <2>1. ~hasNext => Count <= Limit * visit.page
    BY <1>4, <1>5, <1>7, LastPageReaches DEF hasNext
  <2> QED
    BY <1>4, <1>6, <2>1 DEF Least
<1>10. QuietCounts'
  BY <1>1, <1>4, <1>6, <1>8, <1>9 DEF QuietCounts
<1>11. ASSUME ~Ties, NEW s \in Listings, NEW i \in 1..Len(visit'.seen) PROVE visit'.seen[i] = s[i]
  <2>1. CASE i <= Len(visit.seen)
    BY <1>2, <1>5, <1>8, <1>11, <2>1 DEF QuietOrder
  <2>2. CASE i > Len(visit.seen)
    <3>1. Len(visit.seen) = Skip /\ i - Skip \in 1..Len(visit.got)
      BY <1>4, <1>6, <1>7, <1>8, <2>2 DEF Least
    <3>2. visit'.seen[i] = visit.got[i - Skip]
      BY <1>6, <1>8, <2>2, <3>1
    <3>3. visit.got[i - Skip] = s[Skip + (i - Skip)]
      BY <1>1, <1>2, <1>11, <3>1 DEF QuietOrder
    <3>4. Skip + (i - Skip) = i
      BY <1>6
    <3> QED
      BY <3>2, <3>3, <3>4
  <2> QED
    BY <1>5, <2>1, <2>2
<1>12. QuietOrder'
  BY <1>1, <1>2, <1>3, <1>11 DEF QuietOrder
<1> QED
  BY <1>10, <1>12

LEMMA QuietStep == RowsInv /\ VisitInv /\ QuietInv /\ [ContentNext]_contentVars => QuietInv'
<1> SUFFICES ASSUME RowsInv, VisitInv, QuietInv, [ContentNext]_contentVars PROVE QuietInv'
  OBVIOUS
<1>1. CASE UNCHANGED <<item, service, tracked, visit>>
  <2>1. Matching' = Matching /\ (~Ties)' = ~Ties /\ Listings' = Listings
    BY <1>1, SameListing
  <2>2. Count' = Count /\ Skip' = Skip
    BY <1>1, <2>1 DEF Count, Skip
  <2> QED
    BY <1>1, <2>1, <2>2 DEF QuietInv, QuietCounts, QuietOrder
<1>2. CASE leave
  BY <1>2 DEF leave, AtHome, QuietInv
<1>3. ASSUME NEW change \in {"grown", "changed"}, disturb(change) PROVE QuietInv'
  BY <1>3, DisturbHome, DisturbStep DEF QuietInv
<1>4. CASE \E i \in Items : createItem(i)
  BY <1>3, <1>4 DEF createItem
<1>5. CASE \E c \in Editors : writeUpdate(c) \/ writeRemove(c)
  BY <1>3, <1>5 DEF writeUpdate, writeRemove
<1> QED
  BY <1>1, <1>2, <1>4, <1>5, QuietAsk, QuietRead, QuietCount, QuietTurn, StepKinds

WalkInv == RowsInv /\ VisitInv /\ QuietInv

THEOREM WalkInvariant == ContentSpec => []WalkInv
<1>1. ContentInit => WalkInv
  BY InitRows, InitVisit DEF WalkInv, QuietInv, ContentInit, AtHome
<1>2. WalkInv /\ [ContentNext]_contentVars => WalkInv'
  BY RowsStep, VisitStep, QuietStep DEF WalkInv
<1> QED
  BY <1>1, <1>2, PTL DEF ContentSpec

\* The types of the rows, the requests and the walk, and that a column that is not
\* nullable holds a value, for every service of the table and any two columns.
THEOREM ContentTypesHold == ContentSpec => []ContentTypeOK
<1>1. WalkInv => ContentTypeOK
  <2> SUFFICES ASSUME RowsInv, VisitInv PROVE ContentTypeOK
    BY DEF WalkInv
  <2>1. service \in DOMAIN Services /\ tracked \subseteq DOMAIN Services[service].data
    BY DEF RowsInv, ChosenOK
  <2>2. ASSUME NEW i \in Items, item[i] # NoItem
        PROVE  /\ item[i] \in [state : {"live", "deleted"}, value : [tracked -> Values \ {Undefined}]]
               /\ \A k \in tracked : Model(k) # "nullable" => item[i].value[k] # Null
    BY <2>2 DEF RowsInv, TablesOK, RowsOf, Model
  <2>3. ASSUME NEW c \in Editors
        PROVE  \/ edit[c] = NoEdit
               \/ edit[c] \in [op : {"update"}, id : Items, input : [tracked -> Values]]
               \/ edit[c] \in [op : {"remove"}, id : Items, input : {<<>>}]
    <3>1. edit[c] \in RequestsOf(tracked)
      BY DEF RowsInv, RequestsOK
    <3>2. Offered \subseteq Values
      BY DEF Offered, Values, Undefined, Null
    <3>3. Says(tracked) \subseteq [tracked -> Values]
      BY <3>2 DEF Says
    <3> QED
      BY <3>1, <3>3 DEF RequestsOf
  <2>4. visit.got \in Seq(Items) /\ visit.seen \in Seq(Items) /\ visit.start \subseteq Items
    BY DEF VisitInv, VisitsOf
  <2> QED
    BY <2>1, <2>2, <2>3, <2>4 DEF ContentTypeOK
<1> QED
  BY <1>1, WalkInvariant, PTL

\* A walk during which nothing changes shows as many rows as there are, and the rows of
\* the one listing in their order when there is only one, however many rows there are
\* and whatever the page size: skip, take and lastPage cut the listing into its parts.
THEOREM QuietWalksShowAll == ContentSpec => []QuietWalkShowsAll
<1>1. WalkInv => QuietWalkShowsAll
  <2> SUFFICES ASSUME RowsInv, VisitInv, QuietInv, visit.pc = "done", visit.change = "none"
               PROVE  /\ Len(visit.seen) = Cardinality(Matching)
                      /\ ~Ties => visit.seen \in Listings
    BY DEF WalkInv, QuietWalkShowsAll
  <2>1. QuietCounts /\ QuietOrder
    BY DEF QuietInv
  <2>2. Len(visit.seen) = Count
    BY <2>1 DEF QuietCounts
  <2>3. ASSUME ~Ties PROVE visit.seen \in Listings
    <3>1. PICK s \in Listings : TRUE
      BY <2>1 DEF QuietOrder
    <3>2. s \in [1..Count -> Matching] /\ Count \in Nat
      BY ListingRanks DEF Count
    <3>3. \A i \in 1..Len(visit.seen) : visit.seen[i] = s[i]
      BY <2>1, <2>3 DEF QuietOrder
    <3>4. visit.seen \in Seq(Items)
      BY DEF VisitInv, VisitsOf
    <3>5. visit.seen = s
      BY <2>2, <3>2, <3>3, <3>4
    <3> QED
      BY <3>5
  <2> QED
    BY <2>2, <2>3 DEF Count
<1> QED
  BY <1>1, WalkInvariant, PTL

-----------------------------------------------------------------------------
(* A walk during which rows are added *)

Shown(x, s) == \E n \in 1..Len(s) : s[n] = x

\* no write but additions, none of them between a page and its count
Undisturbed == visit.pc # "home" /\ visit.change # "changed" /\ ~visit.torn /\ ~Ties

\* what has been shown of the rows the walk began with
GrowthStart == visit.start \subseteq Matching

GrowthSeen ==
  /\ visit.pc \in {"asked", "counted"} => \A x \in visit.start : Rank(Matching, x) < Skip => Shown(x, visit.seen)
  /\ visit.pc = "done" => \A x \in visit.start : Shown(x, visit.seen)

GrowthGot ==
  visit.pc \in {"read", "both"} =>
    \A x \in visit.start : Rank(Matching, x) < Skip + Limit => Shown(x, visit.seen) \/ Shown(x, visit.got)

GrowthCount ==
  /\ visit.pc = "counted" => visit.total = Count
  /\ visit.pc = "both" /\ visit.total <= Skip + Limit =>
       \A x \in visit.start : Shown(x, visit.seen) \/ Shown(x, visit.got)

GrowthInv == Undisturbed => GrowthStart /\ GrowthSeen /\ GrowthGot /\ GrowthCount

LEMMA ShownAfter ==
  ASSUME NEW S, NEW s \in Seq(S), NEW t \in Seq(S), NEW x, Shown(x, s) \/ Shown(x, t)
  PROVE  Shown(x, s \o t)
<1>1. /\ Len(s \o t) = Len(s) + Len(t)
      /\ \A i \in 1..Len(s) + Len(t) : (s \o t)[i] = IF i <= Len(s) THEN s[i] ELSE t[i - Len(s)]
  BY ConcatProperties
<1>2. Len(s) \in Nat /\ Len(t) \in Nat
  OBVIOUS
<1>3. CASE Shown(x, s)
  <2>1. PICK n \in 1..Len(s) : s[n] = x
    BY <1>3 DEF Shown
  <2>2. n \in 1..Len(s) + Len(t) /\ n <= Len(s)
    BY <1>2
  <2> QED
    BY <1>1, <2>1, <2>2 DEF Shown
<1>4. CASE Shown(x, t)
  <2>1. PICK n \in 1..Len(t) : t[n] = x
    BY <1>4 DEF Shown
  <2>2. Len(s) + n \in 1..Len(s) + Len(t) /\ ~(Len(s) + n <= Len(s)) /\ Len(s) + n - Len(s) = n
    BY <1>2
  <2>3. (s \o t)[Len(s) + n] = x
    BY <1>1, <2>1, <2>2
  <2> QED
    BY <1>1, <2>2, <2>3 DEF Shown
<1> QED
  BY <1>3, <1>4

LEMMA RankIsNumber ==
  ASSUME RowsInv, NEW x \in Matching
  PROVE  Rank(Matching, x) \in Nat /\ Rank(Matching, x) < Count /\ Count \in Nat
<1>1. IsFiniteSet(Matching) /\ Matching \subseteq Items /\ \A i \in Matching : item[i] \in RowsOf(tracked, service)
  BY WhereIsRows DEF Matching
<1> DEFINE below == {j \in Matching : Before(j, x)}
<1>2. below \subseteq Matching \ {x}
  BY <1>1, NotBeforeItself
<1>3. IsFiniteSet(Matching \ {x}) /\ Cardinality(Matching \ {x}) = Cardinality(Matching) - 1
  BY <1>1, FS_RemoveElement
<1> HIDE DEF below
<1>4. IsFiniteSet(below) /\ Cardinality(below) <= Cardinality(Matching \ {x})
  BY <1>2, <1>3, FS_Subset
<1>5. Cardinality(below) \in Nat /\ Cardinality(Matching) \in Nat
  BY <1>1, <1>4, FS_CardinalityType
<1> QED
  BY <1>3, <1>4, <1>5 DEF Rank, Count, below

\* Adding a row moves no row of the listing forward.
LEMMA GrownListing ==
  ASSUME RowsInv, VisitInv, NEW new \in Items, createItem(new), visit.pc # "home", (~Ties)'
  PROVE  /\ Matching \subseteq Matching' /\ ~Ties
         /\ \A x \in Matching : Rank(Matching, x)' \in Nat /\ Rank(Matching, x) <= Rank(Matching, x)'
<1>1. /\ service' = service /\ tracked' = tracked
      /\ visit'.order = visit.order /\ visit'.search = visit.search /\ visit'.only = visit.only
  BY DisturbStep DEF createItem, chosen
<1>2. new \notin Matching /\ Matching \subseteq Items
  BY DEF createItem, Matching, Where, Live, NoItem
<1>3. \A i \in Items : i # new => item'[i] = item[i]
  BY DEF createItem, RowsInv, TablesOK
<1>4. \A i \in Matching : item'[i] = item[i]
  BY <1>2, <1>3
<1>5. Matching \subseteq Matching'
  BY <1>1, <1>2, <1>4 DEF Matching, Where, Live
<1>6. ASSUME NEW i \in Matching, NEW k PROVE SortKey(i, k)' = SortKey(i, k)
  BY <1>1, <1>4, <1>6 DEF SortKey
<1>7. ASSUME NEW i \in Matching, NEW j \in Matching PROVE Before(i, j)' = Before(i, j)
  BY <1>1, <1>6, <1>7 DEF Before
<1>8. ~Ties
  BY <1>5, <1>7 DEF Ties
<1>9. ASSUME NEW x \in Matching PROVE Rank(Matching, x)' \in Nat /\ Rank(Matching, x) <= Rank(Matching, x)'
  <2> DEFINE before == {j \in Matching : Before(j, x)}
             after == {j \in Matching' : Before(j, x)'}
  <2>1. before \subseteq after
    BY <1>5, <1>7
  <2>2. IsFiniteSet(after)
    <3>1. IsFiniteSet(Items)
      BY ContentAssumption, FS_Interval DEF Items
    <3>2. after \subseteq Items
      BY DEF Matching, Where
    <3> QED
      BY <3>1, <3>2, FS_Subset
  <2> HIDE DEF before
  <2>3. Cardinality(before) <= Cardinality(after) /\ Cardinality(after) \in Nat
    <3> HIDE DEF after
    <3> QED
      BY <2>1, <2>2, FS_Subset, FS_CardinalityType
  <2> QED
    BY <2>3 DEF before, Rank
<1> QED
  BY <1>5, <1>8, <1>9

LEMMA GrowthAsk ==
  ASSUME RowsInv, NEW o \in Orders, NEW search \in {0, 4}, NEW only \in {0, 4}, ask(o, search, only)
  PROVE  GrowthInv'
<1>1. /\ visit'.pc = "asked" /\ visit'.search = search /\ visit'.only = only /\ visit'.page = 1
      /\ visit'.seen = <<>> /\ visit'.start = Where(search, only)
  BY AskStep
<1>2. item' = item /\ service' = service /\ tracked' = tracked
  BY VisitorChangesVisit
<1>3. Matching' = Where(search, only)
  BY <1>1, <1>2 DEF Matching, Where, Live
<1>4. Skip' = 0
  BY <1>1, ContentAssumption DEF Skip
<1>5. ASSUME NEW x PROVE Rank(Matching, x)' \in Nat
  <2> DEFINE below == {j \in Matching' : Before(j, x)'}
  <2>1. IsFiniteSet(Matching') /\ below \subseteq Matching'
    BY <1>3, WhereIsRows
  <2> HIDE DEF below
  <2>2. Cardinality(below) \in Nat
    BY <2>1, FS_Subset, FS_CardinalityType
  <2> QED
    BY <2>2 DEF Rank, below
<1>6. GrowthStart' /\ GrowthGot' /\ GrowthCount'
  BY <1>1, <1>3 DEF GrowthStart, GrowthGot, GrowthCount
<1>7. GrowthSeen'
  <2>1. \A x : ~(Rank(Matching, x)' < Skip')
    BY <1>4, <1>5
  <2> QED
    BY <1>1, <2>1 DEF GrowthSeen
<1> QED
  BY <1>6, <1>7 DEF GrowthInv

\* A visitor's step after the first changes no rank.
LEMMA SameRanks ==
  ASSUME Keeps(visit, visit'), readPage \/ readCount \/ turnPage, visit.pc # "home", Undisturbed'
  PROVE  /\ Undisturbed /\ Matching' = Matching /\ Count' = Count /\ Listings' = Listings
         /\ visit'.start = visit.start
         /\ \A x : Rank(Matching, x)' = Rank(Matching, x)
<1>1. /\ Matching' = Matching /\ \A i, j : Before(i, j)' = Before(i, j)
      /\ (~Ties)' = ~Ties /\ Listings' = Listings
  BY VisitorChangesVisit, SameListing DEF Keeps
<1> QED
  BY <1>1 DEF Keeps, Undisturbed, Rank, Count

LEMMA GrowthRead ==
  ASSUME RowsInv, VisitInv, GrowthInv, readPage
  PROVE  GrowthInv'
<1> SUFFICES ASSUME Undisturbed' PROVE GrowthStart' /\ GrowthSeen' /\ GrowthGot' /\ GrowthCount'
  BY DEF GrowthInv
<1>1. /\ Keeps(visit, visit') /\ visit.pc \in {"asked", "counted"}
      /\ visit'.pc = IF visit.pc = "asked" THEN "read" ELSE "both"
      /\ visit'.page = visit.page /\ visit'.seen = visit.seen /\ visit'.total = visit.total
  BY ReadStep
<1>2. PICK t \in Listings : t \in Seq(Items) /\ Len(t) = Count /\ visit'.got = PageOf(t, visit.page, Limit)
  BY ReadStep DEF Count
<1>3. /\ Undisturbed /\ Matching' = Matching /\ Count' = Count /\ visit'.start = visit.start
      /\ \A x : Rank(Matching, x)' = Rank(Matching, x)
  BY <1>1, SameRanks
<1>4. GrowthStart /\ GrowthSeen /\ GrowthCount
  BY <1>3 DEF GrowthInv
<1>5. visit.page \in Nat \ {0} /\ Skip' = Skip
  BY <1>1 DEF VisitInv, VisitsOf, Skip
<1> DEFINE got == visit'.got
<1>6. /\ Skip \in Nat /\ Skip + Limit \in Nat
      /\ Len(got) = Least(Skip + Limit, Count) - Least(Skip, Count)
      /\ \A i \in 1..Len(got) : got[i] = t[Skip + i]
  <2> DEFINE page == PageOf(t, visit.page, Limit)
  <2>1. /\ Limit * (visit.page - 1) \in Nat /\ Limit \in Nat
        /\ Len(page) = Least(Limit * (visit.page - 1) + Limit, Len(t)) - Least(Limit * (visit.page - 1), Len(t))
        /\ \A i \in 1..Len(page) : page[i] = t[Limit * (visit.page - 1) + i]
    BY <1>2, <1>5, PageIsPart, ContentAssumption
  <2>2. got = page /\ Len(t) = Count
    BY <1>2
  <2> HIDE DEF got, page
  <2> QED
    BY <2>1, <2>2 DEF Skip
<1> HIDE DEF got
<1>7. ASSUME NEW x \in visit.start, Rank(Matching, x) < Skip + Limit PROVE Shown(x, visit.seen) \/ Shown(x, got)
  <2> DEFINE r == Rank(Matching, x)
  <2>1. x \in Matching /\ r \in Nat /\ r < Count /\ Count \in Nat
    BY <1>4, RankIsNumber DEF GrowthStart
  <2>2. PICK n \in 1..Count : t[n] = x
    BY <2>1, ListingRanks DEF Count
  <2>3. r = n - 1
    BY <1>3, <2>2, ListingRanks DEF Undisturbed, Count
  <2> HIDE DEF r
  <2>4. CASE r < Skip
    BY <1>1, <1>4, <2>4 DEF GrowthSeen, r
  <2>5. CASE ~(r < Skip)
    <3>1. r < Skip + Limit
      BY <1>7 DEF r
    <3>2. n - Skip \in 1..Len(got) /\ Skip + (n - Skip) = n
      BY <1>6, <2>1, <2>3, <2>5, <3>1, ContentAssumption DEF Least
    <3>3. got[n - Skip] = x
      BY <1>6, <2>2, <3>2
    <3> QED
      BY <3>2, <3>3 DEF Shown
  <2> QED
    BY <2>4, <2>5
<1>8. visit.pc = "counted" /\ visit.total <= Skip + Limit => \A x \in visit.start : Rank(Matching, x) < Skip + Limit
  <2> SUFFICES ASSUME visit.pc = "counted", visit.total <= Skip + Limit, NEW x \in visit.start
               PROVE  Rank(Matching, x) < Skip + Limit
    OBVIOUS
  <2>1. x \in Matching /\ visit.total = Count
    BY <1>4 DEF GrowthStart, GrowthCount
  <2> QED
    BY <1>6, <2>1, RankIsNumber
<1>9. GrowthStart' /\ GrowthSeen'
  BY <1>1, <1>3, <1>4 DEF GrowthStart, GrowthSeen
<1>10. GrowthGot'
  BY <1>1, <1>3, <1>5, <1>7 DEF GrowthGot, got
<1>11. GrowthCount'
  BY <1>1, <1>3, <1>5, <1>7, <1>8 DEF GrowthCount, got
<1> QED
  BY <1>9, <1>10, <1>11

LEMMA GrowthReadCount ==
  ASSUME RowsInv, VisitInv, GrowthInv, readCount
  PROVE  GrowthInv'
<1> SUFFICES ASSUME Undisturbed' PROVE GrowthStart' /\ GrowthSeen' /\ GrowthGot' /\ GrowthCount'
  BY DEF GrowthInv
<1>1. /\ Keeps(visit, visit') /\ visit.pc \in {"asked", "read"}
      /\ visit'.pc = IF visit.pc = "asked" THEN "counted" ELSE "both"
      /\ visit'.page = visit.page /\ visit'.seen = visit.seen /\ visit'.got = visit.got
      /\ visit'.total = Count
  BY CountStep DEF Count
<1>2. /\ Undisturbed /\ Matching' = Matching /\ Count' = Count /\ visit'.start = visit.start
      /\ \A x : Rank(Matching, x)' = Rank(Matching, x)
  BY <1>1, SameRanks
<1>3. GrowthStart /\ GrowthSeen /\ GrowthGot
  BY <1>2 DEF GrowthInv
<1>4. Skip' = Skip /\ Skip \in Int /\ Skip + Limit \in Int
  BY <1>1, ContentAssumption DEF VisitInv, VisitsOf, Skip
<1>5. \A x \in visit.start : Rank(Matching, x) < Count /\ Rank(Matching, x) \in Nat /\ Count \in Nat
  BY <1>3, RankIsNumber DEF GrowthStart
<1>6. GrowthStart' /\ GrowthSeen' /\ GrowthGot'
  BY <1>1, <1>2, <1>3, <1>4 DEF GrowthStart, GrowthSeen, GrowthGot
<1>7. ASSUME visit'.pc = "both", Count <= Skip + Limit, NEW x \in visit.start
      PROVE  Shown(x, visit.seen) \/ Shown(x, visit.got)
  <2>1. Rank(Matching, x) < Skip + Limit
    BY <1>4, <1>5, <1>7
  <2> QED
    BY <1>1, <1>3, <1>7, <2>1 DEF GrowthGot
<1>8. GrowthCount'
  BY <1>1, <1>2, <1>4, <1>7 DEF GrowthCount
<1> QED
  BY <1>6, <1>8

LEMMA GrowthTurn ==
  ASSUME RowsInv, VisitInv, GrowthInv, turnPage
  PROVE  GrowthInv'
<1> SUFFICES ASSUME Undisturbed' PROVE GrowthStart' /\ GrowthSeen' /\ GrowthGot' /\ GrowthCount'
  BY DEF GrowthInv
<1>1. /\ Keeps(visit, visit') /\ visit.pc = "both" /\ visit'.seen = visit.seen \o visit.got
      /\ hasNext => visit'.pc = "asked" /\ visit'.page = visit.page + 1
      /\ ~hasNext => visit'.pc = "done" /\ visit'.page = visit.page
  BY TurnStep
<1>2. /\ Undisturbed /\ Matching' = Matching /\ visit'.start = visit.start
      /\ \A x : Rank(Matching, x)' = Rank(Matching, x)
  BY <1>1, SameRanks
<1>3. GrowthStart /\ GrowthGot /\ GrowthCount
  BY <1>2 DEF GrowthInv
<1>4. visit.page \in Nat \ {0} /\ visit.total \in Nat /\ visit.seen \in Seq(Items) /\ visit.got \in Seq(Items)
  BY DEF VisitInv, VisitsOf
<1>5. Skip + Limit = Limit * visit.page /\ (hasNext => Skip' = Skip + Limit)
  BY <1>1, <1>4, ContentAssumption DEF Skip
<1>6. ~hasNext => visit.total <= Skip + Limit
  BY <1>4, <1>5, LastPageReaches DEF hasNext
<1>7. ASSUME NEW x, Shown(x, visit.seen) \/ Shown(x, visit.got) PROVE Shown(x, visit'.seen)
  BY <1>1, <1>4, <1>7, ShownAfter
<1>8. GrowthStart' /\ GrowthGot' /\ GrowthCount'
  BY <1>1, <1>2, <1>3 DEF GrowthStart, GrowthGot, GrowthCount
<1>9. CASE hasNext
  <2>1. \A x \in visit.start : Rank(Matching, x) < Skip' => Shown(x, visit'.seen)
    BY <1>1, <1>3, <1>5, <1>7, <1>9 DEF GrowthGot
  <2> QED
    BY <1>1, <1>2, <1>8, <1>9, <2>1 DEF GrowthSeen
<1>10. CASE ~hasNext
  <2>1. \A x \in visit.start : Shown(x, visit'.seen)
    BY <1>1, <1>3, <1>6, <1>7, <1>10 DEF GrowthCount
  <2> QED
    BY <1>1, <1>2, <1>8, <1>10, <2>1 DEF GrowthSeen
<1> QED
  BY <1>9, <1>10

LEMMA GrowthCreate ==
  ASSUME RowsInv, VisitInv, GrowthInv, NEW new \in Items, createItem(new), visit.pc # "home"
  PROVE  GrowthInv'
<1> SUFFICES ASSUME Undisturbed' PROVE GrowthStart' /\ GrowthSeen' /\ GrowthGot' /\ GrowthCount'
  BY DEF GrowthInv
<1>1. /\ visit'.page = visit.page /\ visit'.pc = visit.pc /\ visit'.got = visit.got /\ visit'.total = visit.total
      /\ visit'.seen = visit.seen /\ visit'.start = visit.start
      /\ visit.change = "changed" => visit'.change = "changed"
      /\ ~visit'.torn => ~visit.torn /\ visit.pc \notin {"read", "counted"}
  BY DisturbStep DEF createItem
<1>2. /\ Matching \subseteq Matching' /\ ~Ties
      /\ \A x \in Matching : Rank(Matching, x)' \in Nat /\ Rank(Matching, x) <= Rank(Matching, x)'
  BY GrownListing DEF Undisturbed
<1>3. Undisturbed /\ visit.pc \notin {"read", "counted"}
  BY <1>1, <1>2 DEF Undisturbed
<1>4. GrowthStart /\ GrowthSeen /\ GrowthGot /\ GrowthCount
  BY <1>3 DEF GrowthInv
<1>5. Skip' = Skip /\ Skip \in Int /\ Skip + Limit \in Int
  BY <1>1, ContentAssumption DEF VisitInv, VisitsOf, Skip
<1>6. GrowthStart'
  BY <1>1, <1>2, <1>4 DEF GrowthStart
<1>7. ASSUME NEW x \in visit.start, NEW n \in Int, Rank(Matching, x)' < n PROVE Rank(Matching, x) < n
  BY <1>2, <1>4, <1>7, RankIsNumber DEF GrowthStart
<1>8. GrowthSeen'
  BY <1>1, <1>4, <1>5, <1>7 DEF GrowthSeen
<1>9. GrowthGot'
  BY <1>1, <1>4, <1>5, <1>7 DEF GrowthGot
<1>10. GrowthCount'
  BY <1>1, <1>3, <1>4, <1>5 DEF GrowthCount
<1> QED
  BY <1>6, <1>8, <1>9, <1>10

LEMMA GrowthStep == RowsInv /\ VisitInv /\ GrowthInv /\ [ContentNext]_contentVars => GrowthInv'
<1> SUFFICES ASSUME RowsInv, VisitInv, GrowthInv, [ContentNext]_contentVars PROVE GrowthInv'
  OBVIOUS
<1>1. CASE UNCHANGED <<item, service, tracked, visit>>
  <2>1. /\ Matching' = Matching /\ \A i, j : Before(i, j)' = Before(i, j)
        /\ (~Ties)' = ~Ties
    BY <1>1, SameListing
  <2>2. \A x : Rank(Matching, x)' = Rank(Matching, x)
    BY <2>1 DEF Rank
  <2>3. Count' = Count /\ Skip' = Skip
    BY <1>1, <2>1 DEF Count, Skip
  <2> QED
    BY <1>1, <2>1, <2>2, <2>3 DEF GrowthInv, Undisturbed, GrowthStart, GrowthSeen, GrowthGot, GrowthCount
<1>2. CASE leave
  BY <1>2 DEF leave, AtHome, GrowthInv, Undisturbed
<1>3. ASSUME NEW change \in {"grown", "changed"}, disturb(change), visit.pc = "home" PROVE GrowthInv'
  BY <1>3, DisturbHome DEF GrowthInv, Undisturbed
<1>4. CASE \E i \in Items : createItem(i)
  BY <1>3, <1>4, GrowthCreate DEF createItem
<1>5. CASE \E c \in Editors : writeUpdate(c) \/ writeRemove(c)
  <2>1. disturb("changed")
    BY <1>5 DEF writeUpdate, writeRemove
  <2>2. visit.pc # "home" => visit'.change = "changed"
    BY <2>1, DisturbStep
  <2> QED
    BY <1>3, <2>1, <2>2 DEF GrowthInv, Undisturbed
<1> QED
  BY <1>1, <1>2, <1>4, <1>5, GrowthAsk, GrowthRead, GrowthReadCount, GrowthTurn, StepKinds

\* While rows are only added, a walk shows every row that was there when it began,
\* unless one was added between the page and the count of one query: additions move no
\* row forward in the listing, so none slips behind the visitor.
THEOREM AdditionsNeverHide == ContentSpec => []AdditionsHideNothing
<1> DEFINE Inv == WalkInv /\ GrowthInv
<1>1. ContentInit => Inv
  BY InitRows, InitVisit DEF WalkInv, QuietInv, GrowthInv, Undisturbed, ContentInit, AtHome
<1>2. Inv /\ [ContentNext]_contentVars => Inv'
  BY RowsStep, VisitStep, QuietStep, GrowthStep DEF WalkInv
<1>3. Inv => AdditionsHideNothing
  <2> SUFFICES ASSUME VisitInv, GrowthInv, visit.pc = "done", visit.change # "changed", ~visit.torn, ~Ties,
                      NEW x \in visit.start
               PROVE  x \in {visit.seen[n] : n \in DOMAIN visit.seen}
    BY DEF WalkInv, AdditionsHideNothing
  <2>1. Shown(x, visit.seen)
    BY DEF GrowthInv, Undisturbed, GrowthSeen
  <2>2. visit.seen \in Seq(Items)
    BY DEF VisitInv, VisitsOf
  <2> QED
    BY <2>1, <2>2 DEF Shown
<1> QED
  BY <1>1, <1>2, <1>3, PTL DEF ContentSpec
=============================================================================
