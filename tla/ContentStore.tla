----------------------------- MODULE ContentStore -----------------------------
(***************************************************************************)
(* One content module: a service of ContentTypes, its table, the editors'  *)
(* requests and a visitor who walks through the pages of its listing.      *)
(*                                                                         *)
(* An action is the code up to and including one statement.  update and    *)
(* remove find the row in one statement and write it in the next; findAll  *)
(* sends the query of its page and the count together.  Of the columns the *)
(* model follows a few: tracked, chosen at the start; the rows agree in    *)
(* the others.  Items are numbered in the order of their creation, which   *)
(* is that of createdAt.                                                   *)
(***************************************************************************)
EXTENDS ContentTypes, FiniteSets, SequencesExt

CONSTANTS
  Editors,   \* editors' requests in flight at once
  MaxItems,  \* bound on the rows
  MaxWrites, \* bound on the editors' requests
  Limit      \* the page size the visitor asks for

ASSUME ContentAssumption == MaxItems \in Nat /\ MaxWrites \in Nat /\ Limit \in Nat \ {0}

VARIABLES
  service,  \* the module
  tracked,  \* the columns followed
  scene,    \* "history" of one row, or "walk" through a table without updates
  item,     \* item -> its row
  given,    \* history: item -> what the requests on it have said of each column
  edit,     \* client -> the request it serves
  writes,   \* editors' requests so far
  visit     \* the visitor's walk

chosen == <<service, tracked, scene>>
contentVars == <<chosen, item, given, edit, writes, visit>>

Items == 1..MaxItems
Values == Undefined..5

Dto(k)   == Services[service].dto[k]
Data(k)  == Services[service].data[k]
Model(k) == Services[service].model[k]
Live(i)  == item[i].state = "live"

\* what a request can say of a column; in a walk two texts, of which a search finds one
Offers(k) == {Undefined, Null, 4} \cup (IF scene = "walk" /\ Data(k) = "text" THEN {5} ELSE {})
Inputs == {input \in [tracked -> {Undefined, Null, 4, 5}] : \A k \in tracked : input[k] \in Offers(k)}

NoItem == [state |-> "absent", value |-> <<>>]
NoEdit == [op |-> "none", id |-> 0, input |-> <<>>]
AtHome == [pc |-> "home", order |-> <<>>, search |-> 0, only |-> 0, page |-> 1, got |-> <<>>,
           total |-> 0, seen |-> <<>>, start |-> {}, change |-> "none", torn |-> FALSE]

\* Columns with the same three kinds are alike but for the listing.  A history is
\* taken of two that are not alike, a walk of two that the listing reads.
Alike(s, k, l) == /\ Services[s].dto[k] = Services[s].dto[l]
                  /\ Services[s].data[k] = Services[s].data[l]
                  /\ Services[s].model[k] = Services[s].model[l]
Kinds(s) == LET cols == DOMAIN Services[s].data
            IN  {CHOOSE l \in cols : Alike(s, k, l) : k \in cols}
Ordering(s) == {Services[s].order[n].by : n \in DOMAIN Services[s].order} \ {"createdAt"}
Listed(s) == IF Cardinality(Ordering(s)) = 2 THEN {Ordering(s)}
             ELSE {Ordering(s) \cup {k} : k \in IF Services[s].filter # {} THEN Services[s].filter
                                                ELSE Services[s].search}

\* one service of each shape; the listings of the others differ in names
Walked == {"blogs", "chronology", "council", "experts", "testimonials"}

ContentInit ==
  /\ \/ /\ scene = "history"
        /\ service \in DOMAIN Services /\ tracked \in kSubset(2, Kinds(service))
     \/ /\ scene = "walk"
        /\ service \in Walked /\ tracked \in Listed(service)
  /\ item = [i \in Items |-> NoItem]
  /\ given = [i \in Items |-> <<>>]
  /\ edit = [c \in Editors |-> NoEdit]
  /\ writes = 0
  /\ visit = AtHome

-----------------------------------------------------------------------------
(* What a request makes of a row *)

\* the DTO of create; that of update makes every column optional
Valid(input) == \A k \in tracked : Dto(k) = "required" => ~Absent(input[k])

CreateData(input) == [k \in tracked |-> OnCreate(Data(k), input[k])]
UpdateData(input) == [k \in tracked |-> OnUpdate(Data(k), input[k])]
Accepted(data) == \A k \in tracked : ~Rejects(Model(k), data[k])

Created(input) == [k \in tracked |-> Filled(Model(k), CreateData(input)[k])]

\* seeded fault: takes a column left out for null
ClearsOmitted(old, input) ==
  [k \in tracked |-> IF UpdateData(input)[k] = Undefined /\ Model(k) # "nullable" THEN old[k]
                     ELSE IF UpdateData(input)[k] = Undefined THEN Null ELSE UpdateData(input)[k]]

Merged(old, input) ==
  [k \in tracked |-> IF UpdateData(input)[k] = Undefined THEN old[k] ELSE UpdateData(input)[k]]

\* history: an update that says nothing of a column leaves what was said before,
\* and so does null for a text or a date
Said(before, input) ==
  [k \in tracked |-> IF input[k] = Undefined \/ (input[k] = Null /\ Data(k) \in {"text", "date"})
                     THEN before[k] ELSE input[k]]

note(i, input) == given' = IF scene = "history" THEN [given EXCEPT ![i] = input] ELSE given

\* The rows change under the visitor.
disturb(change) ==
  visit' = IF visit = AtHome THEN visit
           ELSE [visit EXCEPT !.change = IF @ = "changed" THEN @ ELSE change,
                              !.torn = @ \/ visit.pc \in {"read", "counted"}]

createItem(i) ==
  /\ writes < MaxWrites
  /\ scene = "history" => i = 1
  /\ item[i] = NoItem /\ \A j \in 1..(i - 1) : item[j] # NoItem
  /\ \E input \in Inputs :
       /\ Valid(input) /\ Accepted(CreateData(input))
       /\ item' = [item EXCEPT ![i] = [state |-> "live", value |-> Created(input)]]
       /\ note(i, input)
  /\ writes' = writes + 1
  /\ disturb("grown")
  /\ UNCHANGED <<chosen, edit>>

\* update and remove find the row...
updateItem(c, i) ==
  /\ writes < MaxWrites /\ scene = "history"
  /\ edit[c] = NoEdit /\ Live(i)
  /\ \E input \in Inputs :
       edit' = [edit EXCEPT ![c] = [op |-> "update", id |-> i, input |-> input]]
  /\ writes' = writes + 1
  /\ UNCHANGED <<chosen, item, given, visit>>

removeItem(c, i) ==
  /\ writes < MaxWrites
  /\ edit[c] = NoEdit /\ Live(i)
  /\ edit' = [edit EXCEPT ![c] = [op |-> "remove", id |-> i, input |-> <<>>]]
  /\ writes' = writes + 1
  /\ UNCHANGED <<chosen, item, given, visit>>

\* ... and write it, unless it is deleted by then or Prisma rejects a value
finish(c) == edit' = [edit EXCEPT ![c] = NoEdit]

\* seeded fault: a write that does not look at isDeleted again
Blindly(i) == item[i] # NoItem

\* where: { id, isDeleted: false }
Found(i) == Live(i)

writeUpdate(c) ==
  LET i == edit[c].id  input == edit[c].input
  IN  /\ edit[c].op = "update"
      /\ Found(i) /\ Accepted(UpdateData(input))
      /\ item' = [item EXCEPT ![i].value = Merged(@, input)]
      /\ note(i, Said(given[i], input))
      /\ finish(c) /\ disturb("changed")
      /\ UNCHANGED <<chosen, writes>>

writeRemove(c) ==
  LET i == edit[c].id
  IN  /\ edit[c].op = "remove"
      /\ Found(i)
      /\ item' = [item EXCEPT ![i].state = "deleted"]
      /\ finish(c) /\ disturb("changed")
      /\ UNCHANGED <<chosen, given, writes>>

failWrite(c) ==
  /\ edit[c].op # "none"
  /\ \/ ~Found(edit[c].id)
     \/ edit[c].op = "update" /\ ~Accepted(UpdateData(edit[c].input))
  /\ finish(c)
  /\ UNCHANGED <<chosen, item, given, writes, visit>>

-----------------------------------------------------------------------------
(* findAll: the visitor asks for page after page until none is left *)

\* the query's own order if its sortBy is a column of the listing
Orders == {Services[service].order}
          \cup {<< o >> : o \in [by : tracked, desc : BOOLEAN]}

\* where, for a search text (0: none) and a value to filter by (0: none)
Where(search, only) ==
  {i \in Items :
    /\ Live(i)
    /\ search # 0 => \E k \in Services[service].search \cap tracked : item[i].value[k] = search
    /\ only # 0 => \A k \in Services[service].filter : item[i].value[k] = only}

Matching == Where(visit.search, visit.only)

\* PostgreSQL takes null for the largest value
SortKey(i, k) ==
  CASE k \in tracked -> IF item[i].value[k] = Null THEN 6 ELSE item[i].value[k]
    [] k \notin tracked -> IF k = "createdAt" THEN i ELSE 0

Before(i, j) ==
  \E n \in DOMAIN visit.order :
    LET o == visit.order[n]
    IN  /\ IF o.desc THEN SortKey(i, o.by) > SortKey(j, o.by) ELSE SortKey(i, o.by) < SortKey(j, o.by)
        /\ \A m \in 1..(n - 1) : SortKey(i, visit.order[m].by) = SortKey(j, visit.order[m].by)

\* the sequences in which the database may return the rows: ties in any order
Listings == {s \in SetToSeqs(Matching) : \A p, q \in DOMAIN s : p < q => ~Before(s[q], s[p])}

ask(o, search, only) ==
  /\ visit = AtHome
  /\ visit' = [AtHome EXCEPT !.pc = "asked", !.order = o, !.search = search, !.only = only,
                 !.start = Where(search, only)]
  /\ UNCHANGED <<chosen, item, given, edit, writes>>

\* seeded fault: counts the pages from zero
FromPageZero(s, page, limit) ==
  LET last == limit * (page + 1)
  IN  SubSeq(s, limit * page + 1, IF last < Len(s) THEN last ELSE Len(s))

\* take: limit, skip: limit * (page - 1)
PageOf(s, page, limit) ==
  LET last == limit * page
  IN  SubSeq(s, limit * (page - 1) + 1, IF last < Len(s) THEN last ELSE Len(s))

\* the statements of Promise.all, in either order
readPage ==
  /\ visit.pc \in {"asked", "counted"}
  /\ \E s \in Listings :
       visit' = [visit EXCEPT !.got = PageOf(s, visit.page, Limit),
                              !.pc = IF @ = "asked" THEN "read" ELSE "both"]
  /\ UNCHANGED <<chosen, item, given, edit, writes>>

\* seeded fault: takes the count of the first page for all
CountOnce ==
  /\ visit.pc \in {"asked", "read"}
  /\ visit' = [visit EXCEPT !.total = IF visit.page = 1 THEN Cardinality(Matching) ELSE Cardinality(visit.start),
                            !.pc = IF @ = "asked" THEN "counted" ELSE "both"]
  /\ UNCHANGED <<chosen, item, given, edit, writes>>

readCount ==
  /\ visit.pc \in {"asked", "read"}
  /\ visit' = [visit EXCEPT !.total = Cardinality(Matching),
                            !.pc = IF @ = "asked" THEN "counted" ELSE "both"]
  /\ UNCHANGED <<chosen, item, given, edit, writes>>

\* seeded fault: rounds the number of pages down
LastPageRoundsDown(total, limit) == IF total \div limit > 1 THEN total \div limit ELSE 1

\* paginate
LastPage(total, limit) == IF total > limit THEN (total + limit - 1) \div limit ELSE 1

hasNext == visit.page < LastPage(visit.total, Limit)

turnPage ==
  /\ visit.pc = "both"
  /\ visit' = [visit EXCEPT !.seen = @ \o visit.got, !.got = <<>>, !.total = 0,
                            !.page = IF hasNext THEN @ + 1 ELSE @,
                            !.pc = IF hasNext THEN "asked" ELSE "done"]
  /\ UNCHANGED <<chosen, item, given, edit, writes>>

leave ==
  /\ visit.pc = "done"
  /\ visit' = AtHome
  /\ UNCHANGED <<chosen, item, given, edit, writes>>

-----------------------------------------------------------------------------
Edit(c) ==
  \/ \E i \in Items : updateItem(c, i) \/ removeItem(c, i)
  \/ writeUpdate(c) \/ writeRemove(c) \/ failWrite(c)

Searches == IF Services[service].search \cap tracked = {} THEN {0} ELSE {0, 4}
Filters == IF Services[service].filter # {} /\ Services[service].filter \subseteq tracked THEN {0, 4} ELSE {0}

Visiting ==
  \/ scene = "walk" /\ \E o \in Orders, search \in Searches, only \in Filters : ask(o, search, only)
  \/ readPage \/ readCount \/ turnPage \/ leave

ContentNext ==
  \/ \E c \in Editors : Edit(c)
  \/ \E i \in Items : createItem(i)
  \/ Visiting

ContentSpec == ContentInit /\ [][ContentNext]_contentVars

-----------------------------------------------------------------------------
(* Properties *)

\* The types of the rows, the requests and the walk.  A column that is not nullable
\* holds a value.
ContentTypeOK ==
  /\ service \in DOMAIN Services /\ tracked \subseteq DOMAIN Services[service].data
  /\ \A i \in Items :
       \/ item[i] = NoItem
       \/ /\ item[i] \in [state : {"live", "deleted"}, value : [tracked -> Values \ {Undefined}]]
          /\ \A k \in tracked : Model(k) # "nullable" => item[i].value[k] # Null
  /\ \A c \in Editors : \/ edit[c] = NoEdit
                        \/ edit[c] \in [op : {"update"}, id : Items, input : [tracked -> Values]]
                        \/ edit[c] \in [op : {"remove"}, id : Items, input : {<<>>}]
  /\ visit.got \in Seq(Items) /\ visit.seen \in Seq(Items) /\ visit.start \subseteq Items

\* Creation and any sequence of partial updates, also of two editors at once, leave
\* a row as one creation with all that they said would: what one leaves out is kept,
\* what one clears is cleared, for every kind of column.
UpdatesMerge ==
  scene = "history" => \A i \in Items : Live(i) => item[i].value = Created(given[i])

\* A deleted row never comes back and never changes, however late the update that
\* found it before.
DeletedItemIsFinal == [][\A i \in Items : item[i].state = "deleted" => item'[i] = item[i]]_contentVars

Ties == \E i, j \in Matching : i # j /\ ~Before(i, j) /\ ~Before(j, i)

\* A walk during which nothing changes shows as many rows as there are, and, if the
\* order decides between any two, each of them once and in order: the pages that
\* limit, skip and lastPage cut are a partition of the listing.
QuietWalkShowsAll ==
  visit.pc = "done" /\ visit.change = "none" =>
    /\ Len(visit.seen) = Cardinality(Matching)
    /\ Ties \/ visit.seen \in Listings

\* While rows are only added, a walk shows every row that was there when it began,
\* wherever the new ones come in, unless one was added between the page and the
\* count of one query: then lastPage can be too small.
AdditionsHideNothing ==
  visit.pc = "done" /\ visit.change # "changed" /\ ~visit.torn /\ ~Ties =>
    visit.start \subseteq {visit.seen[n] : n \in DOMAIN visit.seen}
=============================================================================
