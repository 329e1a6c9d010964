---------------------------- MODULE DocumentLibrary ----------------------------
(***************************************************************************)
(* Documents and their categories: DocumentsService and                    *)
(* DocumentCategoriesService.  Both delete softly, and each handler checks *)
(* in one statement and writes in the next, without a transaction.         *)
(* The columns that no check reads are one bit, which an update flips and  *)
(* so does a deletion, which says when and by whom.                        *)
(***************************************************************************)
EXTENDS Naturals

CONSTANTS
  Clients,     \* requests in flight at once
  Documents,   \* ids of documents, the bound on their number
  Categories   \* ids of categories, the bound on theirs

None == "none"

ASSUME LibraryAssumption == None \notin Documents \cup Categories

VARIABLES
  document,  \* Documents -> row
  category,  \* Categories -> row
  request,   \* Clients -> the request it serves
  contended  \* categories that a remove and a write of a document have met in

vars == <<document, category, request, contended>>

NoRow == [state |-> "absent", category |-> None, data |-> 0]
Row(k) == [state |-> "live", category |-> k, data |-> 0]
Idle == [op |-> None, pc |-> "idle", id |-> None, category |-> None]

Init ==
  /\ document = [d \in Documents |-> NoRow]
  /\ category = [k \in Categories |-> NoRow]
  /\ request = [c \in Clients |-> Idle]
  /\ contended = {}

\* where: { id, isDeleted: false }
IsLive(row) == row.state = "live"

\* the row as remove leaves it, unless it was deleted meanwhile
SoftDeleted(row) ==
  IF ~IsLive(row) THEN row ELSE [row EXCEPT !.state = "deleted", !.data = 1 - @]

\* A request that writes documents of k has seen k, one that removes k is under way.
Meet(reqs) ==
  {k \in Categories :
     /\ \E c \in Clients : reqs[c].pc = "write" /\ reqs[c].op \in {"create", "update"}
                                                /\ reqs[c].category = k
     /\ \E c \in Clients : reqs[c].op = "removeCategory" /\ reqs[c].id = k}

Move(c, r) ==
  /\ request' = [request EXCEPT ![c] = r]
  /\ contended' = contended \cup Meet(request')
Goto(c, pc) == Move(c, [request[c] EXCEPT !.pc = pc])

At(c, op, pc) == request[c].op = op /\ request[c].pc = pc
Accept(c, op, pc, id, k) == /\ request[c] = Idle
                            /\ Move(c, [op |-> op, pc |-> pc, id |-> id, category |-> k])
                            /\ UNCHANGED <<document, category>>

-----------------------------------------------------------------------------
(* DocumentsService: k is the categoryId of the dto, None if it has none *)

create(c, k) == Accept(c, "create", "check", None, k)

\* update and remove of either service first look for a row that is not deleted;
\* without one they throw
updateDocument(c, d, k) ==
  IsLive(document[d]) /\ Accept(c, "update", IF k = None THEN "write" ELSE "check", d, k)
removeDocument(c, d) == IsLive(document[d]) /\ Accept(c, "remove", "write", d, None)

assertCategoryExists(c) ==
  /\ request[c].op \in {"create", "update"} /\ request[c].pc = "check"
  /\ IF IsLive(category[request[c].category]) THEN Goto(c, "write") ELSE Move(c, Idle)
  /\ UNCHANGED <<document, category>>

\* seeded fault: stores the document's own id as its categoryId
InsertOwnId(c, d) ==
  /\ At(c, "create", "write")
  /\ document[d] = NoRow
  /\ document' = [document EXCEPT ![d] = Row(d)]
  /\ Move(c, Idle)
  /\ UNCHANGED category

insertDocument(c, d) ==
  /\ At(c, "create", "write")
  /\ document[d] = NoRow
  /\ document' = [document EXCEPT ![d] = Row(request[c].category)]
  /\ Move(c, Idle)
  /\ UNCHANGED category

\* seeded fault: the update finds the row by its id alone
Unconditional(row, k) ==
  [row EXCEPT !.data = 1 - @, !.category = IF k = None THEN @ ELSE k]

\* the row as update leaves it: a row deleted meanwhile is not found (P2025)
Updated(row, k) ==
  IF ~IsLive(row) THEN row
  ELSE [row EXCEPT !.data = 1 - @, !.category = IF k = None THEN @ ELSE k]

writeDocument(c) ==
  /\ At(c, "update", "write")
  /\ document' = [document EXCEPT ![request[c].id] = Updated(@, request[c].category)]
  /\ Move(c, Idle)
  /\ UNCHANGED category

deleteDocument(c) ==
  /\ At(c, "remove", "write")
  /\ document' = [document EXCEPT ![request[c].id] = SoftDeleted(@)]
  /\ Move(c, Idle)
  /\ UNCHANGED category

-----------------------------------------------------------------------------
(* DocumentCategoriesService *)

createCategory(c, k) ==
  /\ request[c] = Idle
  /\ category[k] = NoRow
  /\ category' = [category EXCEPT ![k] = Row(None)]
  /\ UNCHANGED <<document, request, contended>>

updateCategory(c, k) == IsLive(category[k]) /\ Accept(c, "updateCategory", "write", k, None)
removeCategory(c, k) == IsLive(category[k]) /\ Accept(c, "removeCategory", "count", k, None)

writeCategory(c) ==
  /\ At(c, "updateCategory", "write")
  /\ category' = [category EXCEPT ![request[c].id] = Updated(@, None)]
  /\ Move(c, Idle)
  /\ UNCHANGED document

InUse(k) == {d \in Documents : IsLive(document[d]) /\ document[d].category = k}

\* seeded fault: counts the published documents only
CountsPublished(c) ==
  /\ At(c, "removeCategory", "count")
  /\ IF \E d \in InUse(request[c].id) : document[d].data = 0 THEN Move(c, Idle) ELSE Goto(c, "write")
  /\ UNCHANGED <<document, category>>

countDocuments(c) ==
  /\ At(c, "removeCategory", "count")
  /\ IF InUse(request[c].id) # {} THEN Move(c, Idle) ELSE Goto(c, "write")
  /\ UNCHANGED <<document, category>>

deleteCategory(c) ==
  /\ At(c, "removeCategory", "write")
  /\ category' = [category EXCEPT ![request[c].id] = SoftDeleted(@)]
  /\ Move(c, Idle)
  /\ UNCHANGED document

-----------------------------------------------------------------------------
Next ==
  \E c \in Clients :
    \/ \E k \in Categories : create(c, k) \/ createCategory(c, k) \/ updateCategory(c, k)
                                          \/ removeCategory(c, k)
    \/ \E d \in Documents : \/ \E k \in Categories \cup {None} : updateDocument(c, d, k)
                            \/ removeDocument(c, d) \/ insertDocument(c, d)
    \/ assertCategoryExists(c) \/ writeDocument(c) \/ deleteDocument(c)
    \/ writeCategory(c) \/ countDocuments(c) \/ deleteCategory(c)

Spec == Init /\ [][Next]_vars

-----------------------------------------------------------------------------
(* Properties *)

RowType == [state : {"absent", "live", "deleted"}, category : Categories \cup {None}, data : 0..1]
RequestType == [op : {None, "create", "update", "remove", "updateCategory", "removeCategory"},
                pc : {"idle", "check", "count", "write"},
                id : Documents \cup Categories \cup {None},
                category : Categories \cup {None}]

\* The types of the rows and of the requests.
TypeOK ==
  /\ document \in [Documents -> RowType]
  /\ category \in [Categories -> RowType]
  /\ contended \subseteq Categories
  /\ request \in [Clients -> RequestType]

\* assertCategoryExists and the count in remove keep the documents in categories
\* that are not deleted, unless a remove of the category and a write of a document
\* into it have overlapped: nothing locks the category between check and write.
OrphansComeOfOverlap ==
  \A d \in Documents :
    LET k == document[d].category
    IN  IsLive(document[d]) => IsLive(category[k]) \/ k \in contended

\* A deleted row never comes back and never changes, however late the update that
\* found it before: update and remove name isDeleted in the statement that writes.
DeletedIsFinal ==
  [][/\ \A d \in Documents : document[d].state = "deleted" => document'[d] = document[d]
     /\ \A k \in Categories : category[k].state = "deleted" => category'[k] = category[k]]_vars

-----------------------------------------------------------------------------
(* The inductive invariant behind OrphansComeOfOverlap *)

LiveOrContended(k) == IsLive(category[k]) \/ k \in contended

\* a live document, and a request that will write one, names a category
Categorised ==
  /\ \A d \in Documents : IsLive(document[d]) => document[d].category \in Categories
  /\ \A c \in Clients : request[c].op = "create" => request[c].category \in Categories

\* no meeting goes unnoticed
MeetingsNoted == Meet(request) \subseteq contended

\* what a request has seen still holds when it writes, or it met another
WritersSawCategory ==
  \A c \in Clients :
    /\ request[c].pc = "write" /\ request[c].op \in {"create", "update"}
    /\ request[c].category # None
    => LiveOrContended(request[c].category)
RemoversSawNoDocument ==
  \A c \in Clients : At(c, "removeCategory", "write") =>
    InUse(request[c].id) = {} \/ request[c].id \in contended

LibraryInv == /\ TypeOK /\ Categorised /\ MeetingsNoted
              /\ WritersSawCategory /\ RemoversSawNoDocument /\ OrphansComeOfOverlap
=============================================================================
