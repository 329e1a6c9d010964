------------------------ MODULE DocumentLibrary_proofs ------------------------
(* Proofs about DocumentLibrary, for any number of requests, documents and categories. *)
EXTENDS DocumentLibrary, TLAPS

\* Accept only starts a request; what it starts with is stated here once.
LEMMA AcceptFacts ==
  ASSUME NEW c \in Clients, NEW op, NEW pc, NEW id, NEW k, Accept(c, op, pc, id, k)
  PROVE  /\ request' = [request EXCEPT ![c] = [op |-> op, pc |-> pc, id |-> id, category |-> k]]
         /\ contended' = contended \cup Meet(request')
         /\ document' = document /\ category' = category
BY DEF Accept, Move

\* A request that ends: the others stay, meetings are noted.
LEMMA IdleFacts ==
  ASSUME NEW c \in Clients, TypeOK, Move(c, Idle)
  PROVE  /\ request' \in [Clients -> RequestType]
         /\ \A e \in Clients : request'[e] = Idle \/ request'[e] = request[e]
         /\ contended \subseteq contended' /\ Meet(request') \subseteq contended'
         /\ contended' \subseteq Categories
BY DEF Move, TypeOK, Idle, Meet, RequestType, None

\* What an update and a soft delete make of a row.
LEMMA UpdatedFacts ==
  ASSUME NEW row \in RowType, NEW k \in Categories \cup {None}
  PROVE  /\ Updated(row, k) \in RowType
         /\ IsLive(Updated(row, k)) <=> IsLive(row)
         /\ IsLive(row) => Updated(row, k).category = IF k = None THEN row.category ELSE k
<1>1. PICK st \in {"absent", "live", "deleted"}, kk \in Categories \cup {None}, dd \in 0..1 :
        row = [state |-> st, category |-> kk, data |-> dd]
  BY DEF RowType
<1>2. CASE ~IsLive(row)
  BY <1>2 DEF Updated
<1>3. CASE IsLive(row)
  <2>1. Updated(row, k) = [state |-> st, category |-> IF k = None THEN kk ELSE k, data |-> 1 - dd]
    BY <1>1, <1>3 DEF Updated
  <2>2. 1 - dd \in 0..1 /\ (IF k = None THEN kk ELSE k) \in Categories \cup {None}
    OBVIOUS
  <2> HIDE DEF Updated
  <2> QED
    BY <1>1, <1>3, <2>1, <2>2 DEF RowType, IsLive
<1> QED
  BY <1>2, <1>3

LEMMA SoftDeletedFacts ==
  ASSUME NEW row \in RowType
  PROVE  SoftDeleted(row) \in RowType /\ ~IsLive(SoftDeleted(row))
<1>1. CASE ~IsLive(row)
  BY <1>1 DEF SoftDeleted
<1>2. CASE IsLive(row)
  <2> DEFINE bit == 1 - row.data
             gone == [[row EXCEPT !.state = "deleted"] EXCEPT !.data = bit]
  <2>1. SoftDeleted(row) = gone
    BY <1>2 DEF SoftDeleted, RowType
  <2>2. bit \in 0..1
    BY DEF RowType
  <2> HIDE DEF bit
  <2>3. gone \in RowType /\ gone.state = "deleted"
    BY <2>2 DEF RowType
  <2> QED
    BY <2>1, <2>3 DEF IsLive
<1> QED
  BY <1>1, <1>2

\* The documents after the statement that updates one.
LEMMA WriteDocumentFacts ==
  ASSUME TypeOK, NEW c \in Clients, writeDocument(c)
  PROVE  /\ document' \in [Documents -> RowType]
         /\ \A e \in Documents : e # request[c].id => document'[e] = document[e]
         /\ \A e \in Documents : e = request[c].id =>
              /\ IsLive(document'[e]) <=> IsLive(document[e])
              /\ IsLive(document[e]) =>
                   document'[e].category = IF request[c].category = None THEN document[e].category
                                           ELSE request[c].category
<1> DEFINE d == request[c].id  k == request[c].category
<1>1. k \in Categories \cup {None}
  BY DEF TypeOK, RequestType
<1>2. document' = [document EXCEPT ![d] = Updated(document[d], k)] /\ document \in [Documents -> RowType]
  BY DEF writeDocument, TypeOK
<1>3. ASSUME d \in Documents
      PROVE  /\ Updated(document[d], k) \in RowType
             /\ IsLive(Updated(document[d], k)) <=> IsLive(document[d])
             /\ IsLive(document[d]) =>
                  Updated(document[d], k).category = IF k = None THEN document[d].category ELSE k
  <2>1. document[d] \in RowType
    BY <1>2, <1>3
  <2> QED
    BY <1>1, <2>1, UpdatedFacts
<1> QED
  BY <1>2, <1>3

LEMMA InitInv == Init => LibraryInv
BY LibraryAssumption
DEF Init, LibraryInv, TypeOK, RowType, RequestType, NoRow, Idle, None, Categorised, MeetingsNoted, Meet,
    WritersSawCategory, RemoversSawNoDocument, OrphansComeOfOverlap, IsLive, At, InUse

\* Every step of the library preserves the invariant; the steps that write a row
\* are taken apart, conjunct by conjunct.
LEMMA StepInv == LibraryInv /\ [Next]_vars => LibraryInv'
<1> SUFFICES ASSUME LibraryInv, [Next]_vars PROVE LibraryInv'
  OBVIOUS
<1> USE LibraryAssumption DEF None
<1>1. CASE UNCHANGED vars
  BY <1>1 DEF LibraryInv, vars, TypeOK, Categorised, MeetingsNoted, Meet, WritersSawCategory,
              RemoversSawNoDocument, OrphansComeOfOverlap, LiveOrContended, IsLive, At, InUse
<1>2. CASE Next
  <2> PICK c \in Clients :
    \/ \E k \in Categories : create(c, k) \/ createCategory(c, k) \/ updateCategory(c, k)
                                          \/ removeCategory(c, k)
    \/ \E d \in Documents : \/ \E k \in Categories \cup {None} : updateDocument(c, d, k)
                            \/ removeDocument(c, d) \/ insertDocument(c, d)
    \/ assertCategoryExists(c) \/ writeDocument(c) \/ deleteDocument(c)
    \/ writeCategory(c) \/ countDocuments(c) \/ deleteCategory(c)
    BY <1>2 DEF Next
  <2> USE DEF LibraryInv, TypeOK, RequestType, Categorised, MeetingsNoted, WritersSawCategory,
              RemoversSawNoDocument, OrphansComeOfOverlap, LiveOrContended, IsLive, At
  <2>1. ASSUME NEW k \in Categories, create(c, k) PROVE LibraryInv'
    BY <2>1, AcceptFacts DEF create, Meet, InUse
  <2>2. ASSUME NEW k \in Categories, createCategory(c, k) PROVE LibraryInv'
    BY <2>2 DEF createCategory, Meet, InUse, Row, NoRow, RowType
  <2>3. ASSUME NEW k \in Categories, updateCategory(c, k) PROVE LibraryInv'
    BY <2>3, AcceptFacts DEF updateCategory, Meet, InUse
  <2>4. ASSUME NEW k \in Categories, removeCategory(c, k) PROVE LibraryInv'
    BY <2>4, AcceptFacts DEF removeCategory, Meet, InUse
  <2>5. ASSUME NEW d \in Documents, NEW k \in Categories \cup {None}, updateDocument(c, d, k)
        PROVE  LibraryInv'
    <3>1. /\ document' = document /\ category' = category
          /\ \E pc \in {"write", "check"} :
               /\ k = None \/ pc = "check"
               /\ request' = [request EXCEPT ![c] = [op |-> "update", pc |-> pc, id |-> d, category |-> k]]
          /\ contended \subseteq contended' /\ contended' = contended \cup Meet(request')
      BY <2>5, AcceptFacts DEF updateDocument
    <3>2. TypeOK'
      BY <3>1 DEF Meet
    <3>3. Categorised' /\ MeetingsNoted' /\ OrphansComeOfOverlap'
      BY <3>1
    <3>4. WritersSawCategory' /\ RemoversSawNoDocument'
      BY <3>1 DEF InUse
    <3> QED
      BY <3>2, <3>3, <3>4
  <2>6. ASSUME NEW d \in Documents, removeDocument(c, d) PROVE LibraryInv'
    BY <2>6, AcceptFacts DEF removeDocument, Meet, InUse
  <2>7. ASSUME NEW d \in Documents, insertDocument(c, d) PROVE LibraryInv'
    BY <2>7 DEF insertDocument, Move, Idle, Meet, InUse, Row, NoRow, RowType
  <2>8. CASE assertCategoryExists(c)
    BY <2>8 DEF assertCategoryExists, Goto, Move, Idle, Meet, InUse
  <2>9. CASE writeDocument(c)
    <3> /\ \A e \in Clients : request'[e] = Idle \/ request'[e] = request[e]
        /\ contended \subseteq contended' /\ MeetingsNoted'
      BY <2>9, IdleFacts DEF writeDocument
    <3>1. TypeOK'
      <4> document' \in [Documents -> RowType]
        BY <2>9, WriteDocumentFacts
      <4> QED
        BY <2>9, IdleFacts DEF writeDocument
    <3> DEFINE d == request[c].id  k == request[c].category
    <3>w. /\ category' = category
          /\ \A e \in Documents \ {d} : document'[e] = document[e]
          /\ k # None => k \in Categories /\ LiveOrContended(k)
      BY <2>9 DEF writeDocument
    <3>u. d \in Documents =>
            /\ IsLive(document'[d]) <=> IsLive(document[d])
            /\ IsLive(document[d]) => document'[d].category = IF k = None THEN document[d].category ELSE k
      BY <2>9, WriteDocumentFacts
    <3>2. Categorised'
      BY <3>w, <3>u DEF Idle
    <3>3. WritersSawCategory'
      BY <3>w DEF Idle
    <3>4. RemoversSawNoDocument'
      <4> SUFFICES ASSUME NEW e \in Clients, At(e, "removeCategory", "write")', 
                          NEW x \in InUse(request[e].id)'
                   PROVE  request[e].id \in contended'
        BY DEF InUse, Idle
      <4>1. e # c /\ At(e, "removeCategory", "write") /\ request'[e] = request[e]
        BY <2>9 DEF writeDocument, Idle
      <4>2. CASE x \in InUse(request[e].id)
        BY <4>1, <4>2
      <4>3. CASE x \notin InUse(request[e].id)
        <5>1. x = d /\ k # None /\ request[e].id = k
          BY <3>w, <3>u, <4>1, <4>3 DEF InUse
        <5> QED
          BY <5>1, <3>w, <4>1, <2>9 DEF writeDocument, Meet
      <4> QED
        BY <4>2, <4>3
    <3>5. OrphansComeOfOverlap'
      <4> SUFFICES ASSUME NEW e \in Documents, IsLive(document[e])'
                   PROVE  LiveOrContended(document[e].category)'
        OBVIOUS
      <4> CASE e # d
        BY <3>w
      <4> CASE e = d
        BY <3>w, <3>u
      <4> QED
        OBVIOUS
    <3> QED
      BY <3>1, <3>2, <3>3, <3>4, <3>5
  <2>10. CASE deleteDocument(c)
    <3> /\ \A e \in Clients : request'[e] = Idle \/ request'[e] = request[e]
        /\ contended \subseteq contended' /\ MeetingsNoted'
      BY <2>10, IdleFacts DEF deleteDocument
    <3>1. TypeOK'
      <4> /\ category' = category
          /\ document' = [document EXCEPT ![request[c].id] = SoftDeleted(@)]
          /\ request' \in [Clients -> RequestType] /\ contended' \subseteq Categories
        BY <2>10, IdleFacts DEF deleteDocument
      <4> HIDE DEF RequestType
      <4> document' \in [Documents -> RowType]
        BY SoftDeletedFacts
      <4> QED
        OBVIOUS
    <3>w. /\ category' = category
          /\ \A e \in Documents : IsLive(document[e])' =>
               IsLive(document[e]) /\ document'[e].category = document[e].category
      BY <2>10 DEF deleteDocument, SoftDeleted
    <3>2. Categorised'
      BY <3>w DEF Idle
    <3>3. WritersSawCategory'
      BY <3>w DEF Idle
    <3>4. RemoversSawNoDocument'
      BY <3>w DEF InUse, Idle
    <3>5. OrphansComeOfOverlap'
      BY <3>w
    <3> QED
      BY <3>1, <3>2, <3>3, <3>4, <3>5
  <2>11. CASE writeCategory(c)
    <3> /\ \A e \in Clients : request'[e] = Idle \/ request'[e] = request[e]
        /\ contended \subseteq contended' /\ MeetingsNoted'
      BY <2>11, IdleFacts DEF writeCategory
    <3>1. TypeOK'
      <4> /\ document' = document
          /\ category' = [category EXCEPT ![request[c].id] = Updated(@, None)]
          /\ request' \in [Clients -> RequestType] /\ contended' \subseteq Categories
        BY <2>11, IdleFacts DEF writeCategory
      <4> HIDE DEF RequestType
      <4> category' \in [Categories -> RowType]
        BY UpdatedFacts
      <4> QED
        OBVIOUS
    <3>w. /\ document' = document
          /\ \A k \in Categories : IsLive(category[k])' <=> IsLive(category[k])
      BY <2>11 DEF writeCategory, Updated
    <3>2. Categorised'
      BY <3>w DEF Idle
    <3>3. WritersSawCategory'
      BY <3>w DEF Idle
    <3>4. RemoversSawNoDocument'
      BY <3>w DEF InUse, Idle
    <3>5. OrphansComeOfOverlap'
      BY <3>w
    <3> QED
      BY <3>1, <3>2, <3>3, <3>4, <3>5
  <2>12. CASE countDocuments(c)
    BY <2>12 DEF countDocuments, Goto, Move, Idle, Meet, InUse
  <2>13. CASE deleteCategory(c)
    <3> /\ \A e \in Clients : request'[e] = Idle \/ request'[e] = request[e]
        /\ contended \subseteq contended' /\ MeetingsNoted'
      BY <2>13, IdleFacts DEF deleteCategory
    <3>1. TypeOK'
      <4> /\ document' = document
          /\ category' = [category EXCEPT ![request[c].id] = SoftDeleted(@)]
          /\ request' \in [Clients -> RequestType] /\ contended' \subseteq Categories
        BY <2>13, IdleFacts DEF deleteCategory
      <4> HIDE DEF RequestType
      <4> category' \in [Categories -> RowType]
        BY SoftDeletedFacts
      <4> QED
        OBVIOUS
    <3> DEFINE k == request[c].id
    <3>w. /\ document' = document
          /\ \A j \in Categories \ {k} : category'[j] = category[j]
      BY <2>13 DEF deleteCategory
    <3>2. Categorised'
      BY <3>w DEF Idle
    <3>3. WritersSawCategory'
      <4> SUFFICES ASSUME NEW e \in Clients, request'[e].category # None,
                          request'[e].pc = "write", request'[e].op \in {"create", "update"}
                   PROVE  LiveOrContended(request[e].category)'
        OBVIOUS
      <4>1. request'[e] = request[e] /\ request[e].category \in Categories
        BY <2>13 DEF Idle
      <4>2. CASE request[e].category = k
        BY <4>1, <4>2, <2>13 DEF deleteCategory, Meet
      <4>3. CASE request[e].category # k
        BY <4>1, <4>3, <3>w
      <4> QED
        BY <4>2, <4>3
    <3>4. RemoversSawNoDocument'
      BY <3>w DEF InUse, Idle
    <3>5. OrphansComeOfOverlap'
      BY <3>w, <2>13 DEF deleteCategory, InUse
    <3> QED
      BY <3>1, <3>2, <3>3, <3>4, <3>5
  <2> QED
    BY <2>1, <2>2, <2>3, <2>4, <2>5, <2>6, <2>7, <2>8, <2>9, <2>10, <2>11, <2>12, <2>13
<1> QED
  BY <1>1, <1>2

-----------------------------------------------------------------------------
\* LibraryInv holds for any number of requests, documents and categories.
THEOREM LibraryInvHolds == Spec => []LibraryInv
<1>1. Init => LibraryInv
  BY InitInv
<1>2. LibraryInv /\ [Next]_vars => LibraryInv'
  BY StepInv
<1> QED
  BY <1>1, <1>2, PTL DEF Spec

\* The rows and the requests of DocumentsService and DocumentCategoriesService keep
\* their types.
THEOREM LibraryTypeCorrect == Spec => []TypeOK
<1>1. LibraryInv => TypeOK
  BY DEF LibraryInv
<1> QED
  BY <1>1, LibraryInvHolds, PTL

\* A live document is in a live category unless a remove of the category and a write
\* of a document into it have overlapped (assertCategoryExists and the count).
THEOREM OrphansNeedOverlap == Spec => []OrphansComeOfOverlap
<1>1. LibraryInv => OrphansComeOfOverlap
  BY DEF LibraryInv
<1> QED
  BY <1>1, LibraryInvHolds, PTL

\* No step changes a deleted row: update and remove name isDeleted when they write.
THEOREM DeletedRowsAreFinal == Spec => DeletedIsFinal
<1> DEFINE Final ==
      /\ \A d \in Documents : document[d].state = "deleted" => document'[d] = document[d]
      /\ \A k \in Categories : category[k].state = "deleted" => category'[k] = category[k]
<1>1. TypeOK /\ [Next]_vars => [Final]_vars
  <2> SUFFICES ASSUME TypeOK, Next PROVE Final
    BY DEF vars
  <2> USE DEF TypeOK
  <2>r. \A row \in RowType : row.state = "deleted" => SoftDeleted(row) = row
    BY DEF SoftDeleted, RowType, IsLive
  <2>u. \A row, k : row.state = "deleted" => Updated(row, k) = row
    BY DEF Updated, IsLive
  <2> PICK c \in Clients :
    \/ \E k \in Categories : create(c, k) \/ createCategory(c, k) \/ updateCategory(c, k)
                                          \/ removeCategory(c, k)
    \/ \E d \in Documents : \/ \E k \in Categories \cup {None} : updateDocument(c, d, k)
                            \/ removeDocument(c, d) \/ insertDocument(c, d)
    \/ assertCategoryExists(c) \/ writeDocument(c) \/ deleteDocument(c)
    \/ writeCategory(c) \/ countDocuments(c) \/ deleteCategory(c)
    BY DEF Next
  <2>1. CASE UNCHANGED <<document, category>>
    BY <2>1
  <2>2. ASSUME NEW k \in Categories, createCategory(c, k) PROVE Final
    BY <2>2 DEF createCategory, NoRow
  <2>3. ASSUME NEW d \in Documents, insertDocument(c, d) PROVE Final
    BY <2>3 DEF insertDocument, NoRow
  <2>4. CASE writeDocument(c)
    BY <2>4, <2>u DEF writeDocument
  <2>5. CASE deleteDocument(c)
    BY <2>5, <2>r DEF deleteDocument
  <2>6. CASE writeCategory(c)
    BY <2>6, <2>u DEF writeCategory
  <2>7. CASE deleteCategory(c)
    BY <2>7, <2>r DEF deleteCategory
  <2> QED
    BY <2>1, <2>2, <2>3, <2>4, <2>5, <2>6, <2>7
    DEF create, updateCategory, removeCategory, updateDocument, removeDocument, Accept,
        assertCategoryExists, countDocuments
<1> QED
  BY <1>1, LibraryTypeCorrect, PTL DEF Spec, DeletedIsFinal
=============================================================================
