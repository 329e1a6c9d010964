--------------------------- MODULE FileStore_proofs ---------------------------
(* Proofs about FileStore, for any number of files, requests, faults and deaths. *)
EXTENDS FileStore, TLAPS

USE FileAssumption DEF Original, Smaller

-----------------------------------------------------------------------------
(* The inductive invariant *)

\* What the stores hold of a file, by where its upload stands.
StoredSoFar(f) ==
  LET pc == upload[f].pc
  IN  /\ pc \in {"none", "row", "too large"} => fileRow[f] = "none" /\ object[f] = 0
      /\ pc \in {"look", "look again", "make", "put"} => fileRow[f] = "stored" /\ object[f] = 0
      /\ pc = "key" => fileRow[f] = "stored" /\ object[f] # 0
      /\ pc = "undo" => fileRow[f] = "stored" /\ (object[f] = 0 \/ "put" \in upload[f].unsure)
      /\ pc = "done" => fileRow[f] = "keyed" /\ object[f] # 0

\* What undoes an upload without a failure.
Excused(f) == upload[f].unfit \/ upload[f].raced

\* What has gone wrong with an upload so far.  One that comes too late to make the
\* bucket knows that another made it.
FailedSoFar(f) ==
  LET pc == upload[f].pc
  IN  /\ pc \in UploadPcs \ {"undo", "failed", "dead"} => upload[f].failures = 0
      /\ pc = "undo" => upload[f].failures = 1 \/ (upload[f].failures = 0 /\ Excused(f))
      /\ pc = "make" /\ bucket => upload[f].raced

\* Only stored files are answered, and only answered files are fetched.
AnswersAreStored ==
  \A b \in Batches : batch[b].answer = "files" => \A f \in batch[b].files : upload[f].pc = "done"
FetchesAnswered(v) ==
  fetch[v].pc # "none" => fetch[v].file \in Files /\ upload[fetch[v].file].pc = "done"

\* The length is that of the object while it is streamed, or the object has shrunk.
LengthKnown(v) ==
  fetch[v].pc = "stream" => fetch[v].shrunk \/ fetch[v].length = object[fetch[v].file]

Serves(v) ==
  /\ fetch[v].pc # "missing"
  /\ fetch[v].pc = "error" => fetch[v].failed
  /\ fetch[v].pc = "served" => fetch[v].shrunk \/ fetch[v].length = fetch[v].sent

\* The properties of one file.
Ghost(f) ==
  fileRow[f] # "none" /\ object[f] = 0 /\ upload[f].pc \in Ended =>
    \/ upload[f].pc = "dead" \/ "row" \in upload[f].unsure
    \/ upload[f].failures >= 2
    \/ upload[f].failures = 1 /\ Excused(f)
Orphan(f) == object[f] # 0 /\ fileRow[f] = "none" => "put" \in upload[f].unsure
Refused(f) == upload[f].pc = "failed" /\ upload[f].failures = 0 => Excused(f)

Fits(f) == StoredSoFar(f) /\ FailedSoFar(f) /\ Ghost(f) /\ Orphan(f) /\ Refused(f)

UploadsInv == \A f \in Files : Fits(f)
FetchesInv == \A v \in Visitors : FetchesAnswered(v) /\ LengthKnown(v) /\ Serves(v)

FileInv == FileTypeOK /\ UploadsInv /\ AnswersAreStored /\ FetchesInv

-----------------------------------------------------------------------------
LEMMA FileInitInv == FileInit => FileInv
<1> SUFFICES ASSUME FileInit PROVE FileInv
  OBVIOUS
<1> USE DEF FileInit, NoUpload, NoBatch, NoFetch, UploadPcs, Ended
<1>1. FileTypeOK
  BY DEF FileTypeOK
<1>2. UploadsInv
  BY DEF UploadsInv, Fits, StoredSoFar, FailedSoFar, Excused, Ghost, Orphan, Refused
<1>3. AnswersAreStored /\ FetchesInv
  BY DEF AnswersAreStored, FetchesInv, FetchesAnswered, LengthKnown, Serves
<1> QED
  BY <1>1, <1>2, <1>3 DEF FileInv

-----------------------------------------------------------------------------
(* What the steps do to the records: their fields one by one *)

UploadType == [pc : UploadPcs, unfit : BOOLEAN, failures : Nat, unsure : SUBSET UploadPcs, raced : BOOLEAN]
FetchType == [pc : {"none", "row", "info", "stream", "served", "missing", "error"},
              file : Files \cup {"none"}, length : {0, Smaller, Original},
              sent : {0, Smaller, Original}, failed : BOOLEAN, shrunk : BOOLEAN]
BatchType == [files : SUBSET Files, answer : {"none", "awaited", "files", "refused", "lost"}]

StoresTypeOK ==
  /\ fileRow \in [Files -> {"none", "stored", "keyed"}]
  /\ object \in [Files -> {0, Smaller, Original}]
  /\ bucket \in BOOLEAN

\* The type invariant by these names.
LEMMA TypesNamed ==
  FileTypeOK <=> /\ StoresTypeOK
                 /\ upload \in [Files -> UploadType] /\ batch \in [Batches -> BatchType]
                 /\ fetch \in [Visitors -> FetchType]
                 /\ faults \in 0..MaxFaults /\ deaths \in 0..MaxDeaths
BY DEF FileTypeOK, StoresTypeOK, UploadType, BatchType, FetchType

LEMMA TypesNamedNext ==
  FileTypeOK' <=> /\ StoresTypeOK'
                  /\ upload' \in [Files -> UploadType] /\ batch' \in [Batches -> BatchType]
                  /\ fetch' \in [Visitors -> FetchType]
                  /\ faults' \in 0..MaxFaults /\ deaths' \in 0..MaxDeaths
BY DEF FileTypeOK, StoresTypeOK, UploadType, BatchType, FetchType

LEMMA UploadAt ==
  ASSUME NEW u \in UploadType, NEW to \in UploadPcs
  PROVE  /\ [u EXCEPT !.pc = to] \in UploadType
         /\ [u EXCEPT !.pc = to].pc = to
         /\ [u EXCEPT !.pc = to].failures = u.failures
         /\ [u EXCEPT !.pc = to].unsure = u.unsure /\ [u EXCEPT !.pc = to].unfit = u.unfit
         /\ [u EXCEPT !.pc = to].raced = u.raced
BY DEF UploadType

LEMMA UploadRaced ==
  ASSUME NEW u \in UploadType
  PROVE  /\ [u EXCEPT !.raced = TRUE] \in UploadType
         /\ [u EXCEPT !.raced = TRUE].pc = u.pc
         /\ [u EXCEPT !.raced = TRUE].failures = u.failures
         /\ [u EXCEPT !.raced = TRUE].unsure = u.unsure /\ [u EXCEPT !.raced = TRUE].unfit = u.unfit
         /\ [u EXCEPT !.raced = TRUE].raced
BY DEF UploadType

LEMMA UploadFails ==
  ASSUME NEW u \in UploadType, NEW to \in UploadPcs
  PROVE  LET failed == [u EXCEPT !.pc = to, !.failures = @ + 1]
         IN  /\ failed \in UploadType
             /\ failed.pc = to /\ failed.failures = u.failures + 1
             /\ failed.unsure = u.unsure /\ failed.raced = u.raced /\ failed.unfit = u.unfit
<1> DEFINE moved == [u EXCEPT !.pc = to]
           failed == [moved EXCEPT !.failures = u.failures + 1]
<1>1. /\ moved \in UploadType /\ moved.pc = to /\ moved.failures = u.failures
      /\ moved.unsure = u.unsure /\ moved.raced = u.raced /\ moved.unfit = u.unfit
  BY UploadAt
<1>2. u.failures + 1 \in Nat
  BY DEF UploadType
<1>3. [u EXCEPT !.pc = to, !.failures = @ + 1] = failed
  BY DEF UploadType
<1> HIDE DEF moved
<1>4. /\ failed \in UploadType /\ failed.pc = to /\ failed.failures = u.failures + 1
      /\ failed.unsure = u.unsure /\ failed.raced = u.raced /\ failed.unfit = u.unfit
  BY <1>1, <1>2 DEF UploadType
<1> HIDE DEF failed
<1> QED
  BY <1>3, <1>4

LEMMA UploadUnsure ==
  ASSUME NEW u \in UploadType, NEW pc \in UploadPcs
  PROVE  LET unsure == [u EXCEPT !.unsure = @ \cup {pc}]
         IN  /\ unsure \in UploadType
             /\ unsure.pc = u.pc /\ unsure.failures = u.failures
             /\ unsure.unsure = u.unsure \cup {pc} /\ unsure.raced = u.raced /\ unsure.unfit = u.unfit
BY DEF UploadType

\* One upload goes on to its next statement.
LEMMA AdvanceFacts ==
  ASSUME FileTypeOK, NEW f \in Files, NEW from, NEW to \in UploadPcs, Advance(f, from, to)
  PROVE  /\ upload' \in [Files -> UploadType]
         /\ upload[f].pc = from /\ upload'[f].pc = to
         /\ upload'[f].failures = upload[f].failures
         /\ upload'[f].unsure = upload[f].unsure /\ upload'[f].raced = upload[f].raced
         /\ upload'[f].unfit = upload[f].unfit
         /\ \A g \in Files \ {f} : upload'[g] = upload[g]
         /\ UNCHANGED <<batch, fetch, faults, deaths>>
<1>1. upload \in [Files -> UploadType] /\ upload[f] \in UploadType
  BY TypesNamed
<1>2. upload' = [upload EXCEPT ![f] = [upload[f] EXCEPT !.pc = to]]
  BY DEF Advance
<1> HIDE DEF UploadType
<1>3. upload'[f] = [upload[f] EXCEPT !.pc = to] /\ \A g \in Files \ {f} : upload'[g] = upload[g]
  BY <1>1, <1>2
<1> QED
  BY <1>1, <1>2, <1>3, UploadAt DEF Advance

\* Where it comes from and where it goes.
LEMMA AdvancePc ==
  ASSUME FileTypeOK, NEW f \in Files, NEW from, NEW to, Advance(f, from, to)
  PROVE  upload[f].pc = from /\ upload'[f].pc = to
<1>1. upload \in [Files -> UploadType] /\ upload[f] \in UploadType
  BY TypesNamed
<1>2. upload'[f] = [upload[f] EXCEPT !.pc = to]
  BY <1>1 DEF Advance
<1> QED
  BY <1>1, <1>2 DEF Advance, UploadType

\* The bucket appears under the uploads that have not seen it.
LEMMA BucketMadeFacts ==
  ASSUME FileTypeOK, NEW f \in Files, NEW u \in UploadType, upload' = BucketMade(f, u)
  PROVE  /\ upload' \in [Files -> UploadType] /\ upload'[f] = u
         /\ \A g \in Files \ {f} :
              /\ upload'[g].pc = upload[g].pc
              /\ upload'[g].failures = upload[g].failures /\ upload'[g].unsure = upload[g].unsure
              /\ upload'[g].unfit = upload[g].unfit
              /\ upload[g].raced \/ upload[g].pc \in {"look again", "make"} => upload'[g].raced
<1>1. upload \in [Files -> UploadType]
  BY TypesNamed
<1> HIDE DEF UploadType
<1>2. upload' \in [Files -> UploadType] /\ upload'[f] = u
  BY <1>1, UploadRaced DEF BucketMade
<1>3. ASSUME NEW g \in Files \ {f}
      PROVE  /\ upload'[g].pc = upload[g].pc
             /\ upload'[g].failures = upload[g].failures /\ upload'[g].unsure = upload[g].unsure
             /\ upload'[g].unfit = upload[g].unfit
             /\ upload[g].raced \/ upload[g].pc \in {"look again", "make"} => upload'[g].raced
  <2>1. CASE upload[g].pc \in {"look again", "make"}
    BY <1>1, <2>1, UploadRaced DEF BucketMade
  <2>2. CASE upload[g].pc \notin {"look again", "make"}
    BY <1>1, <2>2 DEF BucketMade
  <2> QED
    BY <2>1, <2>2
<1> QED
  BY <1>2, <1>3

-----------------------------------------------------------------------------
(* The statements of an upload *)

\* The other files keep what they have.
LEMMA FitsStays ==
  ASSUME NEW g \in Files, Fits(g), upload'[g] = upload[g], fileRow'[g] = fileRow[g],
         object'[g] = object[g], bucket' = bucket
  PROVE  Fits(g)'
BY DEF Fits, StoredSoFar, FailedSoFar, Excused, Ghost, Orphan, Refused

\* What a statement of an upload leaves as it is.
Undisturbed ==
  /\ UNCHANGED <<batch, fetch, deaths>>
  /\ \A g \in Files : upload[g].pc = "done" => upload'[g].pc = "done" /\ object'[g] = object[g]

LEMMA StatementSucceeds ==
  ASSUME FileTypeOK, UploadsInv, NEW f \in Files,
         createRow(f) \/ look(f) \/ lookAgain(f) \/ loseBucket(f) \/ putObject(f) \/ writeKey(f) \/ deleteRow(f)
  PROVE  FileTypeOK' /\ UploadsInv' /\ Undisturbed
<1>1. PICK from \in UploadPcs \ Ended, to \in UploadPcs : Advance(f, from, to)
  BY DEF createRow, validated, look, lookAgain, loseBucket, putObject, writeKey, deleteRow, UploadPcs, Ended
<1>2. /\ upload' \in [Files -> UploadType] /\ upload[f].pc = from /\ upload'[f].pc = to
      /\ upload'[f].failures = upload[f].failures
      /\ upload'[f].unsure = upload[f].unsure /\ upload'[f].raced = upload[f].raced
      /\ upload'[f].unfit = upload[f].unfit
      /\ \A g \in Files \ {f} : upload'[g] = upload[g]
      /\ UNCHANGED <<batch, fetch, faults, deaths>>
  BY <1>1, AdvanceFacts
<1>3. StoresTypeOK' /\ bucket' = bucket
      /\ \A g \in Files \ {f} : fileRow'[g] = fileRow[g] /\ object'[g] = object[g]
  BY TypesNamed DEF StoresTypeOK, createRow, look, lookAgain, loseBucket, putObject, writeKey, deleteRow, stores
<1>4. FileTypeOK'
  BY <1>2, <1>3, TypesNamed, TypesNamedNext
<1>5. LET Goes(a, b) == upload[f].pc = a /\ upload'[f].pc = b
      IN  \/ /\ Goes("row", "look") \/ (Goes("row", "undo") /\ upload[f].unfit)
             /\ fileRow'[f] = "stored" /\ object'[f] = object[f]
          \/ Goes("put", "key") /\ fileRow'[f] = fileRow[f] /\ object'[f] = Original
          \/ Goes("key", "done") /\ fileRow'[f] = "keyed" /\ object'[f] = object[f]
          \/ Goes("undo", "failed") /\ fileRow'[f] = "none" /\ object'[f] = object[f]
          \/ /\ fileRow'[f] = fileRow[f] /\ object'[f] = object[f]
             /\ \/ Goes("look", "put") \/ Goes("look", "look again") \/ Goes("look again", "put")
                \/ ~bucket /\ Goes("look again", "make")
                \/ bucket /\ Goes("make", "undo")
  <2>0. fileRow \in [Files -> {"none", "stored", "keyed"}] /\ object \in [Files -> {0, 1, 2}]
    BY DEF FileTypeOK
  <2>1. CASE createRow(f)
    <3>1. Advance(f, "row", validated(f)) BY <2>1 DEF createRow
    <3>2. validated(f) \in {"look", "undo"} /\ (validated(f) = "undo" => upload[f].unfit) BY DEF validated
    <3>3. upload[f].pc = "row" /\ upload'[f].pc = validated(f) BY <3>1, <3>2, AdvancePc
    <3> QED
      BY <2>0, <2>1, <3>2, <3>3 DEF createRow
  <2>2. CASE look(f) /\ bucket
    <3>1. Advance(f, "look", "put") BY <2>2 DEF look
    <3>2. upload[f].pc = "look" /\ upload'[f].pc = "put" BY <3>1, AdvancePc
    <3> QED
      BY <2>0, <2>2, <3>2 DEF look, stores
  <2>3. CASE look(f) /\ ~bucket
    <3>1. Advance(f, "look", "look again") BY <2>3 DEF look
    <3>2. upload[f].pc = "look" /\ upload'[f].pc = "look again" BY <3>1, AdvancePc
    <3> QED
      BY <2>0, <2>3, <3>2 DEF look, stores
  <2>4. CASE lookAgain(f) /\ bucket
    <3>1. Advance(f, "look again", "put") BY <2>4 DEF lookAgain
    <3>2. upload[f].pc = "look again" /\ upload'[f].pc = "put" BY <3>1, AdvancePc
    <3> QED
      BY <2>0, <2>4, <3>2 DEF lookAgain, stores
  <2>5. CASE lookAgain(f) /\ ~bucket
    <3>1. Advance(f, "look again", "make") BY <2>5 DEF lookAgain
    <3>2. upload[f].pc = "look again" /\ upload'[f].pc = "make" BY <3>1, AdvancePc
    <3> QED
      BY <2>0, <2>5, <3>2 DEF lookAgain, stores
  <2>6. CASE loseBucket(f)
    <3>1. Advance(f, "make", "undo") BY <2>6 DEF loseBucket
    <3>2. upload[f].pc = "make" /\ upload'[f].pc = "undo" BY <3>1, AdvancePc
    <3> QED
      BY <2>0, <2>6, <3>2 DEF loseBucket, stores
  <2>7. CASE putObject(f)
    <3>1. Advance(f, "put", "key") BY <2>7 DEF putObject
    <3>2. upload[f].pc = "put" /\ upload'[f].pc = "key" BY <3>1, AdvancePc
    <3> QED
      BY <2>0, <2>7, <3>2 DEF putObject
  <2>8. CASE writeKey(f)
    <3>1. Advance(f, "key", "done") BY <2>8 DEF writeKey
    <3>2. upload[f].pc = "key" /\ upload'[f].pc = "done" BY <3>1, AdvancePc
    <3> QED
      BY <2>0, <2>8, <3>2 DEF writeKey
  <2>9. CASE deleteRow(f)
    <3>1. Advance(f, "undo", "failed") BY <2>9 DEF deleteRow
    <3>2. upload[f].pc = "undo" /\ upload'[f].pc = "failed" BY <3>1, AdvancePc
    <3> QED
      BY <2>0, <2>9, <3>2 DEF deleteRow
  <2> QED
    BY <2>1, <2>2, <2>3, <2>4, <2>5, <2>6, <2>7, <2>8, <2>9
<1>8. Fits(f)'
  <2>1. Fits(f) /\ upload[f].failures \in Nat
    BY TypesNamed DEF UploadsInv, UploadType
  <2>2. /\ upload'[f].failures = upload[f].failures /\ upload'[f].unsure = upload[f].unsure
        /\ upload'[f].raced = upload[f].raced /\ upload'[f].unfit = upload[f].unfit
        /\ bucket' = bucket
    BY <1>2, <1>3
  <2>3. StoredSoFar(f)'
    <3>1. CASE upload'[f].pc = "look"
      BY <1>5, <2>1, <2>2, <3>1 DEF Fits, StoredSoFar
    <3>2. CASE upload'[f].pc = "key"
      <4>1. upload[f].pc = "put" /\ fileRow'[f] = fileRow[f] /\ object'[f] = 2
        BY <1>5, <3>2
      <4>2. fileRow[f] = "stored"
        BY <2>1, <4>1 DEF Fits, StoredSoFar
      <4> QED
        BY <3>2, <4>1, <4>2 DEF StoredSoFar
    <3>3. CASE upload'[f].pc = "done"
      <4>1. upload[f].pc = "key" /\ fileRow'[f] = "keyed" /\ object'[f] = object[f]
        BY <1>5, <3>3
      <4>2. object[f] # 0
        BY <2>1, <4>1 DEF Fits, StoredSoFar
      <4> QED
        BY <3>3, <4>1, <4>2 DEF StoredSoFar
    <3>4. CASE upload'[f].pc = "failed"
      BY <1>5, <2>1, <2>2, <3>4 DEF Fits, StoredSoFar
    <3>5. CASE upload'[f].pc \in {"put", "look again", "make", "undo"}
      BY <1>5, <2>1, <2>2, <3>5 DEF Fits, StoredSoFar
    <3> QED
      BY <1>5, <3>1, <3>2, <3>3, <3>4, <3>5
  <2>4. FailedSoFar(f)'
    <3>1. Excused(f)' <=> Excused(f)
      BY <2>2 DEF Excused
    <3>2. CASE upload'[f].pc = "undo"
      <4>1. \/ upload[f].pc = "row" /\ upload[f].unfit
            \/ upload[f].pc = "make" /\ bucket
        BY <1>5, <3>2
      <4>2. upload[f].failures = 0 /\ Excused(f)
        BY <2>1, <4>1 DEF Fits, Excused, FailedSoFar, UploadPcs
      <4> QED
        BY <2>2, <3>1, <3>2, <4>2 DEF FailedSoFar
    <3>3. CASE upload'[f].pc # "undo" /\ upload'[f].pc \in UploadPcs \ {"failed", "dead"}
      <4>1. upload[f].pc \in UploadPcs \ {"undo", "failed", "dead"}
        BY <1>5, <3>3 DEF UploadPcs, Ended
      <4>2. upload'[f].failures = 0
        BY <2>1, <2>2, <4>1 DEF Fits, FailedSoFar
      <4>3. upload'[f].pc = "make" => ~bucket'
        BY <1>5, <2>2, <3>3
      <4> QED
        BY <3>3, <4>2, <4>3 DEF FailedSoFar
    <3>4. CASE upload'[f].pc \notin UploadPcs \ {"failed", "dead"}
      BY <3>4 DEF FailedSoFar, UploadPcs, Ended
    <3> QED
      BY <3>2, <3>3, <3>4
  <2>5. Ghost(f)' /\ Orphan(f)' /\ Refused(f)'
    <3>1. CASE upload'[f].pc = "look"
      BY <1>5, <2>1, <2>2, <3>1 DEF Fits, StoredSoFar, FailedSoFar, Excused, Ghost, Orphan, Refused, UploadPcs, Ended
    <3>2. CASE upload'[f].pc = "key"
      BY <1>5, <2>1, <2>2, <3>2 DEF Fits, StoredSoFar, FailedSoFar, Excused, Ghost, Orphan, Refused, UploadPcs, Ended
    <3>3. CASE upload'[f].pc = "done"
      BY <1>5, <2>1, <2>2, <3>3 DEF Fits, StoredSoFar, FailedSoFar, Excused, Ghost, Orphan, Refused, UploadPcs, Ended
    <3>4. CASE upload'[f].pc = "failed"
      <4>1. upload[f].pc = "undo" /\ fileRow'[f] = "none" /\ object'[f] = object[f]
        BY <1>5, <3>4
      <4>2. /\ object[f] = 0 \/ "put" \in upload[f].unsure
            /\ upload[f].failures = 1 \/ Excused(f)
        BY <2>1, <4>1 DEF Fits, StoredSoFar, FailedSoFar, Excused
      <4>3. Excused(f)' <=> Excused(f)
        BY <2>2 DEF Excused
      <4>4. Ghost(f)'
        BY <4>1 DEF Ghost
      <4>5. Orphan(f)'
        BY <2>2, <4>1, <4>2 DEF Orphan
      <4>6. Refused(f)'
        BY <2>2, <4>2, <4>3 DEF Refused
      <4> QED
        BY <4>4, <4>5, <4>6
    <3>5. CASE upload'[f].pc \in {"put", "look again", "make", "undo"}
      BY <1>5, <2>1, <2>2, <3>5 DEF Fits, StoredSoFar, FailedSoFar, Excused, Ghost, Orphan, Refused, UploadPcs, Ended
    <3> QED
      BY <1>5, <3>1, <3>2, <3>3, <3>4, <3>5
  <2> QED
    BY <2>3, <2>4, <2>5 DEF Fits
<1>6. \A g \in Files \ {f} : Fits(g)'
  BY <1>2, <1>3, FitsStays DEF UploadsInv
<1>7. upload[f].pc # "done"
  BY <1>1, <1>2 DEF Ended
<1> QED
  BY <1>2, <1>3, <1>4, <1>6, <1>7, <1>8 DEF UploadsInv, Undisturbed

\* The other uploads fit when the bucket appears.
LEMMA FitsBeside ==
  ASSUME NEW g \in Files, Fits(g), fileRow'[g] = fileRow[g], object'[g] = object[g],
         upload'[g].pc = upload[g].pc, upload'[g].failures = upload[g].failures,
         upload'[g].unsure = upload[g].unsure, upload'[g].unfit = upload[g].unfit,
         upload[g].raced \/ upload[g].pc \in {"look again", "make"} => upload'[g].raced
  PROVE  Fits(g)'
<1>1. StoredSoFar(g)'
  BY DEF Fits, StoredSoFar
<1>2. FailedSoFar(g)'
  BY DEF Fits, Excused, FailedSoFar
<1>3. Ghost(g)' /\ Orphan(g)' /\ Refused(g)'
  BY DEF Fits, Excused, Ghost, Orphan, Refused
<1> QED
  BY <1>1, <1>2, <1>3 DEF Fits

LEMMA BucketIsMade ==
  ASSUME FileTypeOK, UploadsInv, NEW f \in Files, makeBucket(f)
  PROVE  FileTypeOK' /\ UploadsInv' /\ Undisturbed
<1> DEFINE u == [upload[f] EXCEPT !.pc = "put"]
<1>1. upload[f] \in UploadType /\ upload[f].pc = "make"
  BY TypesNamed DEF makeBucket
<1>2. u \in UploadType /\ u.pc = "put" /\ u.failures = upload[f].failures
  BY <1>1, UploadAt DEF UploadPcs
<1>3. upload' = BucketMade(f, u) /\ UNCHANGED <<fileRow, object, batch, fetch, faults, deaths>> /\ bucket'
  BY DEF makeBucket
<1> HIDE DEF u
<1>4. /\ upload' \in [Files -> UploadType] /\ upload'[f] = u
      /\ \A g \in Files \ {f} :
           /\ upload'[g].pc = upload[g].pc
           /\ upload'[g].failures = upload[g].failures /\ upload'[g].unsure = upload[g].unsure
           /\ upload'[g].unfit = upload[g].unfit
           /\ upload[g].raced \/ upload[g].pc \in {"look again", "make"} => upload'[g].raced
  BY <1>2, <1>3, BucketMadeFacts
<1>5. FileTypeOK'
  BY <1>3, <1>4, TypesNamed, TypesNamedNext DEF StoresTypeOK, makeBucket
<1>6. Fits(f)'
  BY <1>1, <1>2, <1>3, <1>4 DEF UploadsInv, Fits, StoredSoFar, FailedSoFar, Excused, Ghost, Orphan, Refused, UploadPcs, Ended
<1>7. ASSUME NEW g \in Files \ {f} PROVE Fits(g)'
  BY <1>3, <1>4, FitsBeside DEF UploadsInv
<1> QED
  BY <1>1, <1>2, <1>3, <1>4, <1>5, <1>6, <1>7 DEF UploadsInv, Undisturbed

\* A statement of an upload fails: what has become of it and of the stores.
LEMMA StatementFails ==
  ASSUME FileTypeOK, UploadsInv, NEW f \in Files, failUpload(f)
  PROVE  FileTypeOK' /\ UploadsInv' /\ Undisturbed
<1> DEFINE pc == upload[f].pc
           to == AfterFailure(pc)
           failed == [upload[f] EXCEPT !.pc = to, !.failures = @ + 1]
           unsure == [failed EXCEPT !.unsure = @ \cup {pc}]
<1>1. upload[f] \in UploadType /\ pc \in UploadPcs /\ to \in {"failed", "undo"} /\ to \in UploadPcs
  BY TypesNamed DEF UploadType, AfterFailure, UploadPcs, Ended
<1>2. /\ failed \in UploadType /\ failed.pc = to /\ failed.failures = upload[f].failures + 1
      /\ failed.unsure = upload[f].unsure /\ failed.raced = upload[f].raced /\ failed.unfit = upload[f].unfit
  BY <1>1, UploadFails
<1>3. UNCHANGED <<batch, fetch, deaths>> /\ faults' \in 0..MaxFaults
  <2>1. UNCHANGED <<batch, fetch, deaths>> /\ faults < MaxFaults /\ faults' = faults + 1
    BY DEF failUpload
  <2> QED
    BY <2>1, TypesNamed
<1>4. /\ unsure \in UploadType /\ unsure.pc = to /\ unsure.failures = upload[f].failures + 1
      /\ unsure.unsure = upload[f].unsure \cup {pc} /\ unsure.raced = upload[f].raced
      /\ unsure.unfit = upload[f].unfit
  <2> HIDE DEF failed
  <2> QED
    BY <1>1, <1>2, UploadUnsure
\* the four ways to fail, without the records
<1>5. \/ /\ pc \in {"row", "look", "look again", "make", "put", "key", "undo"}
         /\ upload' = [upload EXCEPT ![f] = failed]
         /\ UNCHANGED stores
      \/ /\ pc \in {"row", "key", "undo"}
         /\ fileRow' = [fileRow EXCEPT ![f] = IF pc = "row" THEN "stored"
                                             ELSE IF pc = "key" THEN "keyed" ELSE "none"]
         /\ upload' = [upload EXCEPT ![f] = unsure]
         /\ UNCHANGED <<object, bucket>>
      \/ /\ pc = "put"
         /\ object' = [object EXCEPT ![f] = Original]
         /\ upload' = [upload EXCEPT ![f] = unsure]
         /\ UNCHANGED <<fileRow, bucket>>
      \/ /\ pc = "make" /\ ~bucket
         /\ bucket' = TRUE
         /\ upload' = BucketMade(f, failed)
         /\ UNCHANGED <<fileRow, object>>
  BY DEF failUpload
<1> HIDE DEF failed, unsure
<1>6. /\ upload \in [Files -> UploadType] /\ fileRow \in [Files -> {"none", "stored", "keyed"}]
      /\ object \in [Files -> {0, 1, 2}] /\ bucket \in BOOLEAN /\ upload[f].failures \in Nat /\ Fits(f)
  BY TypesNamed DEF StoresTypeOK, UploadType, UploadsInv
\* f itself: what it had done says in which of the ways its stores may be wrong
<1>7. ASSUME upload'[f].pc = to, upload'[f].failures = upload[f].failures + 1,
             upload'[f].raced = upload[f].raced, upload'[f].unfit = upload[f].unfit,
             \/ /\ pc \in {"row", "look", "look again", "make", "put", "key", "undo"}
                /\ fileRow'[f] = fileRow[f] /\ object'[f] = object[f]
                /\ upload'[f].unsure = upload[f].unsure
             \/ /\ pc \in {"row", "key", "undo", "put"}
                /\ upload'[f].unsure = upload[f].unsure \cup {pc}
                /\ fileRow'[f] = CASE pc = "row" -> "stored" [] pc = "key" -> "keyed"
                                   [] pc = "undo" -> "none" [] pc = "put" -> fileRow[f]
                /\ object'[f] = IF pc = "put" THEN 2 ELSE object[f]
      PROVE  Fits(f)'
  <2>0. upload'[f].failures = upload[f].failures + 1
    BY <1>7
  <2>1. to = IF pc \in {"row", "key", "undo"} THEN "failed" ELSE "undo"
    BY DEF AfterFailure
  <2>2. StoredSoFar(f) /\ FailedSoFar(f)
    BY <1>6 DEF Fits
  <2>3. CASE pc = "row"
    <3>1. object'[f] = 0 /\ (fileRow'[f] = "none" \/ "row" \in upload'[f].unsure) /\ upload'[f].failures = 1
      BY <1>6, <1>7, <2>2, <2>3 DEF StoredSoFar, FailedSoFar, Excused, UploadPcs, Ended
    <3> QED
      BY <1>7, <2>1, <2>3, <3>1 DEF Fits, StoredSoFar, FailedSoFar, Excused, Ghost, Orphan, Refused, UploadPcs, Ended
  <2>4. CASE pc \in {"look", "look again", "make"}
    <3>1. object'[f] = 0 /\ fileRow'[f] = "stored" /\ upload'[f].failures = 1
      <4>1. fileRow[f] = "stored" /\ object[f] = 0 /\ upload[f].failures = 0
        BY <2>2, <2>4 DEF StoredSoFar, FailedSoFar, Excused, UploadPcs, Ended
      <4>2. fileRow'[f] = fileRow[f] /\ object'[f] = object[f]
        BY <1>7, <2>4
      <4> QED
        BY <2>0, <4>1, <4>2
    <3> QED
      BY <1>7, <2>1, <2>4, <3>1 DEF Fits, StoredSoFar, FailedSoFar, Excused, Ghost, Orphan, Refused, UploadPcs, Ended
  <2>5. CASE pc = "put"
    <3>1. /\ object'[f] = 0 \/ "put" \in upload'[f].unsure
          /\ fileRow'[f] = "stored" /\ upload'[f].failures = 1
      <4>1. fileRow[f] = "stored" /\ object[f] = 0 /\ upload[f].failures = 0
        BY <2>2, <2>5 DEF StoredSoFar, FailedSoFar, Excused, UploadPcs, Ended
      <4>2. fileRow'[f] = fileRow[f]
        BY <1>7, <2>5
      <4>3. object'[f] = object[f] \/ upload'[f].unsure = upload[f].unsure \cup {"put"}
        BY <1>7, <2>5
      <4>4. upload'[f].failures = 1
        BY <2>0, <4>1
      <4> QED
        BY <4>1, <4>2, <4>3, <4>4
    <3> QED
      BY <1>7, <2>1, <2>5, <3>1 DEF Fits, StoredSoFar, FailedSoFar, Excused, Ghost, Orphan, Refused, UploadPcs, Ended
  <2>6. CASE pc = "key"
    <3>1. object'[f] # 0 /\ fileRow'[f] # "none" /\ upload'[f].failures = 1
      BY <1>6, <1>7, <2>2, <2>6 DEF StoredSoFar, FailedSoFar, Excused, UploadPcs, Ended
    <3> QED
      BY <1>7, <2>1, <2>6, <3>1 DEF Fits, StoredSoFar, FailedSoFar, Excused, Ghost, Orphan, Refused, UploadPcs, Ended
  <2>7. CASE pc = "undo"
    <3>1. /\ object'[f] = 0 \/ "put" \in upload'[f].unsure
          /\ upload'[f].failures = 2 \/ (upload'[f].failures = 1 /\ Excused(f)')
      BY <1>6, <1>7, <2>2, <2>7 DEF StoredSoFar, FailedSoFar, Excused, UploadPcs, Ended
    <3> QED
      BY <1>7, <2>1, <2>7, <3>1 DEF Fits, StoredSoFar, FailedSoFar, Excused, Ghost, Orphan, Refused, UploadPcs, Ended
  <2> QED
    BY <1>7, <2>3, <2>4, <2>5, <2>6, <2>7
<1>8. CASE pc \in {"row", "look", "look again", "make", "put", "key", "undo"}
           /\ upload' = [upload EXCEPT ![f] = failed] /\ UNCHANGED stores
  <2>1. /\ upload' \in [Files -> UploadType] /\ upload'[f] = failed
        /\ \A g \in Files \ {f} : upload'[g] = upload[g]
    BY <1>2, <1>6, <1>8
  <2>2. Fits(f)'
    BY <1>2, <1>7, <1>8, <2>1 DEF stores
  <2> QED
    BY <1>3, <1>6, <1>8, <2>1, <2>2, FitsStays, TypesNamed, TypesNamedNext
    DEF UploadsInv, Undisturbed, stores, StoresTypeOK
<1>9. CASE pc \in {"row", "key", "undo", "put"} /\ upload' = [upload EXCEPT ![f] = unsure] /\ bucket' = bucket
           /\ fileRow' = [fileRow EXCEPT ![f] = CASE pc = "row" -> "stored" [] pc = "key" -> "keyed"
                                   [] pc = "undo" -> "none" [] pc = "put" -> fileRow[f]]
           /\ object' = [object EXCEPT ![f] = IF pc = "put" THEN 2 ELSE object[f]]
  <2>1. /\ upload' \in [Files -> UploadType] /\ upload'[f] = unsure
        /\ \A g \in Files \ {f} : upload'[g] = upload[g] /\ fileRow'[g] = fileRow[g] /\ object'[g] = object[g]
    BY <1>4, <1>6, <1>9
  <2>2. /\ fileRow'[f] = CASE pc = "row" -> "stored" [] pc = "key" -> "keyed"
                                   [] pc = "undo" -> "none" [] pc = "put" -> fileRow[f]
        /\ object'[f] = IF pc = "put" THEN 2 ELSE object[f]
    BY <1>6, <1>9
  <2>3. Fits(f)'
    BY <1>4, <1>7, <1>9, <2>1, <2>2
  <2>4. FileTypeOK'
    BY <1>3, <1>6, <1>9, <2>1, TypesNamed, TypesNamedNext DEF StoresTypeOK
  <2> QED
    BY <1>3, <1>6, <1>9, <2>1, <2>2, <2>3, <2>4, FitsStays DEF UploadsInv, Undisturbed
<1>10. CASE pc = "make" /\ ~bucket /\ bucket' = TRUE /\ upload' = BucketMade(f, failed)
            /\ UNCHANGED <<fileRow, object>>
  <2>1. /\ upload' \in [Files -> UploadType] /\ upload'[f] = failed
        /\ \A g \in Files \ {f} :
             /\ upload'[g].pc = upload[g].pc
             /\ upload'[g].failures = upload[g].failures /\ upload'[g].unsure = upload[g].unsure
             /\ upload'[g].unfit = upload[g].unfit
             /\ upload[g].raced \/ upload[g].pc \in {"look again", "make"} => upload'[g].raced
    BY <1>2, <1>10, BucketMadeFacts
  <2>2. Fits(f)'
    BY <1>2, <1>7, <1>10, <2>1
  <2>3. \A g \in Files \ {f} : Fits(g)'
    BY <1>10, <2>1, FitsBeside DEF UploadsInv
  <2>4. FileTypeOK'
    BY <1>3, <1>6, <1>10, <2>1, TypesNamed, TypesNamedNext DEF StoresTypeOK
  <2> QED
    BY <1>3, <1>10, <2>1, <2>2, <2>3, <2>4 DEF UploadsInv, Undisturbed
<1> QED
  <2>1. ASSUME pc \in {"row", "key", "undo"},
               fileRow' = [fileRow EXCEPT ![f] = IF pc = "row" THEN "stored"
                                             ELSE IF pc = "key" THEN "keyed" ELSE "none"],
               upload' = [upload EXCEPT ![f] = unsure], UNCHANGED <<object, bucket>>
        PROVE  FileTypeOK' /\ UploadsInv' /\ Undisturbed
    BY <1>6, <1>9, <2>1
  <2>2. ASSUME pc = "put", object' = [object EXCEPT ![f] = Original],
               upload' = [upload EXCEPT ![f] = unsure], UNCHANGED <<fileRow, bucket>>
        PROVE  FileTypeOK' /\ UploadsInv' /\ Undisturbed
    BY <1>6, <1>9, <2>2
  <2> QED
    BY <1>5, <1>8, <1>10, <2>1, <2>2

-----------------------------------------------------------------------------
(* The steps *)

\* A statement of an upload touches no answer and nothing that is fetched.
LEMMA UndisturbedKeeps ==
  ASSUME FileInv, Undisturbed
  PROVE  AnswersAreStored' /\ FetchesInv'
<1>1. batch' = batch /\ fetch' = fetch
  BY DEF Undisturbed
<1>2. \A b \in Batches : batch[b].files \subseteq Files
  BY TypesNamed DEF FileInv, BatchType
<1>3. AnswersAreStored'
  BY <1>1, <1>2 DEF FileInv, AnswersAreStored, Undisturbed
<1>4. ASSUME NEW v \in Visitors PROVE (FetchesAnswered(v) /\ LengthKnown(v) /\ Serves(v))'
  <2>1. fetch[v].pc # "none" => /\ fetch[v].file \in Files /\ upload'[fetch[v].file].pc = "done"
                                /\ object'[fetch[v].file] = object[fetch[v].file]
    BY DEF FileInv, FetchesInv, FetchesAnswered, Undisturbed
  <2>2. FetchesAnswered(v) /\ LengthKnown(v) /\ Serves(v)
    BY DEF FileInv, FetchesInv
  <2> QED
    BY <1>1, <2>1, <2>2 DEF FetchesAnswered, LengthKnown, Serves
<1> QED
  BY <1>3, <1>4 DEF FetchesInv

LEMMA StepKeeps ==
  ASSUME FileInv, NEW f \in Files, Step(f)
  PROVE  FileInv'
BY StatementSucceeds, BucketIsMade, StatementFails, UndisturbedKeeps DEF Step, FileInv

\* Nothing that Fits speaks of changes.
LEMMA FitsKept ==
  ASSUME UploadsInv, UNCHANGED <<stores, upload>>
  PROVE  UploadsInv'
BY FitsStays DEF UploadsInv, stores

LEMMA PostKeeps ==
  ASSUME FileInv, NEW b \in Batches, NEW S \in SUBSET Files, post(b, S)
  PROVE  FileInv'
<1>1. PICK large \in SUBSET S, unfit \in SUBSET S :
        upload' = [f \in Files |-> IF f \in S
                     THEN [NoUpload EXCEPT !.pc = IF f \in large THEN "too large" ELSE "row",
                                           !.unfit = f \in unfit]
                     ELSE upload[f]]
  BY DEF post
<1>2. /\ batch[b] = NoBatch /\ \A f \in S : upload[f] = NoUpload
      /\ batch' = [batch EXCEPT ![b] = [files |-> S, answer |-> "awaited"]]
      /\ UNCHANGED <<stores, fetch, faults, deaths>>
  BY DEF post
<1>3. /\ upload \in [Files -> UploadType] /\ batch \in [Batches -> BatchType]
      /\ NoUpload \in UploadType /\ NoUpload.pc = "none"
  BY TypesNamed DEF FileInv, NoUpload, UploadType, UploadPcs
<1>4. ASSUME NEW f \in Files
      PROVE  /\ upload'[f] \in UploadType
             /\ f \in S => /\ upload'[f].pc \in {"row", "too large"} /\ upload'[f].failures = 0
                           /\ upload[f].pc = "none"
             /\ f \notin S => upload'[f] = upload[f]
  <2> DEFINE to == IF f \in large THEN "too large" ELSE "row"
             bad == f \in unfit
             u == [NoUpload EXCEPT !.pc = to, !.unfit = bad]
  <2>1. to \in UploadPcs /\ to \in {"row", "too large"}
    BY DEF UploadPcs, Ended
  <2>6. bad \in BOOLEAN
    OBVIOUS
  <2> HIDE DEF to, bad
  <2>2. u \in UploadType /\ u.pc = to /\ u.failures = NoUpload.failures
    BY <1>3, <2>1, <2>6 DEF UploadType
  <2>3. NoUpload.failures = 0
    BY DEF NoUpload
  <2>4. f \in S => upload'[f] = u
    BY <1>1 DEF to, bad
  <2>5. f \notin S => upload'[f] = upload[f]
    BY <1>1
  <2> HIDE DEF u
  <2> QED
    BY <1>2, <1>3, <2>1, <2>2, <2>3, <2>4, <2>5
<1>5. FileTypeOK'
  <2>1. upload' \in [Files -> UploadType]
    <3> HIDE DEF UploadType
    <3> QED BY <1>1, <1>4
  <2>2. batch' \in [Batches -> BatchType]
    BY <1>2, <1>3 DEF BatchType
  <2> QED
    BY <1>2, <2>1, <2>2, TypesNamed, TypesNamedNext DEF FileInv, StoresTypeOK, stores
<1>6. UploadsInv'
  <2>1. ASSUME NEW f \in S PROVE Fits(f)'
    <3>1. fileRow'[f] = "none" /\ object'[f] = 0
      BY <1>2, <1>4 DEF FileInv, UploadsInv, Fits, StoredSoFar, stores
    <3>2. upload'[f].pc \in {"row", "too large"} /\ upload'[f].failures = 0
      BY <1>4
    <3> QED
      BY <3>1, <3>2 DEF Fits, StoredSoFar, FailedSoFar, Excused, Ghost, Orphan, Refused
  <2>2. ASSUME NEW f \in Files \ S PROVE Fits(f)'
    BY <1>2, <1>4, FitsStays DEF FileInv, UploadsInv, stores
  <2> QED
    BY <2>1, <2>2 DEF UploadsInv
<1>7. \A f \in Files : upload[f].pc = "done" => upload'[f].pc = "done"
  BY <1>4
<1>8. AnswersAreStored'
  <2>1. \A c \in Batches : batch[c].files \subseteq Files
    BY <1>3 DEF BatchType
  <2>2. \A c \in Batches \ {b} : batch'[c] = batch[c]
    BY <1>2, <1>3
  <2>3. batch'[b].answer = "awaited"
    BY <1>2, <1>3
  <2> QED
    BY <1>7, <2>1, <2>2, <2>3 DEF FileInv, AnswersAreStored
<1>9. FetchesInv'
  <2>1. fetch' = fetch /\ object' = object
    BY <1>2 DEF stores
  <2> QED
    BY <1>7, <2>1 DEF FileInv, FetchesInv, FetchesAnswered, LengthKnown, Serves
<1> QED
  BY <1>5, <1>6, <1>8, <1>9 DEF FileInv

LEMMA AnswerKeeps ==
  ASSUME FileInv, NEW b \in Batches, answerFiles(b) \/ refuse(b)
  PROVE  FileInv'
<1>1. PICK answer \in {"files", "refused"} : Answer(b, answer) /\ (answer = "files" => AllDone(b))
  BY DEF answerFiles, refuse
<1>2. batch \in [Batches -> BatchType] /\ UNCHANGED <<stores, upload, fetch, faults, deaths>>
  BY <1>1, TypesNamed DEF FileInv, Answer
<1>3. /\ batch' \in [Batches -> BatchType]
      /\ batch'[b].answer = answer /\ batch'[b].files = batch[b].files
      /\ \A c \in Batches \ {b} : batch'[c] = batch[c]
  <2>1. batch' = [batch EXCEPT ![b] = [batch[b] EXCEPT !.answer = answer]]
    BY <1>1 DEF Answer
  <2>2. LET x == [batch[b] EXCEPT !.answer = answer]
        IN  x \in BatchType /\ x.answer = answer /\ x.files = batch[b].files
    BY <1>2 DEF BatchType
  <2> HIDE DEF BatchType
  <2> QED
    BY <1>2, <2>1, <2>2
<1>4. FileTypeOK'
  BY <1>2, <1>3, TypesNamed, TypesNamedNext DEF FileInv, StoresTypeOK, stores
<1>5. UploadsInv'
  BY <1>2, FitsKept DEF FileInv
<1>6. AnswersAreStored'
  BY <1>1, <1>2, <1>3 DEF FileInv, AnswersAreStored, AllDone
<1>7. FetchesInv'
  BY <1>2 DEF FileInv, FetchesInv, FetchesAnswered, LengthKnown, Serves, stores
<1> QED
  BY <1>4, <1>5, <1>6, <1>7 DEF FileInv

\* A fetch that goes on, to fields that fit, disturbs nothing else.
LEMMA TurnKeeps ==
  ASSUME FileInv, NEW v \in Visitors, NEW x \in FetchType, fetch' = [fetch EXCEPT ![v] = x],
         UNCHANGED <<stores, upload, batch, deaths>>, faults' \in 0..MaxFaults,
         x.pc # "none" => x.file \in Files /\ upload[x.file].pc = "done",
         x.pc = "stream" => x.shrunk \/ x.length = object[x.file],
         x.pc = "served" => x.shrunk \/ x.length = x.sent,
         x.pc # "missing", x.pc = "error" => x.failed
  PROVE  FileInv'
<1>1. /\ fetch \in [Visitors -> FetchType] /\ fetch' \in [Visitors -> FetchType]
      /\ fetch'[v] = x /\ \A w \in Visitors \ {v} : fetch'[w] = fetch[w]
  <2>1. fetch \in [Visitors -> FetchType]
    BY TypesNamed DEF FileInv
  <2> HIDE DEF FetchType
  <2> QED
    BY <2>1
<1>2. FileTypeOK'
  BY <1>1, TypesNamed, TypesNamedNext DEF FileInv, StoresTypeOK, stores
<1>3. UploadsInv' /\ AnswersAreStored'
  BY FitsKept DEF FileInv, AnswersAreStored
<1>4. (FetchesAnswered(v) /\ LengthKnown(v) /\ Serves(v))'
  BY <1>1 DEF FetchesAnswered, LengthKnown, Serves, stores
<1>5. ASSUME NEW w \in Visitors \ {v} PROVE (FetchesAnswered(w) /\ LengthKnown(w) /\ Serves(w))'
  BY <1>1 DEF FileInv, FetchesInv, FetchesAnswered, LengthKnown, Serves, stores
<1> QED
  BY <1>2, <1>3, <1>4, <1>5 DEF FileInv, FetchesInv

\* The steps of a fetch; a record of one keeps its other fields when the step changes.
FetchPcs == {"none", "row", "info", "stream", "served", "missing", "error"}

\* In all but its step, a fetch is what it was.
LEMMA FetchAt ==
  ASSUME NEW x \in FetchType, NEW to \in FetchPcs
  PROVE  LET y == [x EXCEPT !.pc = to]
         IN  /\ y \in FetchType /\ y.pc = to /\ y.file = x.file /\ y.length = x.length
             /\ y.sent = x.sent /\ y.failed = x.failed /\ y.shrunk = x.shrunk
BY DEF FetchType, FetchPcs

\* So does the answer of the store with the length.
LEMMA FetchMeasured ==
  ASSUME NEW x \in FetchType, NEW l \in {1, 2}
  PROVE  LET y == [x EXCEPT !.pc = "stream", !.length = l]
         IN  y \in FetchType /\ y.pc = "stream" /\ y.file = x.file /\ y.length = l
BY DEF FetchType

\* And with the bytes.
LEMMA FetchSent ==
  ASSUME NEW x \in FetchType, NEW l \in {1, 2}
  PROVE  LET y == [x EXCEPT !.pc = "served", !.sent = l]
         IN  /\ y \in FetchType /\ y.pc = "served" /\ y.file = x.file /\ y.length = x.length
             /\ y.shrunk = x.shrunk /\ y.sent = l
BY DEF FetchType

LEMMA FetchKeeps ==
  ASSUME FileInv, NEW v \in Visitors,
         \/ \E f \in Files : getFile(v, f)
         \/ readRow(v) \/ getObjectInfo(v) \/ getObjectStream(v) \/ failFetch(v) \/ hangUp(v)
  PROVE  FileInv'
<1> DEFINE x == fetch[v]  f == x.file
<1>1. x \in FetchType /\ fetch \in [Visitors -> FetchType] /\ faults \in 0..MaxFaults
  BY TypesNamed DEF FileInv
<1>2. x.pc # "none" => f \in Files /\ upload[f].pc = "done" /\ fileRow[f] = "keyed" /\ object[f] \in {1, 2}
  BY TypesNamed DEF FileInv, StoresTypeOK, FetchesInv, FetchesAnswered, UploadsInv, Fits, StoredSoFar
<1>3. x.pc = "stream" => x.shrunk \/ x.length = object[f]
  BY DEF FileInv, FetchesInv, LengthKnown
<1>4. ASSUME NEW g \in Files, getFile(v, g) PROVE FileInv'
  <2>1. upload[g].pc = "done"
    BY <1>4 DEF getFile, Known, FileInv, AnswersAreStored
  <2> DEFINE y == [NoFetch EXCEPT !.pc = "row", !.file = g]
  <2>2. y \in FetchType /\ y.pc = "row" /\ y.file = g
    BY DEF NoFetch, FetchType
  <2>3. fetch' = [fetch EXCEPT ![v] = y] /\ UNCHANGED <<stores, upload, batch, faults, deaths>>
    BY <1>4 DEF getFile, Turn
  <2> HIDE DEF y, FetchType
  <2> QED
    BY <1>1, <2>1, <2>2, <2>3, TurnKeeps
<1>5. CASE readRow(v)
  <2> DEFINE y == [x EXCEPT !.pc = "info"]
  <2>1. fetch' = [fetch EXCEPT ![v] = y] /\ UNCHANGED <<stores, upload, batch, faults, deaths>> /\ x.pc = "row"
    BY <1>2, <1>5 DEF readRow, Turn
  <2>2. y \in FetchType /\ y.pc = "info" /\ y.file = x.file
    BY <1>1, FetchAt DEF FetchPcs
  <2> HIDE DEF y, FetchType
  <2> QED
    BY <1>1, <1>2, <2>1, <2>2, TurnKeeps
<1>6. CASE getObjectInfo(v)
  <2> DEFINE y == [x EXCEPT !.pc = "stream", !.length = object[f]]
  <2>1. x.pc = "info" /\ UNCHANGED <<stores, upload, batch, faults, deaths>>
        /\ fetch' = [fetch EXCEPT ![v] = [x EXCEPT !.pc = IF object[f] = 0 THEN "missing" ELSE "stream",
                                                  !.length = object[f]]]
    BY <1>6 DEF getObjectInfo, Turn, contentLength
  <2>2. object[f] \in {1, 2} /\ (IF object[f] = 0 THEN "missing" ELSE "stream") = "stream"
    BY <1>2, <2>1
  <2>3. fetch' = [fetch EXCEPT ![v] = y]
    BY <2>1, <2>2, Zenon
  <2>4. y \in FetchType /\ y.pc = "stream" /\ y.file = x.file /\ y.length = object[f]
    BY <1>1, <2>2, FetchMeasured, Zenon
  <2> HIDE DEF y, FetchType
  <2>5. y.length = object[y.file]
    BY <2>2, <2>4
  <2> QED
    BY <1>1, <1>2, <2>1, <2>3, <2>4, <2>5, TurnKeeps
<1>7. CASE getObjectStream(v)
  <2> DEFINE y == [x EXCEPT !.pc = "served", !.sent = object[f]]
  <2>1. x.pc = "stream" /\ UNCHANGED <<stores, upload, batch, faults, deaths>>
        /\ fetch' = [fetch EXCEPT ![v] = [x EXCEPT !.pc = IF object[f] = 0 THEN "missing" ELSE "served",
                                                  !.sent = object[f]]]
    BY <1>7 DEF getObjectStream, Turn
  <2>2. (IF object[f] = 0 THEN "missing" ELSE "served") = "served"
    BY <1>2, <2>1
  <2>3. fetch' = [fetch EXCEPT ![v] = y]
    BY <2>1, <2>2, Zenon
  <2>4. /\ y \in FetchType /\ y.pc = "served" /\ y.file = x.file /\ y.length = x.length
        /\ y.shrunk = x.shrunk /\ y.sent = object[f]
    BY <1>1, <1>2, <2>1, FetchSent, Zenon
  <2> HIDE DEF y, FetchType
  <2> QED
    BY <1>1, <1>2, <1>3, <2>1, <2>3, <2>4, TurnKeeps
<1>8. CASE failFetch(v)
  <2> DEFINE y == [x EXCEPT !.pc = "error", !.failed = TRUE]
  <2>1. /\ fetch' = [fetch EXCEPT ![v] = y] /\ UNCHANGED <<stores, upload, batch, deaths>>
        /\ x.pc # "none" /\ faults < MaxFaults /\ faults' = faults + 1
    BY <1>8 DEF failFetch
  <2>2. y \in FetchType /\ y.pc = "error" /\ y.file = x.file /\ y.failed
    <3> DEFINE z == [x EXCEPT !.pc = "error"]
    <3>1. z \in FetchType /\ z.pc = "error" /\ z.file = x.file
      BY <1>1, FetchAt DEF FetchPcs
    <3>2. y = [z EXCEPT !.failed = TRUE]
      OBVIOUS
    <3> HIDE DEF z
    <3> QED
      BY <3>1, <3>2 DEF FetchType
  <2>3. faults' \in 0..MaxFaults
    BY <1>1, <2>1
  <2> HIDE DEF y, FetchType
  <2> QED
    BY <1>1, <1>2, <2>1, <2>2, <2>3, TurnKeeps
<1>9. CASE hangUp(v)
  <2>1. fetch' = [fetch EXCEPT ![v] = NoFetch] /\ UNCHANGED <<stores, upload, batch, faults, deaths>>
    BY <1>9 DEF hangUp, Turn
  <2>2. NoFetch \in FetchType /\ NoFetch.pc = "none"
    BY DEF NoFetch, FetchType
  <2> HIDE DEF FetchType
  <2> QED
    BY <1>1, <2>1, <2>2, TurnKeeps
<1> QED
  BY <1>4, <1>5, <1>6, <1>7, <1>8, <1>9

LEMMA FetchShrunk ==
  ASSUME NEW x \in FetchType
  PROVE  LET y == [x EXCEPT !.shrunk = TRUE]
         IN  /\ y \in FetchType /\ y.pc = x.pc /\ y.file = x.file /\ y.length = x.length
             /\ y.sent = x.sent /\ y.failed = x.failed /\ y.shrunk
BY DEF FetchType

LEMMA RecompressKeeps ==
  ASSUME FileInv, NEW f \in Files, recompress(f)
  PROVE  FileInv'
<1>1. /\ object[f] = 2 /\ upload[f].pc \in Ended
      /\ object' = [object EXCEPT ![f] = 1]
      /\ UNCHANGED <<fileRow, bucket, upload, batch, faults, deaths>>
  BY DEF recompress
<1>2. /\ fetch \in [Visitors -> FetchType] /\ object \in [Files -> {0, 1, 2}]
      /\ \A w \in Visitors : fetch[w] \in FetchType
  BY TypesNamed DEF FileInv, StoresTypeOK
<1>3. ASSUME NEW v \in Visitors
      PROVE  /\ fetch'[v] \in FetchType /\ fetch'[v].pc = fetch[v].pc /\ fetch'[v].file = fetch[v].file
             /\ fetch'[v].length = fetch[v].length /\ fetch'[v].sent = fetch[v].sent /\ fetch'[v].failed = fetch[v].failed
             /\ fetch[v].shrunk => fetch'[v].shrunk
             /\ fetch[v].pc = "stream" /\ fetch[v].file = f => fetch'[v].shrunk
  <2>1. CASE fetch[v].pc = "stream" /\ fetch[v].file = f
    <3>1. fetch'[v] = [fetch[v] EXCEPT !.shrunk = TRUE]
      BY <2>1 DEF recompress
    <3> HIDE DEF FetchType
    <3> QED
      BY <1>2, <3>1, FetchShrunk
  <2>2. CASE ~(fetch[v].pc = "stream" /\ fetch[v].file = f)
    <3>1. fetch'[v] = fetch[v]
      BY <2>2 DEF recompress
    <3> QED
      BY <1>2, <2>2, <3>1
  <2> QED
    BY <2>1, <2>2
<1>4. FileTypeOK'
  <2>1. fetch' \in [Visitors -> FetchType]
    <3>1. fetch' = [w \in Visitors |-> fetch'[w]]
      BY DEF recompress
    <3> HIDE DEF FetchType
    <3> QED
      BY <1>3, <3>1
  <2> QED
    BY <1>1, <2>1, TypesNamed, TypesNamedNext DEF FileInv, StoresTypeOK
<1>5. UploadsInv'
  <2>1. Fits(f)'
    <3>1. object'[f] # 0 /\ fileRow'[f] = fileRow[f] /\ upload'[f] = upload[f] /\ bucket' = bucket /\ Fits(f)
      BY <1>1, <1>2 DEF FileInv, UploadsInv
    <3>2. StoredSoFar(f)'
      <4>1. StoredSoFar(f) /\ object[f] # 0 /\ upload[f].pc \in {"done", "failed", "too large", "dead"}
        <5>1. StoredSoFar(f)
          BY <3>1 DEF Fits
        <5>2. object[f] # 0
          BY <1>1
        <5>3. upload[f].pc \in {"done", "failed", "too large", "dead"}
          BY <1>1 DEF Ended
        <5> QED
          BY <5>1, <5>2, <5>3
      <4>2. upload[f].pc # "too large"
        BY <4>1 DEF StoredSoFar
      <4>3. upload'[f].pc = upload[f].pc /\ upload[f].pc \in {"done", "failed", "dead"}
        BY <3>1, <4>1, <4>2
      <4>4. upload[f].pc = "done" => fileRow'[f] = "keyed"
        BY <3>1, <4>1 DEF StoredSoFar
      <4> QED
        BY <3>1, <4>3, <4>4 DEF StoredSoFar
    <3>3. FailedSoFar(f)'
      BY <3>1 DEF Fits, Excused, FailedSoFar, UploadPcs, Ended
    <3>4. Refused(f)'
      BY <3>1 DEF Fits, Excused, Refused
    <3>5. Orphan(f)'
      BY <1>1, <3>1 DEF Fits, Orphan
    <3>6. Ghost(f)'
      BY <3>1 DEF Excused, Ghost
    <3> QED
      BY <3>2, <3>3, <3>4, <3>5, <3>6 DEF Fits
  <2>2. ASSUME NEW g \in Files \ {f} PROVE Fits(g)'
    BY <1>1, <1>2, FitsStays DEF FileInv, UploadsInv
  <2> QED
    BY <2>1, <2>2 DEF UploadsInv
<1>6. AnswersAreStored'
  BY <1>1 DEF FileInv, AnswersAreStored
<1>7. ASSUME NEW v \in Visitors PROVE (FetchesAnswered(v) /\ LengthKnown(v) /\ Serves(v))'
  <2>1. FetchesAnswered(v) /\ LengthKnown(v) /\ Serves(v)
    BY DEF FileInv, FetchesInv
  <2>2. fetch[v].pc = "stream" /\ fetch[v].file # f => object'[fetch[v].file] = object[fetch[v].file]
    BY <1>1, <1>2, <2>1 DEF FetchesAnswered
  <2> QED
    BY <1>1, <1>3, <2>1, <2>2 DEF FetchesAnswered, LengthKnown, Serves
<1> QED
  BY <1>4, <1>5, <1>6, <1>7 DEF FileInv, FetchesInv

LEMMA DieKeeps ==
  ASSUME FileInv, die
  PROVE  FileInv'
<1>1. /\ upload \in [Files -> UploadType] /\ batch \in [Batches -> BatchType] /\ deaths \in 0..MaxDeaths
      /\ \A g \in Files : upload[g] \in UploadType
  BY TypesNamed DEF FileInv
<1>2. /\ UNCHANGED <<stores, faults>> /\ deaths < MaxDeaths /\ deaths' = deaths + 1
      /\ fetch' = [v \in Visitors |-> NoFetch]
  BY DEF die
<1>3. ASSUME NEW f \in Files
      PROVE  /\ upload'[f] \in UploadType
             /\ \/ upload'[f] = upload[f]
                \/ /\ upload[f].pc \notin Ended \cup {"none"} /\ upload'[f].pc = "dead"
                   /\ upload'[f].unsure = upload[f].unsure
  <2>1. CASE upload[f].pc \in Ended \cup {"none"}
    BY <1>1, <2>1 DEF die
  <2>2. CASE upload[f].pc \notin Ended \cup {"none"}
    <3>1. upload'[f] = [upload[f] EXCEPT !.pc = "dead"]
      BY <2>2 DEF die
    <3>2. "dead" \in UploadPcs
      BY DEF UploadPcs, Ended
    <3> HIDE DEF UploadType
    <3> QED
      BY <1>1, <2>2, <3>1, <3>2, UploadAt
  <2> QED
    BY <2>1, <2>2
<1>4. ASSUME NEW b \in Batches
      PROVE  /\ batch'[b] \in BatchType /\ batch'[b].files = batch[b].files
             /\ batch'[b].answer = "files" => batch[b].answer = "files"
  <2>1. LET x == [batch[b] EXCEPT !.answer = "lost"]
        IN  x \in BatchType /\ x.answer = "lost" /\ x.files = batch[b].files
    BY <1>1 DEF BatchType
  <2>2. batch'[b] = IF batch[b].answer = "awaited" THEN [batch[b] EXCEPT !.answer = "lost"] ELSE batch[b]
    BY DEF die
  <2> HIDE DEF BatchType
  <2> QED
    BY <1>1, <2>1, <2>2
<1>5. FileTypeOK'
  <2>1. upload' = [f \in Files |-> upload'[f]] /\ batch' = [b \in Batches |-> batch'[b]]
    BY DEF die
  <2>2. upload' \in [Files -> UploadType] /\ batch' \in [Batches -> BatchType]
    <3> HIDE DEF UploadType, BatchType
    <3> QED
      BY <1>3, <1>4, <2>1
  <2>3. fetch' \in [Visitors -> FetchType]
    BY <1>2 DEF NoFetch, FetchType
  <2>4. deaths' \in 0..MaxDeaths
    BY <1>1, <1>2
  <2> QED
    BY <1>2, <2>2, <2>3, <2>4, TypesNamed, TypesNamedNext DEF FileInv, StoresTypeOK, stores
<1>6. UploadsInv'
  <2>1. ASSUME NEW f \in Files PROVE Fits(f)'
    <3>1. Fits(f) /\ fileRow'[f] = fileRow[f] /\ object'[f] = object[f] /\ bucket' = bucket
      BY <1>2 DEF FileInv, UploadsInv, stores
    <3>2. CASE upload'[f] = upload[f]
      BY <3>1, <3>2, FitsStays
    <3>3. CASE /\ upload[f].pc \notin Ended \cup {"none"} /\ upload'[f].pc = "dead"
               /\ upload'[f].unsure = upload[f].unsure
      <4>1. Orphan(f)'
        BY <3>1, <3>3 DEF Fits, Orphan
      <4> QED
        BY <3>3, <4>1 DEF Fits, StoredSoFar, FailedSoFar, Excused, Ghost, Refused
    <3> QED
      BY <1>3, <3>2, <3>3
  <2> QED
    BY <2>1 DEF UploadsInv
<1>7. AnswersAreStored'
  <2>1. \A f \in Files : upload[f].pc = "done" => upload'[f].pc = "done"
    BY <1>3 DEF Ended
  <2>2. \A b \in Batches : batch[b].files \subseteq Files
    BY <1>1 DEF BatchType
  <2> QED
    BY <1>4, <2>1, <2>2 DEF FileInv, AnswersAreStored
<1>8. FetchesInv'
  BY <1>2 DEF FetchesInv, FetchesAnswered, LengthKnown, Serves, NoFetch
<1> QED
  BY <1>5, <1>6, <1>7, <1>8 DEF FileInv

LEMMA FileStepInv == FileInv /\ [FileNext]_fileVars => FileInv'
<1> SUFFICES ASSUME FileInv, [FileNext]_fileVars PROVE FileInv'
  OBVIOUS
<1>1. CASE UNCHANGED fileVars
  <2>1. UNCHANGED <<stores, upload, batch, fetch, faults, deaths>>
    BY <1>1 DEF fileVars
  <2> QED
    BY <2>1, FitsKept, TypesNamed, TypesNamedNext
    DEF FileInv, StoresTypeOK, AnswersAreStored, FetchesInv, FetchesAnswered, LengthKnown, Serves, stores
<1>2. CASE FileNext
  BY <1>2, PostKeeps, AnswerKeeps, StepKeeps, RecompressKeeps, FetchKeeps, DieKeeps DEF FileNext
<1> QED
  BY <1>1, <1>2

-----------------------------------------------------------------------------
(* The theorems *)

THEOREM FileInvariant == FileSpec => []FileInv
<1> QED
  BY FileInitInv, FileStepInv, PTL DEF FileSpec

\* The rows, objects, uploads and fetches keep their types for any number of files,
\* requests, failures and deaths.
THEOREM FilesTypeCorrect == FileSpec => []FileTypeOK
<1>1. FileInv => FileTypeOK
  BY DEF FileInv
<1> QED
  BY <1>1, FileInvariant, PTL

\* Whatever fails or dies, a file whose upload was answered is served, with the length
\* of its bytes unless it shrinks between the two questions.
THEOREM AnsweredServes == FileSpec => []AnsweredFilesServe
<1>1. FileInv => AnsweredFilesServe
  BY DEF FileInv, FetchesInv, Serves, AnsweredFilesServe
<1> QED
  BY <1>1, FileInvariant, PTL

\* A row without an object comes of a death, of a row created by a statement that was
\* reported failed, or of two mishaps of one upload, an unfit name among them.
THEOREM GhostsNeedTwo == FileSpec => []GhostsAreDoubleFaults
<1>1. FileInv => GhostsAreDoubleFaults
  BY DEF FileInv, UploadsInv, Fits, Excused, Ghost, GhostsAreDoubleFaults
<1> QED
  BY <1>1, FileInvariant, PTL

\* An object without a row comes of a put that was carried out and reported failed.
THEOREM OrphansNeedUnsurePut == FileSpec => []OrphansAreUnsurePuts
<1>1. FileInv => OrphansAreUnsurePuts
  BY DEF FileInv, UploadsInv, Fits, Orphan, OrphansAreUnsurePuts
<1> QED
  BY <1>1, FileInvariant, PTL

\* An upload is refused without a failure only for its name or in the race for the
\* bucket.
THEOREM RefusalsNeedCause == FileSpec => []RefusalsHaveCauses
<1>1. FileInv => RefusalsHaveCauses
  BY DEF FileInv, UploadsInv, Fits, Excused, Refused, RefusalsHaveCauses
<1> QED
  BY <1>1, FileInvariant, PTL
=============================================================================
