------------------------------- MODULE FileStore -------------------------------
(***************************************************************************)
(* Uploaded files: FilesService over two stores that no transaction joins, *)
(* the rows of Files in PostgreSQL and the objects of a MinIO bucket.      *)
(*                                                                         *)
(* A request uploads its files side by side (Promise.all).  An upload      *)
(* creates the row, has the object's name checked, makes sure of the       *)
(* bucket, puts the object under the row's id and writes the object's key  *)
(* into the row; if the object is not stored it deletes the row again.     *)
(* Any statement may fail, whether it was carried out or not, and the      *)
(* process may die between any two.                                        *)
(***************************************************************************)
EXTENDS Naturals

CONSTANTS
  Files,      \* files to upload, each at most once
  Batches,    \* requests that upload
  Visitors,   \* requests that fetch a file
  MaxFaults,  \* bound on the statements that fail
  MaxDeaths   \* bound on the deaths of the process

ASSUME FileAssumption == MaxFaults \in Nat /\ MaxDeaths \in Nat

VARIABLES
  fileRow,  \* file -> "none", "stored", or "keyed" when the object's key is in the row
  object,   \* file -> the size of its object, 0 if there is none
  bucket,   \* whether the bucket exists
  upload,   \* file -> its upload
  batch,    \* request -> its files and its answer
  fetch,    \* visitor -> the getFile at work
  faults,
  deaths

stores == <<fileRow, object, bucket>>
fileVars == <<stores, upload, batch, fetch, faults, deaths>>

\* unfit: the extension of the file's name is one that the object store's client
\* refuses; history: statements of it that failed, those that did and were carried
\* out, and whether another made the bucket when it had seen none
NoUpload == [pc |-> "none", unfit |-> FALSE, failures |-> 0, unsure |-> {}, raced |-> FALSE]
NoBatch == [files |-> {}, answer |-> "none"]
\* sent: the bytes that are streamed after the length
NoFetch == [pc |-> "none", file |-> "none", length |-> 0, sent |-> 0, failed |-> FALSE, shrunk |-> FALSE]

Original == 2   \* sizes of an object: as it was uploaded...
Smaller == 1    \* ... and recompressed in place

FileInit ==
  /\ fileRow = [f \in Files |-> "none"]
  /\ object = [f \in Files |-> 0]
  /\ bucket \in BOOLEAN
  /\ upload = [f \in Files |-> NoUpload]
  /\ batch = [b \in Batches |-> NoBatch]
  /\ fetch = [v \in Visitors |-> NoFetch]
  /\ faults = 0 /\ deaths = 0

-----------------------------------------------------------------------------
(* upload, a file's statements one by one *)

\* upload and uploadMany: a file that is too large fails before its first statement
post(b, S) ==
  /\ batch[b] = NoBatch
  /\ S # {} /\ \A f \in S : upload[f] = NoUpload
  /\ \E large \in SUBSET S : \E unfit \in SUBSET (S \ large) :
       upload' = [f \in Files |-> IF f \in S
                    THEN [NoUpload EXCEPT !.pc = IF f \in large THEN "too large" ELSE "row",
                                          !.unfit = f \in unfit]
                    ELSE upload[f]]
  /\ batch' = [batch EXCEPT ![b] = [files |-> S, answer |-> "awaited"]]
  /\ UNCHANGED <<stores, fetch, faults, deaths>>

Advance(f, from, to) ==
  /\ upload[f].pc = from
  /\ upload' = [upload EXCEPT ![f].pc = to]
  /\ UNCHANGED <<batch, fetch, faults, deaths>>

\* seeded fault: the checks come before the try block
ChecksOutside(f) == IF upload[f].unfit THEN "failed" ELSE "look"

\* validateBucketName and validateFileName, before the first call to the object store;
\* those of bucketExists, makeBucket and putObject pass what these let through
validated(f) == IF upload[f].unfit THEN "undo" ELSE "look"

createRow(f) ==
  /\ Advance(f, "row", validated(f))
  /\ fileRow' = [fileRow EXCEPT ![f] = "stored"]
  /\ UNCHANGED <<object, bucket>>

\* seeded fault: makes the bucket without a look
LooksAway(f) == Advance(f, "look", "make") /\ UNCHANGED stores

\* bucketExists, in upload and again in makeBucket
look(f) == Advance(f, "look", IF bucket THEN "put" ELSE "look again") /\ UNCHANGED stores
lookAgain(f) == Advance(f, "look again", IF bucket THEN "put" ELSE "make") /\ UNCHANGED stores

\* the uploads after the bucket is made, by f or by a statement of f that failed
BucketMade(f, to) ==
  [g \in Files |->
     IF g = f THEN to
     ELSE IF upload[g].pc \in {"look again", "make"} THEN [upload[g] EXCEPT !.raced = TRUE]
     ELSE upload[g]]

makeBucket(f) ==
  /\ ~bucket /\ upload[f].pc = "make"
  /\ bucket' = TRUE
  /\ upload' = BucketMade(f, [upload[f] EXCEPT !.pc = "put"])
  /\ UNCHANGED <<fileRow, object, batch, fetch, faults, deaths>>

\* the bucket is there by now, which MinIO reports as an error
loseBucket(f) == bucket /\ Advance(f, "make", "undo") /\ UNCHANGED stores

putObject(f) ==
  /\ Advance(f, "put", "key")
  /\ object' = [object EXCEPT ![f] = Original]
  /\ UNCHANGED <<fileRow, bucket>>

writeKey(f) ==
  /\ Advance(f, "key", "done")
  /\ fileRow' = [fileRow EXCEPT ![f] = "keyed"]
  /\ UNCHANGED <<object, bucket>>

deleteRow(f) ==
  /\ Advance(f, "undo", "failed")
  /\ fileRow' = [fileRow EXCEPT ![f] = "none"]
  /\ UNCHANGED <<object, bucket>>

\* seeded fault: the rollback of a failed put is that of a failed key, too
RollsBackKey(pc) == IF pc \in {"row", "undo"} THEN "failed" ELSE "undo"

\* the try block has the calls to the object store alone
AfterFailure(pc) == IF pc \in {"row", "key", "undo"} THEN "failed" ELSE "undo"

\* A statement of an upload fails, carried out or not.
failUpload(f) ==
  LET pc == upload[f].pc
      failed == [upload[f] EXCEPT !.pc = AfterFailure(pc), !.failures = @ + 1]
  IN  /\ faults < MaxFaults /\ faults' = faults + 1
      /\ \/ /\ pc \in {"row", "look", "look again", "make", "put", "key", "undo"}
            /\ upload' = [upload EXCEPT ![f] = failed]
            /\ UNCHANGED stores
         \/ /\ pc \in {"row", "key", "undo"}
            /\ fileRow' = [fileRow EXCEPT ![f] = IF pc = "row" THEN "stored"
                                                ELSE IF pc = "key" THEN "keyed" ELSE "none"]
            /\ upload' = [upload EXCEPT ![f] = [failed EXCEPT !.unsure = @ \cup {pc}]]
            /\ UNCHANGED <<object, bucket>>
         \/ /\ pc = "put"
            /\ object' = [object EXCEPT ![f] = Original]
            /\ upload' = [upload EXCEPT ![f] = [failed EXCEPT !.unsure = @ \cup {pc}]]
            /\ UNCHANGED <<fileRow, bucket>>
         \/ /\ pc = "make" /\ ~bucket
            /\ bucket' = TRUE
            /\ upload' = BucketMade(f, failed)
            /\ UNCHANGED <<fileRow, object>>
      /\ UNCHANGED <<batch, fetch, deaths>>

Ended == {"done", "failed", "too large", "dead"}

\* seeded fault: Promise.allSettled
WhenAllSettled(b) == \A f \in batch[b].files : upload[f].pc \in Ended

\* Promise.all
AllDone(b) == \A f \in batch[b].files : upload[f].pc = "done"

Answer(b, answer) ==
  /\ batch[b].answer = "awaited"
  /\ batch' = [batch EXCEPT ![b].answer = answer]
  /\ UNCHANGED <<stores, upload, fetch, faults, deaths>>

answerFiles(b) == AllDone(b) /\ Answer(b, "files")

\* the first failure answers; the other files go on
refuse(b) ==
  /\ \E f \in batch[b].files : upload[f].pc \in {"failed", "too large"}
  /\ Answer(b, "refused")

-----------------------------------------------------------------------------
(* getFile *)

Known == UNION {batch[b].files : b \in {b \in Batches : batch[b].answer = "files"}}

Turn(v, fields) ==
  /\ fetch' = [fetch EXCEPT ![v] = fields]
  /\ UNCHANGED <<stores, upload, batch, faults, deaths>>

getFile(v, f) ==
  /\ fetch[v] = NoFetch /\ f \in Known
  /\ Turn(v, [NoFetch EXCEPT !.pc = "row", !.file = f])

readRow(v) ==
  /\ fetch[v].pc = "row"
  /\ Turn(v, [fetch[v] EXCEPT !.pc = IF fileRow[fetch[v].file] = "none" THEN "missing" ELSE "info"])

\* seeded faults: counts the end of the last byte; takes the size of the row
OneTooMany(f) == object[f] + 1
RowSize(f) == Original

\* "Content-Length comes from the stored object, not files.size"
contentLength(f) == object[f]

getObjectInfo(v) ==
  LET f == fetch[v].file
  IN  /\ fetch[v].pc = "info"
      /\ Turn(v, [fetch[v] EXCEPT !.pc = IF object[f] = 0 THEN "missing" ELSE "stream",
                                  !.length = contentLength(f)])

getObjectStream(v) ==
  /\ fetch[v].pc = "stream"
  /\ Turn(v, [fetch[v] EXCEPT !.pc = IF object[fetch[v].file] = 0 THEN "missing" ELSE "served",
                              !.sent = object[fetch[v].file]])

failFetch(v) ==
  /\ faults < MaxFaults /\ faults' = faults + 1
  /\ fetch[v].pc \in {"row", "info", "stream"}
  /\ fetch' = [fetch EXCEPT ![v] = [@ EXCEPT !.pc = "error", !.failed = TRUE]]
  /\ UNCHANGED <<stores, upload, batch, deaths>>

hangUp(v) == fetch[v].pc \in {"served", "missing", "error"} /\ Turn(v, NoFetch)

\* "objects may be recompressed in place after upload"
recompress(f) ==
  /\ object[f] = Original /\ upload[f].pc \in Ended
  /\ object' = [object EXCEPT ![f] = Smaller]
  /\ fetch' = [v \in Visitors |-> IF fetch[v].pc = "stream" /\ fetch[v].file = f
                                  THEN [fetch[v] EXCEPT !.shrunk = TRUE] ELSE fetch[v]]
  /\ UNCHANGED <<fileRow, bucket, upload, batch, faults, deaths>>

\* The process dies with all that it is at.
die ==
  /\ deaths < MaxDeaths /\ deaths' = deaths + 1
  /\ upload' = [f \in Files |-> IF upload[f].pc \in Ended \cup {"none"} THEN upload[f]
                                ELSE [upload[f] EXCEPT !.pc = "dead"]]
  /\ batch' = [b \in Batches |-> IF batch[b].answer = "awaited"
                                 THEN [batch[b] EXCEPT !.answer = "lost"] ELSE batch[b]]
  /\ fetch' = [v \in Visitors |-> NoFetch]
  /\ UNCHANGED <<stores, faults>>

-----------------------------------------------------------------------------
Step(f) ==
  \/ createRow(f) \/ look(f) \/ lookAgain(f) \/ makeBucket(f) \/ loseBucket(f)
  \/ putObject(f) \/ writeKey(f) \/ deleteRow(f) \/ failUpload(f)

FileNext ==
  \/ \E b \in Batches : (\E S \in SUBSET Files : post(b, S)) \/ answerFiles(b) \/ refuse(b)
  \/ \E f \in Files : Step(f) \/ recompress(f)
  \/ \E v \in Visitors : \/ \E f \in Files : getFile(v, f)
                         \/ readRow(v) \/ getObjectInfo(v) \/ getObjectStream(v)
                         \/ failFetch(v) \/ hangUp(v)
  \/ die

FileSpec == FileInit /\ [][FileNext]_fileVars

-----------------------------------------------------------------------------
(* Properties *)

UploadPcs == {"none", "row", "look", "look again", "make", "put", "key", "undo"} \cup Ended

\* The types of the stores, the uploads and the fetches.
FileTypeOK ==
  /\ fileRow \in [Files -> {"none", "stored", "keyed"}]
  /\ object \in [Files -> {0, Smaller, Original}]
  /\ bucket \in BOOLEAN
  /\ upload \in [Files -> [pc : UploadPcs, unfit : BOOLEAN, failures : Nat, unsure : SUBSET UploadPcs, raced : BOOLEAN]]
  /\ batch \in [Batches -> [files : SUBSET Files,
                            answer : {"none", "awaited", "files", "refused", "lost"}]]
  /\ fetch \in [Visitors -> [pc : {"none", "row", "info", "stream", "served", "missing", "error"},
                             file : Files \cup {"none"}, length : {0, Smaller, Original},
                             sent : {0, Smaller, Original}, failed : BOOLEAN, shrunk : BOOLEAN]]
  /\ faults \in 0..MaxFaults /\ deaths \in 0..MaxDeaths

\* A file whose upload was answered is found by whoever asks for it, for ever and
\* whatever fails or dies elsewhere: only a failed statement of the same fetch ends
\* it in an error.  The length announced is that of the bytes streamed, also after
\* objects have been recompressed ("a stale length breaks the response"), unless this
\* one is recompressed between the question for its length and that for its bytes.
AnsweredFilesServe ==
  \A v \in Visitors :
    /\ fetch[v].pc # "missing"
    /\ fetch[v].pc = "error" => fetch[v].failed
    /\ fetch[v].pc = "served" => fetch[v].shrunk \/ fetch[v].length = fetch[v].sent

\* A row without an object, when its upload has ended, takes the process's death, a
\* row whose creation was reported failed, or two mishaps of that upload, one of
\* them in the rollback: an unfit name or the race for the bucket can be the other.
GhostsAreDoubleFaults ==
  \A f \in Files :
    fileRow[f] # "none" /\ object[f] = 0 /\ upload[f].pc \in Ended =>
      \/ upload[f].pc = "dead" \/ "row" \in upload[f].unsure
      \/ upload[f].failures >= 2
      \/ upload[f].failures = 1 /\ (upload[f].raced \/ upload[f].unfit)

\* An object without a row is one whose put was carried out and reported failed:
\* the row comes first.
OrphansAreUnsurePuts ==
  \A f \in Files : object[f] # 0 /\ fileRow[f] = "none" => "put" \in upload[f].unsure

\* An upload none of whose statements failed is refused only for its name, or
\* because another one made the bucket between its look and its own attempt.
RefusalsHaveCauses ==
  \A f \in Files :
    upload[f].pc = "failed" /\ upload[f].failures = 0 => upload[f].unfit \/ upload[f].raced
=============================================================================
