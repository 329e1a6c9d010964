-------------------------- MODULE JobPipeline_proofs --------------------------
(***************************************************************************)
(* Theorems about JobPipeline and their proofs.  TypeCorrect holds for     *)
(* every behaviour.  The safety theorems hold of every behaviour without   *)
(* the two events that break them (Disciplined): two retries of one run    *)
(* inside their window at once, and the redelivery of an entry whose work  *)
(* is done.  Any number of clients may be under way, workers may die       *)
(* anywhere before that point, statements may throw, and requests and      *)
(* onFailed may be cut short.  At the end, that the rows implement JobRun  *)
(* when no stored result is computed again, and what redelivery leaves     *)
(* true when nobody retries.                                               *)
(***************************************************************************)
EXTENDS JobPipeline, SequenceTheorems, TLAPS

USE PipelineAssumption

-----------------------------------------------------------------------------
(* Outputs *)

\* The output of step n on the whole earlier chain is the whole chain up to n.
LEMMA OutputFull ==
  ASSUME NEW n \in Nat \ {0}
  PROVE  /\ Output(FullOutput(n - 1), n) = FullOutput(n)
         /\ FullOutput(n) \in Seq(Nat)
<1>1. FullOutput(n - 1) \in Seq(Nat) /\ Len(FullOutput(n - 1)) = n - 1
  BY DEF FullOutput
<1>2. FullOutput(n) \in Seq(Nat) /\ Len(FullOutput(n)) = n
  BY DEF FullOutput
<1>3. ASSUME NEW k \in 1..n PROVE Append(FullOutput(n - 1), n)[k] = FullOutput(n)[k]
  BY <1>1 DEF FullOutput
<1> QED BY <1>1, <1>2, <1>3 DEF Output, FullOutput

\* The chain before the first step is empty.
LEMMA NoOutput == FullOutput(0) = <<>>
  BY DEF FullOutput

-----------------------------------------------------------------------------
(* Literals and rows *)

\* The literals of the actions are program counters and statuses.
LEMMA Literals ==
  /\ {"wait", "gone", "markRun", "markStep", "execute", "saveResult", "findNext",
      "enqueueNext", "finishRun", "ack", "haltStep", "haltRun"} = EntryPcs
  /\ {"NONE", "PENDING", "PROCESSING", "COMPLETED", "FAILED"} = JobStatus
  /\ <<>> \in Seq(Nat) /\ 0 \in 0..MaxSteps /\ 0 \in Nat
  /\ 1..MaxSteps \subseteq 0..MaxSteps
  BY DEF EntryPcs, ActivePcs, HaltPcs, JobStatus

\* Fresh rows, fresh entries and fresh requests have their types.
LEMMA Fresh ==
  /\ \A n \in 1..MaxSteps : NewJob(n) \in JobType
  /\ NoJob \in JobType /\ NewStep \in StepType /\ NoStep \in StepType
  /\ \A r \in Runs, n \in 1..MaxSteps : Entry(r, n) \in EntryType
  /\ Idle \in ClientType
  /\ \A pc \in {"reset", "enqueue"}, r \in Runs, n \in 1..MaxSteps :
       Request(pc, r, n) \in ClientType
<1>1. \A n \in 1..MaxSteps : NewJob(n) \in JobType
  BY Literals DEF NewJob, JobType
<1>2. NoJob \in JobType /\ NewStep \in StepType /\ NoStep \in StepType
  BY Literals DEF NoJob, NewStep, NoStep, JobType, StepType
<1>3. \A r \in Runs, n \in 1..MaxSteps : Entry(r, n) \in EntryType
  BY Literals DEF Entry, EntryType
<1>4. Idle \in ClientType
  BY DEF ClientType
<1>5. \A pc \in {"reset", "enqueue"}, r \in Runs, n \in 1..MaxSteps :
        Request(pc, r, n) \in ClientType
  BY DEF ClientType, Request
<1> QED BY <1>1, <1>2, <1>3, <1>4, <1>5

\* The fields of the entry at position i.
LEMMA EntryFacts ==
  ASSUME TypeOK, NEW i \in DOMAIN queue
  PROVE  /\ queue[i] \in EntryType
         /\ queue[i].run \in Runs /\ queue[i].step \in 1..MaxSteps
         /\ queue[i].pc \in EntryPcs /\ queue[i].next \in 1..MaxSteps
         /\ queue[i].result \in Seq(Nat)
         /\ queue[i].made \in Nat /\ queue[i].stalls \in Nat
<1>1. queue[i] \in EntryType
  BY DEF TypeOK
<1> QED BY <1>1 DEF EntryType

\* The fields of a run's row and of a step's row.
LEMMA RowFacts ==
  ASSUME TypeOK, NEW r \in Runs, NEW n \in 1..MaxSteps
  PROVE  /\ job[r] \in JobType /\ job[r].total \in 0..MaxSteps
         /\ job[r].status \in JobStatus /\ job[r].result \in Seq(Nat)
         /\ step[r][n] \in StepType /\ step[r][n].result \in Seq(Nat)
         /\ step[r][n].attempts \in Nat
<1>1. job[r] \in JobType /\ step[r][n] \in StepType
  BY DEF TypeOK
<1> QED BY <1>1 DEF JobType, StepType

\* A request that still has something to do.
LEMMA ClientFacts ==
  ASSUME TypeOK, NEW c \in Clients, client[c] # Idle
  PROVE  /\ client[c].pc \in {"reset", "enqueue"}
         /\ client[c].run \in Runs /\ client[c].step \in 1..MaxSteps
  BY DEF TypeOK, ClientType

-----------------------------------------------------------------------------
(* What the updates do *)

\* Updating a run's row.
LEMMA UpdateJob ==
  ASSUME TypeOK, NEW r \in Runs, NEW row \in JobType, updateJob(r, row)
  PROVE  /\ job' \in [Runs -> JobType]
         /\ job'[r] = row
         /\ \A q \in Runs : q # r => job'[q] = job[q]
  BY DEF TypeOK, updateJob

\* Updating a step's row.
LEMMA UpdateStep ==
  ASSUME TypeOK, NEW r \in Runs, NEW n \in 1..MaxSteps, NEW row \in StepType,
         updateStep(r, n, row)
  PROVE  /\ step' \in [Runs -> [1..MaxSteps -> StepType]]
         /\ step'[r][n] = row
         /\ \A m \in 1..MaxSteps : m # n => step'[r][m] = step[r][m]
         /\ \A q \in Runs : q # r => step'[q] = step[q]
  BY DEF TypeOK, updateStep

\* Updating an entry.
LEMMA UpdateEntry ==
  ASSUME TypeOK, NEW i \in DOMAIN queue, NEW e \in EntryType, updateEntry(i, e)
  PROVE  /\ queue' \in Seq(EntryType)
         /\ DOMAIN queue' = DOMAIN queue
         /\ queue'[i] = e
         /\ \A j \in DOMAIN queue : j # i => queue'[j] = queue[j]
  BY DEF TypeOK, updateEntry

\* Moving an entry's program counter.
LEMMA GotoEntry ==
  ASSUME TypeOK, NEW i \in DOMAIN queue, NEW pc \in EntryPcs, Goto(i, pc)
  PROVE  /\ updateEntry(i, [queue[i] EXCEPT !.pc = pc])
         /\ [queue[i] EXCEPT !.pc = pc] \in EntryType
<1>1. queue[i] \in EntryType
  BY EntryFacts
<1> QED BY <1>1 DEF Goto, EntryType

\* Failing an attempt: the entry it leaves.
LEMMA FailEntry ==
  ASSUME TypeOK, NEW i \in DOMAIN queue, NEW final \in BOOLEAN, AttemptFailed(i, final)
  PROVE  \E e \in EntryType :
           /\ updateEntry(i, e)
           /\ e.run = queue[i].run /\ e.step = queue[i].step /\ e.made = queue[i].made + 1
           /\ e.pc \in {"haltStep", "gone", "wait"}
           /\ e.pc = "haltStep" <=> e.made >= MaxAttempts
<1> DEFINE pc == AfterFailure(queue[i].made + 1, final)
           made == queue[i].made + 1
           e == [queue[i] EXCEPT !.pc = pc, !.made = made, !.result = <<>>,
                                 !.next = queue[i].step]
<1>1. queue[i] \in EntryType /\ queue[i].made \in Nat /\ made \in Nat
  BY EntryFacts
<1>2. pc \in {"haltStep", "gone", "wait"} /\ (pc = "haltStep" <=> made >= MaxAttempts)
  BY DEF AfterFailure
<1>3. updateEntry(i, e)
  BY DEF AttemptFailed
<1>4. /\ e \in EntryType
      /\ e.run = queue[i].run /\ e.step = queue[i].step /\ e.made = made /\ e.pc = pc
  <2> HIDE DEF pc, made
  <2> QED BY <1>1, <1>2, Literals DEF EntryType
<1> HIDE DEF pc, e
<1> QED BY <1>2, <1>3, <1>4

\* What an enqueue appends.
LEMMA AppendEntry ==
  ASSUME NEW q \in Seq(EntryType), NEW r \in Runs, NEW n \in 1..MaxSteps
  PROVE  /\ Append(q, Entry(r, n)) \in Seq(EntryType)
         /\ DOMAIN Append(q, Entry(r, n)) = DOMAIN q \cup {Len(q) + 1}
         /\ Append(q, Entry(r, n))[Len(q) + 1] = Entry(r, n)
         /\ \A j \in DOMAIN q : Append(q, Entry(r, n))[j] = q[j]
<1>1. Entry(r, n) \in EntryType
  BY Fresh
<1> QED BY <1>1

-----------------------------------------------------------------------------
(* Types *)

\* The steps of process() and of onFailed keep the types.
LEMMA WorkType ==
  ASSUME TypeOK, NEW i \in DOMAIN queue, Process(i) \/ OnFailed(i)
  PROVE  TypeOK'
<1> DEFINE r == queue[i].run
           n == queue[i].step
<1>0. r \in Runs /\ n \in 1..MaxSteps /\ queue[i] \in EntryType
  BY EntryFacts
<1>1. CASE take(i)
  <2>1. AttemptFailed(i, TRUE) \/ Goto(i, "markRun")
    BY <1>1 DEF take
  <2>2. queue' \in Seq(EntryType)
    BY <2>1, FailEntry, GotoEntry, UpdateEntry, Literals
  <2> QED BY <1>1, <2>2 DEF take, TypeOK
<1>2. CASE markRun(i)
  <2> DEFINE row == [job[r] EXCEPT !.status = "PROCESSING", !.currentStep = n]
  <2>1. row \in JobType
    BY <1>0, RowFacts, Literals DEF JobType
  <2>2. updateJob(r, row) /\ Goto(i, "markStep")
    BY <1>2 DEF markRun
  <2> QED BY <1>0, <1>2, <2>1, <2>2, UpdateJob, GotoEntry, UpdateEntry, Literals
          DEF markRun, TypeOK
<1>3. CASE markStep(i)
  <2> DEFINE made == queue[i].made + 1
             row == [step[r][n] EXCEPT !.status = "PROCESSING", !.attempts = made]
  <2>0. made \in Nat /\ step[r][n] \in StepType
    BY <1>0, RowFacts, EntryFacts
  <2>1. row \in StepType
    <3> HIDE DEF made, r, n
    <3> QED BY <2>0, Literals DEF StepType
  <2>2. updateStep(r, n, row) /\ Goto(i, "execute")
    BY <1>3 DEF markStep
  <2> QED BY <1>0, <1>3, <2>1, <2>2, UpdateStep, GotoEntry, UpdateEntry, Literals
          DEF markStep, TypeOK
<1>4. CASE execute(i)
  <2> DEFINE x == Output(previousResult(i), n)
             e == [queue[i] EXCEPT !.pc = "saveResult", !.result = x]
  <2>1. previousResult(i) \in Seq(Nat)
    BY <1>0, RowFacts, Literals DEF previousResult
  <2>2. x \in Seq(Nat)
    BY <1>0, <2>1 DEF Output
  <2>3. e \in EntryType
    <3> HIDE DEF x
    <3> QED BY <1>0, <2>2, Literals DEF EntryType
  <2>4. updateEntry(i, e)
    BY <1>4 DEF execute
  <2> QED BY <1>4, <2>3, <2>4, UpdateEntry DEF execute, TypeOK
<1>5. CASE handlerThrows(i)
  BY <1>5, FailEntry, UpdateEntry DEF handlerThrows, TypeOK
<1>6. CASE saveResult(i)
  <2> DEFINE x == queue[i].result
             row == [step[r][n] EXCEPT !.status = "COMPLETED", !.result = x]
  <2>0. x \in Seq(Nat) /\ step[r][n] \in StepType
    BY <1>0, RowFacts, EntryFacts
  <2>1. row \in StepType
    <3> HIDE DEF x, r, n
    <3> QED BY <2>0, Literals DEF StepType
  <2>2. updateStep(r, n, row) /\ Goto(i, "findNext")
    BY <1>6 DEF saveResult
  <2> QED BY <1>0, <1>6, <2>1, <2>2, UpdateStep, GotoEntry, UpdateEntry, Literals
          DEF saveResult, TypeOK
<1>7. ASSUME NEW m \in 1..MaxSteps, findNext(i, m) PROVE TypeOK'
  <2> DEFINE e == [queue[i] EXCEPT !.pc = "enqueueNext", !.next = m]
  <2>1. e \in EntryType /\ updateEntry(i, e)
    BY <1>0, <1>7, Literals DEF EntryType, findNext
  <2> QED BY <1>7, <2>1, UpdateEntry DEF findNext, TypeOK
<1>8. CASE findNone(i)
  BY <1>8, GotoEntry, UpdateEntry, Literals DEF findNone, TypeOK
<1>9. CASE enqueueNext(i)
  <2> DEFINE e == [queue[i] EXCEPT !.pc = "ack"]
             q == [queue EXCEPT ![i] = e]
  <2>1. e \in EntryType
    BY <1>0, Literals DEF EntryType
  <2>2. q \in Seq(EntryType) /\ queue[i].next \in 1..MaxSteps
    BY <2>1, EntryFacts DEF TypeOK
  <2>3. queue' = Append(q, Entry(r, queue[i].next))
    BY <1>9 DEF enqueueNext
  <2> QED BY <1>0, <1>9, <2>2, <2>3, AppendEntry DEF enqueueNext, TypeOK
<1>10. CASE finishRun(i)
  <2> DEFINE row == [job[r] EXCEPT !.status = "COMPLETED", !.result = queue[i].result,
                                   !.currentStep = job[r].total]
  <2>1. row \in JobType
    BY <1>0, RowFacts, EntryFacts, Literals DEF JobType
  <2>2. updateJob(r, row) /\ Goto(i, "ack")
    BY <1>10 DEF finishRun
  <2> QED BY <1>0, <1>10, <2>1, <2>2, UpdateJob, GotoEntry, UpdateEntry, Literals
          DEF finishRun, TypeOK
<1>11. CASE ack(i)
  <2> DEFINE e == [queue[i] EXCEPT !.pc = "gone", !.result = <<>>, !.next = queue[i].step]
  <2>1. e \in EntryType /\ updateEntry(i, e)
    BY <1>0, <1>11, Literals DEF EntryType, ack
  <2> QED BY <1>11, <2>1, UpdateEntry DEF ack, TypeOK
<1>12. CASE haltStep(i)
  <2> DEFINE made == queue[i].made
             row == [step[r][n] EXCEPT !.status = "FAILED", !.attempts = made]
  <2>0. made \in Nat /\ step[r][n] \in StepType
    BY <1>0, RowFacts, EntryFacts
  <2>1. row \in StepType
    <3> HIDE DEF made, r, n
    <3> QED BY <2>0, Literals DEF StepType
  <2>2. updateStep(r, n, row) /\ Goto(i, "haltRun")
    BY <1>12 DEF haltStep
  <2> QED BY <1>0, <1>12, <2>1, <2>2, UpdateStep, GotoEntry, UpdateEntry, Literals
          DEF haltStep, TypeOK
<1>13. CASE haltRun(i)
  <2> DEFINE row == [job[r] EXCEPT !.status = "FAILED"]
  <2>1. row \in JobType
    BY <1>0, RowFacts, Literals DEF JobType
  <2>2. updateJob(r, row) /\ Goto(i, "gone")
    BY <1>13 DEF haltRun
  <2> QED BY <1>0, <1>13, <2>1, <2>2, UpdateJob, GotoEntry, UpdateEntry, Literals
          DEF haltRun, TypeOK
<1> QED BY <1>1, <1>2, <1>3, <1>4, <1>5, <1>6, <1>7, <1>8, <1>9, <1>10, <1>11, <1>12, <1>13
        DEF Process, OnFailed

\* The requests keep the types.
LEMMA RequestType ==
  ASSUME TypeOK, NewRequests \/ FinishRequests
  PROVE  TypeOK'
<1>1. ASSUME NEW c \in Clients, NEW r \in Runs, NEW n \in 1..MaxSteps, createJob(c, r, n)
      PROVE  TypeOK'
  BY <1>1, Fresh DEF createJob, TypeOK
<1>2. ASSUME NEW c \in Clients, NEW r \in Runs, NEW n \in 1..MaxSteps, retryJobRead(c, r, n)
      PROVE  TypeOK'
  BY <1>2, Fresh DEF retryJobRead, TypeOK
<1>3. ASSUME NEW c \in Clients, retryJobReset(c) PROVE TypeOK'
  <2> DEFINE r == client[c].run
             n == client[c].step
             row == [job[r] EXCEPT !.status = "PROCESSING", !.currentStep = n]
  <2>1. client[c] # Idle /\ client[c].pc = "reset"
    BY <1>3 DEF retryJobReset, Idle
  <2>2. r \in Runs /\ n \in 1..MaxSteps
    BY <2>1, ClientFacts
  <2>3. row \in JobType
    BY <2>2, RowFacts, Literals DEF JobType
  <2>4. updateStep(r, n, NewStep) /\ updateJob(r, row)
    BY <1>3 DEF retryJobReset
  <2>5. client' \in [Clients -> ClientType]
    BY <1>3, <2>2, Fresh DEF retryJobReset, TypeOK
  <2>6. step' \in [Runs -> [1..MaxSteps -> StepType]]
    BY <2>2, <2>4, UpdateStep, Fresh
  <2>7. job' \in [Runs -> JobType]
    BY <2>2, <2>3, <2>4, UpdateJob
  <2> QED BY <1>3, <2>5, <2>6, <2>7 DEF retryJobReset, TypeOK
<1>4. ASSUME NEW c \in Clients, requestEnqueue(c) PROVE TypeOK'
  <2>1. client[c] # Idle
    BY <1>4 DEF requestEnqueue, Idle
  <2>2. queue' \in Seq(EntryType)
    BY <1>4, <2>1, ClientFacts, AppendEntry DEF requestEnqueue, enqueueStep, TypeOK
  <2> QED BY <1>4, <2>2, Fresh DEF requestEnqueue, TypeOK
<1> QED BY <1>1, <1>2, <1>3, <1>4 DEF NewRequests, FinishRequests

\* The faults keep the types.
LEMMA FailureType ==
  ASSUME TypeOK, Failures
  PROVE  TypeOK'
<1>0. ASSUME NEW kind, Fault(kind)
      PROVE  faults' \in [FaultKinds -> Nat] /\ UNCHANGED <<job, step, retries>>
  BY <1>0 DEF Fault, TypeOK
<1>1. ASSUME NEW i \in DOMAIN queue, workerDies(i) PROVE TypeOK'
  <2> DEFINE stalls == queue[i].stalls + 1
             own == queue[i].step
             e == [queue[i] EXCEPT !.pc = "wait", !.stalls = stalls, !.result = <<>>, !.next = own]
  <2>0. stalls \in Nat /\ queue[i] \in EntryType /\ own \in 1..MaxSteps
    BY EntryFacts
  <2>1. updateEntry(i, e)
    BY <1>1 DEF workerDies
  <2>2. e \in EntryType
    <3> HIDE DEF stalls, own
    <3> QED BY <2>0, Literals DEF EntryType
  <2>3. queue' \in Seq(EntryType)
    BY <2>1, <2>2, UpdateEntry
  <2> QED BY <1>0, <1>1, <2>3 DEF workerDies, TypeOK
<1>2. ASSUME NEW i \in DOMAIN queue, storeThrows(i) PROVE TypeOK'
  <2>1. queue' \in Seq(EntryType)
    BY <1>2, FailEntry, UpdateEntry DEF storeThrows
  <2> QED BY <1>0, <1>2, <2>1 DEF storeThrows, TypeOK
<1>3. ASSUME NEW i \in DOMAIN queue, haltIsLost(i) PROVE TypeOK'
  <2>1. queue' \in Seq(EntryType)
    BY <1>3, GotoEntry, UpdateEntry, Literals DEF haltIsLost
  <2> QED BY <1>0, <1>3, <2>1 DEF haltIsLost, TypeOK
<1>4. ASSUME NEW c \in Clients, requestIsLost(c) PROVE TypeOK'
  BY <1>0, <1>4, Fresh DEF requestIsLost, TypeOK
<1> QED BY <1>1, <1>2, <1>3, <1>4 DEF Failures

\* The types of the rows, the queue and the requests, for every instance of the
\* pipeline: whatever its size, its clients, its workers and its faults.
THEOREM TypeCorrect == Spec => []TypeOK
<1>1. Init => TypeOK
  BY Fresh DEF Init, TypeOK
<1>2. TypeOK /\ [Next]_vars => TypeOK'
  <2>1. CASE UNCHANGED vars
    BY <2>1 DEF vars, TypeOK
  <2> QED BY <2>1, WorkType, RequestType, FailureType DEF Next, Work
<1> QED BY <1>1, <1>2, PTL DEF Spec

-----------------------------------------------------------------------------
(***************************************************************************)
(* Safety.  Disciplined is the hypothesis of these theorems, and names the *)
(* causes of the two runs that find a violation: no two requests stand     *)
(* between retryJob's check and its transaction for the same run, and an   *)
(* entry whose process() has returned is not delivered again.  RowsOK and  *)
(* DriverOK are the parts of PipelineInv that speak of one run.            *)
(***************************************************************************)
RetriesApart ==
  \A c, d \in Clients :
    client[c].pc = "reset" /\ client[d].pc = "reset" /\ client[c].run = client[d].run => c = d

ReturnIsRecorded ==
  \A i \in DOMAIN queue : queue[i].pc = "ack" => queue'[i].pc \in {"ack", "gone"}

Disciplined == []RetriesApart /\ [][ReturnIsRecorded]_vars

RowsOK(r) ==
  /\ \A n \in StepsOf(r) : step[r][n].status # "PENDING" =>
       \A m \in 1..(n - 1) : step[r][m].status = "COMPLETED"
  /\ \A n \in StepsOf(r) :
       step[r][n].status = "COMPLETED" => step[r][n].result = FullOutput(n)
  /\ job[r].status = "COMPLETED" =>
       /\ StepsWith(r, "COMPLETED") = StepsOf(r)
       /\ job[r].result = FullOutput(job[r].total)
  /\ job[r].status = "FAILED" =>
       \E n \in StepsOf(r) :
         /\ step[r][n].status = "FAILED" /\ step[r][n].attempts = MaxAttempts
         /\ \A m \in 1..(n - 1) : step[r][m].status = "COMPLETED"
         /\ \A m \in (n + 1)..job[r].total : step[r][m].status = "PENDING"

DriverOK(r) ==
  /\ \A i, j \in LiveEntries(r) : i = j
  /\ \A c, d \in LiveRequests(r) : c = d
  /\ LiveEntries(r) = {} \/ LiveRequests(r) = {}
  /\ \A i \in LiveEntries(r) : Drives(queue[i])

RunsOK == /\ \A r \in Runs : RowsOK(r) /\ DriverOK(r)
          /\ \A c \in Clients : Pending(client[c])

\* PipelineInv, one run at a time.
LEMMA ByRun == TypeOK => (PipelineInv <=> RunsOK)
<1> SUFFICES ASSUME TypeOK PROVE PipelineInv <=> RunsOK
  OBVIOUS
<1>1. \A i \in DOMAIN queue : queue[i].run \in Runs
  BY EntryFacts
<1>2. (\A i \in DOMAIN queue : queue[i].pc \in LivePcs => Drives(queue[i]))
        <=> \A r \in Runs : \A i \in LiveEntries(r) : Drives(queue[i])
  BY <1>1 DEF LiveEntries
<1>3. (StepsRunInOrder /\ OutputsChain /\ CompletedRunIsWhole /\ FailedRunIsRetriable)
        <=> \A r \in Runs : RowsOK(r)
  BY DEF StepsRunInOrder, OutputsChain, CompletedRunIsWhole, FailedRunIsRetriable, RowsOK
<1>4. (OneDriver /\ \A r \in Runs : \A i \in LiveEntries(r) : Drives(queue[i]))
        <=> \A r \in Runs : DriverOK(r)
  BY DEF OneDriver, DriverOK
<1> QED BY <1>2, <1>3, <1>4 DEF PipelineInv, DriversAtFrontier, RunsOK

\* A run whose rows and drivers a step leaves alone keeps its part of the invariant.
LEMMA OtherRun ==
  ASSUME NEW r \in Runs, RowsOK(r), DriverOK(r),
         job'[r] = job[r], step'[r] = step[r],
         LiveEntries(r)' = LiveEntries(r), LiveRequests(r)' \subseteq LiveRequests(r),
         \A i \in LiveEntries(r) : queue'[i] = queue[i] /\ queue[i].run = r
  PROVE  RowsOK(r)' /\ DriverOK(r)'
<1>1. StepsOf(r)' = StepsOf(r) /\ \A s : StepsWith(r, s)' = StepsWith(r, s)
  BY DEF StepsOf, StepsWith
<1>2. RowsOK(r)'
  BY <1>1 DEF RowsOK
<1>3. ASSUME NEW i \in LiveEntries(r) PROVE Drives(queue[i])'
  <2>1. Drives(queue[i])
    BY DEF DriverOK
  <2> QED BY <1>1, <2>1 DEF Drives, Frontier
<1> QED BY <1>2, <1>3 DEF DriverOK

\* The requests of the other runs keep theirs.
LEMMA OtherRequest ==
  ASSUME NEW c \in Clients, Pending(client[c]), client'[c] = client[c],
         client[c].pc \in {"enqueue", "reset"} =>
           /\ job'[client[c].run] = job[client[c].run]
           /\ step'[client[c].run] = step[client[c].run]
  PROVE  Pending(client[c])'
  BY DEF Pending, Frontier, StepsOf

\* A step of process() or of onFailed rewrites one live entry and rows of its
\* run: what is left to show of it is about that entry and that run alone.
LEMMA EntryStep ==
  ASSUME TypeOK, TypeOK', PipelineInv, UNCHANGED client,
         NEW i \in DOMAIN queue, queue[i].pc \in LivePcs,
         NEW e \in EntryType, e.run = queue[i].run, updateEntry(i, e),
         \A q \in Runs : q # e.run => job'[q] = job[q] /\ step'[q] = step[q],
         RowsOK(e.run)', e.pc \in LivePcs => Drives(e)'
  PROVE  PipelineInv'
<1> DEFINE r == e.run
<1>0. r \in Runs /\ i \in LiveEntries(r) /\ (\A q \in Runs : RowsOK(q) /\ DriverOK(q))
      /\ \A c \in Clients : Pending(client[c])
  BY ByRun, EntryFacts DEF LiveEntries, RunsOK
<1>1. /\ DOMAIN queue' = DOMAIN queue /\ queue'[i] = e
      /\ \A j \in DOMAIN queue : j # i => queue'[j] = queue[j]
  BY UpdateEntry
<1>2. LiveEntries(r) = {i} /\ LiveRequests(r) = {}
  BY <1>0 DEF DriverOK
<1>3. LiveEntries(r)' = IF e.pc \in LivePcs THEN {i} ELSE {}
  BY <1>1, <1>2 DEF LiveEntries
<1>4. \A q \in Runs : LiveRequests(q)' = LiveRequests(q)
  BY DEF LiveRequests
<1>5. DriverOK(r)'
  BY <1>1, <1>2, <1>3, <1>4, <1>0 DEF DriverOK
<1>6. ASSUME NEW q \in Runs, q # r PROVE RowsOK(q)' /\ DriverOK(q)'
  <2>1. LiveEntries(q)' = LiveEntries(q)
    BY <1>1, <1>6 DEF LiveEntries
  <2>2. \A j \in LiveEntries(q) : queue'[j] = queue[j] /\ queue[j].run = q
    BY <1>1, <1>6 DEF LiveEntries
  <2> QED BY <1>0, <1>4, <1>6, <2>1, <2>2, OtherRun
<1>7. ASSUME NEW c \in Clients PROVE Pending(client[c])'
  <2>1. client[c].pc = "enqueue" => client[c].run # r
    BY <1>2 DEF LiveRequests
  <2>2. job[r].status \in {"PENDING", "PROCESSING"}
    BY <1>0, <1>2 DEF DriverOK, Drives, Frontier
  <2>3. client[c].pc = "reset" => client[c].run # r
    BY <1>0, <2>2 DEF Pending
  <2>4. client[c].pc \in {"enqueue", "reset"} => client[c].run \in Runs
    BY ClientFacts DEF Idle
  <2> QED BY <1>0, <2>1, <2>3, <2>4, OtherRequest
<1>8. RunsOK'
  BY <1>0, <1>5, <1>6, <1>7 DEF RunsOK
<1>9. (TypeOK => (PipelineInv <=> RunsOK))'
  BY ByRun, PTL
<1> QED BY <1>8, <1>9

\* What PipelineInv says of a live entry and its run.
LEMMA LiveFacts ==
  ASSUME PipelineInv, NEW i \in DOMAIN queue, queue[i].pc \in LivePcs
  PROVE  /\ TypeOK /\ queue[i] \in EntryType
         /\ queue[i].run \in Runs /\ queue[i].step \in 1..MaxSteps
         /\ queue[i].pc \in EntryPcs
         /\ RowsOK(queue[i].run) /\ Drives(queue[i])
         /\ Frontier(queue[i].run, queue[i].step)
         /\ job[queue[i].run] \in JobType /\ job[queue[i].run].total \in 0..MaxSteps
<1>1. TypeOK
  BY DEF PipelineInv
<1>2. Drives(queue[i])
  BY DEF PipelineInv, DriversAtFrontier
<1>3. queue[i].run \in Runs /\ queue[i].step \in 1..MaxSteps
  BY <1>1, EntryFacts
<1> QED BY <1>1, <1>2, <1>3, EntryFacts, RowFacts, ByRun DEF RunsOK, Drives

\* Rows that do not change stay in order, and an entry that only moves stays at
\* the frontier.
LEMMA SameRows ==
  ASSUME UNCHANGED <<job, step>>
  PROVE  /\ \A r \in Runs : RowsOK(r) => RowsOK(r)'
         /\ \A r, n : Frontier(r, n) => Frontier(r, n)'
<1>1. \A r : StepsOf(r)' = StepsOf(r) /\ \A s : StepsWith(r, s)' = StepsWith(r, s)
  BY DEF StepsOf, StepsWith
<1> QED BY <1>1 DEF RowsOK, Frontier

\* Failing an attempt keeps the invariant: the entry waits again, is given up, or
\* is about to halt its run with its attempts used up.
LEMMA FailSafe ==
  ASSUME PipelineInv, TypeOK', NEW i \in DOMAIN queue, queue[i].pc \in LivePcs \ HaltPcs,
         NEW final \in BOOLEAN, AttemptFailed(i, final), UNCHANGED <<job, step, client>>
  PROVE  PipelineInv'
<1>0. TypeOK /\ queue[i] \in EntryType /\ queue[i].run \in Runs /\ queue[i].made \in Nat
      /\ RowsOK(queue[i].run) /\ Drives(queue[i]) /\ queue[i].made < MaxAttempts
  BY LiveFacts, EntryFacts DEF Drives
<1>1. PICK e \in EntryType :
        /\ updateEntry(i, e)
        /\ e.run = queue[i].run /\ e.step = queue[i].step /\ e.made = queue[i].made + 1
        /\ e.pc \in {"haltStep", "gone", "wait"}
        /\ e.pc = "haltStep" <=> e.made >= MaxAttempts
  BY <1>0, FailEntry
<1>2. Drives(e)'
  <2>1. Frontier(e.run, e.step)'
    BY <1>0, <1>1, SameRows DEF Drives
  <2>2. IF e.pc \in HaltPcs THEN e.made = MaxAttempts ELSE e.made < MaxAttempts
    BY <1>0, <1>1 DEF HaltPcs
  <2> QED BY <1>1, <2>1, <2>2 DEF Drives
<1>3. RowsOK(e.run)'
  BY <1>0, <1>1, SameRows
<1> QED BY <1>0, <1>1, <1>2, <1>3, EntryStep

\* Moving a live entry on, its rows unchanged.
LEMMA MoveSafe ==
  ASSUME PipelineInv, TypeOK', NEW i \in DOMAIN queue, queue[i].pc \in LivePcs,
         UNCHANGED <<job, step, client>>,
         NEW e \in EntryType, updateEntry(i, e),
         e.run = queue[i].run, e.step = queue[i].step, e.made = queue[i].made,
         Frontier(e.run, e.step) => Drives(e)
  PROVE  PipelineInv'
<1>1. RowsOK(e.run)'
  BY LiveFacts, SameRows
<1>2. Drives(e)'
  <2>1. Drives(e)
    BY LiveFacts DEF Drives
  <2> QED BY <2>1, SameRows DEF Drives
<1> QED BY <1>1, <1>2, LiveFacts, EntryStep

\* The steps of process() that do not write the rows keep the invariant.
LEMMA ReadSafe ==
  ASSUME PipelineInv, TypeOK', NEW i \in DOMAIN queue,
         \/ take(i) \/ execute(i) \/ handlerThrows(i) \/ findNone(i)
         \/ \E n \in 1..MaxSteps : findNext(i, n)
  PROVE  PipelineInv'
<1> DEFINE r == queue[i].run
           n == queue[i].step
<1>0. queue[i].pc \in LivePcs
  BY DEF take, execute, handlerThrows, findNone, findNext, LivePcs, EntryPcs, ActivePcs
<1>00. /\ TypeOK /\ queue[i] \in EntryType /\ r \in Runs /\ n \in 1..MaxSteps
       /\ RowsOK(r) /\ Drives(queue[i]) /\ Frontier(r, n) /\ job[r].total \in 0..MaxSteps
  BY <1>0, LiveFacts
<1>1. CASE take(i)
  <2>1. CASE AttemptFailed(i, TRUE)
    BY <1>0, <1>1, <2>1, FailSafe DEF take, HaltPcs
  <2>2. CASE Goto(i, "markRun")
    <3> DEFINE e == [queue[i] EXCEPT !.pc = "markRun"]
    <3>1. e \in EntryType /\ updateEntry(i, e)
      BY <1>00, <2>2, GotoEntry, Literals
    <3>2. /\ e.run = r /\ e.step = n /\ e.made = queue[i].made /\ e.pc = "markRun"
          /\ queue[i].made < MaxAttempts
      BY <1>00, <1>1 DEF take, Drives, HaltPcs, EntryType
    <3> HIDE DEF e
    <3>3. Drives(e)
      BY <1>00, <3>2 DEF Drives, HaltPcs
    <3> QED BY <1>0, <1>1, <3>1, <3>2, <3>3, MoveSafe DEF take
  <2> QED BY <1>1, <2>1, <2>2 DEF take
<1>2. CASE execute(i)
  <2> DEFINE x == Output(previousResult(i), n)
             e == [queue[i] EXCEPT !.pc = "saveResult", !.result = x]
  <2>1. updateEntry(i, e) /\ queue[i].pc = "execute"
    BY <1>2 DEF execute
  <2>2. x = FullOutput(n) /\ x \in Seq(Nat)
    <3>0. n \in Nat \ {0}
      BY <1>00
    <3>1. CASE n = 1
      <4>1. n - 1 = 0 /\ previousResult(i) = <<>>
        BY <3>1 DEF previousResult
      <4>2. previousResult(i) = FullOutput(n - 1)
        BY <4>1, NoOutput
      <4> QED BY <3>0, <4>2, OutputFull
    <3>2. CASE n > 1
      <4>1. n - 1 \in StepsOf(r) /\ step[r][n - 1].status = "COMPLETED"
        BY <1>00, <3>2 DEF Frontier, StepsOf
      <4>2. previousResult(i) = FullOutput(n - 1)
        BY <1>00, <3>2, <4>1 DEF RowsOK, previousResult
      <4> QED BY <3>0, <4>2, OutputFull
    <3> QED BY <3>0, <3>1, <3>2
  <2>3. /\ e \in EntryType
        /\ e.run = r /\ e.step = n /\ e.made = queue[i].made
        /\ e.pc = "saveResult" /\ e.result = x
    <3> HIDE DEF x
    <3> QED BY <1>00, <2>2, Literals DEF EntryType
  <2> HIDE DEF e, x
  <2>4. Drives(e)
    BY <1>00, <2>1, <2>2, <2>3 DEF Drives, HaltPcs
  <2> QED BY <1>0, <1>2, <2>1, <2>3, <2>4, MoveSafe DEF execute
<1>3. CASE handlerThrows(i)
  BY <1>0, <1>3, FailSafe DEF handlerThrows, HaltPcs
<1>4. CASE findNone(i)
  <2> DEFINE e == [queue[i] EXCEPT !.pc = "finishRun"]
  <2>1. e \in EntryType /\ updateEntry(i, e) /\ queue[i].pc = "findNext"
    BY <1>00, <1>4, GotoEntry, Literals DEF findNone
  <2>2. /\ e.run = r /\ e.step = n /\ e.made = queue[i].made
        /\ e.pc = "finishRun" /\ e.result = queue[i].result
    BY <1>00 DEF EntryType
  <2> HIDE DEF e
  <2>3. n = job[r].total
    <3>1. n + 1 \in StepsOf(r) => n + 1 \in StepsWith(r, "PENDING")
      BY <1>00 DEF Frontier, StepsWith, StepsOf
    <3> QED BY <1>00, <1>4, <3>1 DEF findNone, Frontier, StepsOf
  <2>4. Drives(e)
    BY <1>00, <2>1, <2>2, <2>3 DEF Drives, HaltPcs
  <2> QED BY <1>0, <1>4, <2>1, <2>2, <2>4, MoveSafe DEF findNone
<1>5. ASSUME NEW m \in 1..MaxSteps, findNext(i, m) PROVE PipelineInv'
  <2> DEFINE e == [queue[i] EXCEPT !.pc = "enqueueNext", !.next = m]
  <2>1. e \in EntryType /\ updateEntry(i, e) /\ queue[i].pc = "findNext"
    BY <1>00, <1>5, Literals DEF findNext, EntryType
  <2>2. /\ e.run = r /\ e.step = n /\ e.made = queue[i].made
        /\ e.pc = "enqueueNext" /\ e.result = queue[i].result /\ e.next = m
    BY <1>00 DEF EntryType
  <2> HIDE DEF e
  <2>3. n < job[r].total /\ m = n + 1
    <3>1. m \in StepsWith(r, "PENDING") /\ \A k \in StepsWith(r, "PENDING") : m <= k
      BY <1>5 DEF findNext, First
    <3>2. step[r][n].status = "COMPLETED"
      BY <1>00, <2>1 DEF Drives
    <3>3. m > n /\ m <= job[r].total
      BY <1>00, <3>1, <3>2 DEF Frontier, StepsWith, StepsOf
    <3>4. n + 1 \in StepsWith(r, "PENDING")
      BY <1>00, <3>3 DEF Frontier, StepsWith, StepsOf
    <3> QED BY <1>00, <3>1, <3>3, <3>4
  <2>4. Drives(e)
    BY <1>00, <2>1, <2>2, <2>3 DEF Drives, HaltPcs
  <2> QED BY <1>0, <1>5, <2>1, <2>2, <2>4, MoveSafe DEF findNext
<1> QED BY <1>1, <1>2, <1>3, <1>4, <1>5

\* Moving an entry on changes its program counter only.
LEMMA GotoFacts ==
  ASSUME TypeOK, NEW i \in DOMAIN queue, NEW pc \in EntryPcs, Goto(i, pc)
  PROVE  \E e \in EntryType :
           /\ updateEntry(i, e) /\ e.pc = pc
           /\ e.run = queue[i].run /\ e.step = queue[i].step
           /\ e.made = queue[i].made /\ e.result = queue[i].result
<1> DEFINE e == [queue[i] EXCEPT !.pc = pc]
<1>0. queue[i] \in EntryType
  BY EntryFacts
<1>1. e \in EntryType /\ updateEntry(i, e)
  BY GotoEntry
<1>2. /\ e.pc = pc /\ e.run = queue[i].run /\ e.step = queue[i].step
      /\ e.made = queue[i].made /\ e.result = queue[i].result
  BY <1>0 DEF EntryType
<1> QED BY <1>1, <1>2

\* Writing the row of the step at the frontier, with a result that is the full
\* output if the step is to be COMPLETED.
LEMMA StepWrite ==
  ASSUME TypeOK, UNCHANGED job, NEW r \in Runs, NEW n, RowsOK(r), Frontier(r, n),
         NEW row \in StepType, updateStep(r, n, row),
         row.status = "COMPLETED" => row.result = FullOutput(n)
  PROVE  /\ RowsOK(r)' /\ Frontier(r, n)' /\ step'[r][n] = row
         /\ \A q \in Runs : q # r => step'[q] = step[q]
<1> DEFINE total == job[r].total
<1>0. /\ n \in 1..total /\ total \in 0..MaxSteps /\ n \in 1..MaxSteps
      /\ job[r].status \notin {"COMPLETED", "FAILED"}
  BY RowFacts DEF Frontier, StepsOf, JobType
<1>1. /\ step'[r][n] = row
      /\ \A m \in 1..MaxSteps : m # n => step'[r][m] = step[r][m]
      /\ \A q \in Runs : q # r => step'[q] = step[q]
  BY <1>0, UpdateStep
<1>2. StepsOf(r) = 1..total /\ StepsOf(r)' = 1..total
  BY DEF StepsOf
<1>3. Frontier(r, n)'
  BY <1>0, <1>1, <1>2 DEF Frontier
<1>4. ASSUME NEW m \in 1..total, step'[r][m].status # "PENDING"
      PROVE  m <= n
  BY <1>0, <1>1, <1>3, <1>4 DEF Frontier
<1>5. \A m \in 1..total : step'[r][m].status # "PENDING" =>
        \A k \in 1..(m - 1) : step'[r][k].status = "COMPLETED"
  BY <1>0, <1>3, <1>4 DEF Frontier
<1>6. \A m \in 1..total :
        step'[r][m].status = "COMPLETED" => step'[r][m].result = FullOutput(m)
  BY <1>0, <1>1, <1>2 DEF RowsOK
<1> HIDE DEF total
<1> QED BY <1>0, <1>1, <1>2, <1>3, <1>5, <1>6 DEF RowsOK

\* Writing the row of a run whose steps stand at the frontier n.
LEMMA JobWrite ==
  ASSUME TypeOK, UNCHANGED step, NEW r \in Runs, NEW n, RowsOK(r), Frontier(r, n),
         NEW row \in JobType, updateJob(r, row), row.total = job[r].total,
         row.status = "COMPLETED" =>
           /\ n = job[r].total /\ step[r][n].status = "COMPLETED"
           /\ row.result = FullOutput(n),
         row.status = "FAILED" =>
           step[r][n].status = "FAILED" /\ step[r][n].attempts = MaxAttempts
  PROVE  /\ RowsOK(r)' /\ job'[r] = row
         /\ row.status = "PROCESSING" => Frontier(r, n)'
         /\ \A q \in Runs : q # r => job'[q] = job[q]
<1> DEFINE total == job[r].total
<1>0. n \in 1..total /\ total \in 0..MaxSteps
  BY RowFacts DEF Frontier, StepsOf, JobType
<1>1. job'[r] = row /\ \A q \in Runs : q # r => job'[q] = job[q]
  BY UpdateJob
<1>2. StepsOf(r) = 1..total /\ StepsOf(r)' = 1..total
  BY <1>1 DEF StepsOf
<1>3. /\ \A m \in 1..(n - 1) : step'[r][m].status = "COMPLETED"
      /\ \A m \in (n + 1)..total : step'[r][m].status = "PENDING"
  BY DEF Frontier
<1>4. row.status = "PROCESSING" => Frontier(r, n)'
  BY <1>0, <1>1, <1>2, <1>3 DEF Frontier
<1>5. job'[r].status = "COMPLETED" =>
        /\ StepsWith(r, "COMPLETED")' = StepsOf(r)'
        /\ job'[r].result = FullOutput(job'[r].total)
  BY <1>0, <1>1, <1>2, <1>3 DEF StepsWith
<1>6. job'[r].status = "FAILED" =>
        \E k \in StepsOf(r)' :
          /\ step'[r][k].status = "FAILED" /\ step'[r][k].attempts = MaxAttempts
          /\ \A m \in 1..(k - 1) : step'[r][m].status = "COMPLETED"
          /\ \A m \in (k + 1)..job'[r].total : step'[r][m].status = "PENDING"
  BY <1>0, <1>1, <1>2, <1>3
<1>7. RowsOK(r)'
  BY <1>2, <1>5, <1>6 DEF RowsOK
<1> QED BY <1>1, <1>4, <1>7

\* The steps of process() and onFailed that write a row keep the invariant.
LEMMA WriteSafe ==
  ASSUME PipelineInv, TypeOK', NEW i \in DOMAIN queue,
         \/ markRun(i) \/ markStep(i) \/ saveResult(i) \/ finishRun(i)
         \/ haltStep(i) \/ haltRun(i)
  PROVE  PipelineInv'
<1> SUFFICES ASSUME NEW r, r = queue[i].run, NEW n, n = queue[i].step,
                    NEW x, x = queue[i].result, NEW made, made = queue[i].made,
                    NEW total, total = job[r].total
             PROVE  PipelineInv'
  OBVIOUS
<1>0. queue[i].pc \in LivePcs
  BY DEF markRun, markStep, saveResult, finishRun, haltStep, haltRun,
         LivePcs, EntryPcs, ActivePcs, HaltPcs
<1>00. /\ TypeOK /\ queue[i] \in EntryType /\ r \in Runs /\ n \in 1..MaxSteps
       /\ RowsOK(r) /\ Drives(queue[i]) /\ Frontier(r, n)
       /\ job[r] \in JobType /\ total \in 0..MaxSteps
       /\ step[r][n] \in StepType /\ x \in Seq(Nat) /\ made \in Nat
       /\ (queue[i].pc \notin HaltPcs => made < MaxAttempts)
  BY <1>0, LiveFacts, EntryFacts, RowFacts DEF Drives
<1>1. ASSUME NEW pc \in EntryPcs, Goto(i, pc)
      PROVE  \E e \in EntryType : /\ updateEntry(i, e) /\ e.pc = pc /\ e.run = r
                                  /\ e.step = n /\ e.made = made /\ e.result = x
  BY <1>00, <1>1, GotoFacts
<1>2. CASE markRun(i)
  <2> DEFINE row == [job[r] EXCEPT !.status = "PROCESSING", !.currentStep = n]
  <2>1. /\ queue[i].pc = "markRun" /\ updateJob(r, row) /\ Goto(i, "markStep")
        /\ UNCHANGED <<step, client>>
    BY <1>2 DEF markRun
  <2>2. /\ row \in JobType /\ row.total = total /\ row.status = "PROCESSING"
    BY <1>00, Literals DEF JobType
  <2>3. PICK e \in EntryType : /\ updateEntry(i, e) /\ e.pc = "markStep" /\ e.run = r
                               /\ e.step = n /\ e.made = made /\ e.result = x
    BY <1>1, <2>1, Literals
  <2> HIDE DEF row
  <2>4. RowsOK(r)' /\ Frontier(r, n)' /\ \A q \in Runs : q # r => job'[q] = job[q]
    BY <1>00, <2>1, <2>2, JobWrite
  <2>5. Drives(e)'
    BY <1>00, <2>1, <2>3, <2>4 DEF Drives, HaltPcs
  <2> QED BY <1>0, <1>00, <2>1, <2>3, <2>4, <2>5, EntryStep
<1>3. CASE markStep(i)
  <2> DEFINE k == made + 1
             row == [step[r][n] EXCEPT !.status = "PROCESSING", !.attempts = k]
  <2>1. /\ queue[i].pc = "markStep" /\ updateStep(r, n, row) /\ Goto(i, "execute")
        /\ UNCHANGED <<job, client>>
    BY <1>3 DEF markStep
  <2>2. k \in Nat
    BY <1>00
  <2>3. row \in StepType /\ row.status = "PROCESSING"
    <3> HIDE DEF k
    <3> QED BY <1>00, <2>2, Literals DEF StepType
  <2>4. PICK e \in EntryType : /\ updateEntry(i, e) /\ e.pc = "execute" /\ e.run = r
                               /\ e.step = n /\ e.made = made /\ e.result = x
    BY <1>1, <2>1, Literals
  <2> HIDE DEF row
  <2>5. RowsOK(r)' /\ Frontier(r, n)' /\ \A q \in Runs : q # r => step'[q] = step[q]
    BY <1>00, <2>1, <2>3, StepWrite
  <2>6. Drives(e)'
    BY <1>00, <2>1, <2>4, <2>5 DEF Drives, HaltPcs
  <2> QED BY <1>0, <1>00, <2>1, <2>4, <2>5, <2>6, EntryStep
<1>4. CASE saveResult(i)
  <2> DEFINE row == [step[r][n] EXCEPT !.status = "COMPLETED", !.result = x]
  <2>1. /\ queue[i].pc = "saveResult" /\ updateStep(r, n, row) /\ Goto(i, "findNext")
        /\ UNCHANGED <<job, client>>
    BY <1>4 DEF saveResult
  <2>2. row \in StepType /\ row.status = "COMPLETED" /\ row.result = x
    BY <1>00, Literals DEF StepType
  <2>3. x = FullOutput(n)
    BY <1>00, <2>1 DEF Drives
  <2>4. PICK e \in EntryType : /\ updateEntry(i, e) /\ e.pc = "findNext" /\ e.run = r
                               /\ e.step = n /\ e.made = made /\ e.result = x
    BY <1>1, <2>1, Literals
  <2> HIDE DEF row
  <2>5. /\ RowsOK(r)' /\ Frontier(r, n)' /\ step'[r][n] = row
        /\ \A q \in Runs : q # r => step'[q] = step[q]
    BY <1>00, <2>1, <2>2, <2>3, StepWrite
  <2>6. Drives(e)'
    BY <1>00, <2>1, <2>2, <2>3, <2>4, <2>5 DEF Drives, HaltPcs
  <2> QED BY <1>0, <1>00, <2>1, <2>4, <2>5, <2>6, EntryStep
<1>5. CASE finishRun(i)
  <2> DEFINE row == [job[r] EXCEPT !.status = "COMPLETED", !.result = x,
                                   !.currentStep = total]
  <2>1. /\ queue[i].pc = "finishRun" /\ updateJob(r, row) /\ Goto(i, "ack")
        /\ UNCHANGED <<step, client>>
    BY <1>5 DEF finishRun
  <2>2. row \in JobType /\ row.total = total /\ row.status = "COMPLETED" /\ row.result = x
    BY <1>00, Literals DEF JobType
  <2>3. n = total /\ x = FullOutput(n) /\ step[r][n].status = "COMPLETED"
    BY <1>00, <2>1 DEF Drives
  <2>4. PICK e \in EntryType : /\ updateEntry(i, e) /\ e.pc = "ack" /\ e.run = r
                               /\ e.step = n /\ e.made = made /\ e.result = x
    BY <1>1, <2>1, Literals
  <2> HIDE DEF row
  <2>5. RowsOK(r)' /\ \A q \in Runs : q # r => job'[q] = job[q]
    BY <1>00, <2>1, <2>2, <2>3, JobWrite
  <2> QED BY <1>0, <1>00, <2>1, <2>4, <2>5, EntryStep DEF LivePcs
<1>6. CASE haltStep(i)
  <2> DEFINE row == [step[r][n] EXCEPT !.status = "FAILED", !.attempts = made]
  <2>1. /\ queue[i].pc = "haltStep" /\ updateStep(r, n, row) /\ Goto(i, "haltRun")
        /\ UNCHANGED <<job, client>>
    BY <1>6 DEF haltStep
  <2>2. row \in StepType /\ row.status = "FAILED" /\ row.attempts = made
    BY <1>00, Literals DEF StepType
  <2>3. made = MaxAttempts
    BY <1>00, <2>1 DEF Drives, HaltPcs
  <2>4. PICK e \in EntryType : /\ updateEntry(i, e) /\ e.pc = "haltRun" /\ e.run = r
                               /\ e.step = n /\ e.made = made /\ e.result = x
    BY <1>1, <2>1, Literals
  <2> HIDE DEF row
  <2>5. /\ RowsOK(r)' /\ Frontier(r, n)' /\ step'[r][n] = row
        /\ \A q \in Runs : q # r => step'[q] = step[q]
    BY <1>00, <2>1, <2>2, StepWrite
  <2>6. Drives(e)'
    BY <1>00, <2>1, <2>2, <2>3, <2>4, <2>5 DEF Drives, HaltPcs
  <2> QED BY <1>0, <1>00, <2>1, <2>4, <2>5, <2>6, EntryStep
<1>7. CASE haltRun(i)
  <2> DEFINE row == [job[r] EXCEPT !.status = "FAILED"]
  <2>1. /\ queue[i].pc = "haltRun" /\ updateJob(r, row) /\ Goto(i, "gone")
        /\ UNCHANGED <<step, client>>
    BY <1>7 DEF haltRun
  <2>2. row \in JobType /\ row.total = total /\ row.status = "FAILED"
    BY <1>00, Literals DEF JobType
  <2>3. step[r][n].status = "FAILED" /\ step[r][n].attempts = MaxAttempts
    BY <1>00, <2>1 DEF Drives
  <2>4. PICK e \in EntryType : /\ updateEntry(i, e) /\ e.pc = "gone" /\ e.run = r
                               /\ e.step = n /\ e.made = made /\ e.result = x
    BY <1>1, <2>1, Literals
  <2> HIDE DEF row
  <2>5. RowsOK(r)' /\ \A q \in Runs : q # r => job'[q] = job[q]
    BY <1>00, <2>1, <2>2, <2>3, JobWrite
  <2> QED BY <1>0, <1>00, <2>1, <2>4, <2>5, EntryStep DEF LivePcs
<1> QED BY <1>2, <1>3, <1>4, <1>5, <1>6, <1>7

\* A step that concerns run r only: what is left to show is about r and the requests.
LEMMA RunStep ==
  ASSUME TypeOK, TypeOK', PipelineInv, NEW r \in Runs, RowsOK(r)', DriverOK(r)',
         \A q \in Runs : q # r =>
           /\ job'[q] = job[q] /\ step'[q] = step[q]
           /\ LiveEntries(q)' = LiveEntries(q) /\ LiveRequests(q)' \subseteq LiveRequests(q)
           /\ \A i \in LiveEntries(q) : queue'[i] = queue[i],
         \A c \in Clients : Pending(client[c])'
  PROVE  PipelineInv'
<1>1. \A q \in Runs : RowsOK(q) /\ DriverOK(q)
  BY ByRun DEF RunsOK
<1>2. \A q \in Runs : \A i \in LiveEntries(q) : queue[i].run = q
  BY DEF LiveEntries
<1>3. \A q \in Runs : q # r => RowsOK(q)' /\ DriverOK(q)'
  BY <1>1, <1>2, OtherRun
<1>4. RunsOK'
  BY <1>3 DEF RunsOK
<1>5. (TypeOK => (PipelineInv <=> RunsOK))'
  BY ByRun, PTL
<1> QED BY <1>4, <1>5

\* A step that moves no live entry and writes no row: only the requests matter.
LEMMA QuietStep ==
  ASSUME TypeOK, TypeOK', PipelineInv, UNCHANGED <<job, step>>,
         \A q \in Runs :
           /\ LiveEntries(q)' = LiveEntries(q) /\ LiveRequests(q)' \subseteq LiveRequests(q)
           /\ \A i \in LiveEntries(q) : queue'[i] = queue[i],
         \A c \in Clients : Pending(client[c])'
  PROVE  PipelineInv'
<1>1. \A q \in Runs : RowsOK(q) /\ DriverOK(q)
  BY ByRun DEF RunsOK
<1>2. \A q \in Runs : \A i \in LiveEntries(q) : queue[i].run = q
  BY DEF LiveEntries
<1>3. \A q \in Runs : RowsOK(q)' /\ DriverOK(q)'
  BY <1>1, <1>2, OtherRun
<1>4. RunsOK'
  BY <1>3 DEF RunsOK
<1>5. (TypeOK => (PipelineInv <=> RunsOK))'
  BY ByRun, PTL
<1> QED BY <1>4, <1>5

\* A run with a live entry has no request about to enqueue, and a run that is
\* COMPLETED, FAILED or absent has no live entry.
LEMMA Exclusive ==
  ASSUME TypeOK, PipelineInv, NEW r \in Runs
  PROVE  /\ RowsOK(r) /\ DriverOK(r)
         /\ \A i \in LiveEntries(r) : LiveEntries(r) = {i} /\ LiveRequests(r) = {}
         /\ job[r].status \notin {"PENDING", "PROCESSING"} => LiveEntries(r) = {}
<1>1. RowsOK(r) /\ DriverOK(r)
  BY ByRun DEF RunsOK
<1>2. \A i \in LiveEntries(r) : queue[i].run = r
  BY DEF LiveEntries
<1> QED BY <1>1, <1>2 DEF DriverOK, Drives, Frontier

\* What an enqueue for the frontier of run r adds to its drivers.
LEMMA FreshDrives ==
  ASSUME NEW r, NEW n, Frontier(r, n)'
  PROVE  Drives(Entry(r, n))' /\ Entry(r, n).pc \in LivePcs /\ Entry(r, n).run = r
<1>1. /\ Entry(r, n).run = r /\ Entry(r, n).step = n /\ Entry(r, n).pc = "wait"
      /\ Entry(r, n).made = 0
  BY DEF Entry
<1>2. 0 < MaxAttempts
  OBVIOUS
<1>3. "wait" \in LivePcs /\ "wait" \notin HaltPcs
  BY DEF LivePcs, EntryPcs, HaltPcs
<1> DEFINE e == Entry(r, n)
<1> HIDE DEF e
<1>4. e.run = r /\ e.step = n /\ e.pc = "wait" /\ e.made = 0
  BY <1>1 DEF e
<1>5. Drives(e)'
  BY <1>2, <1>3, <1>4 DEF Drives
<1> QED BY <1>1, <1>3, <1>5 DEF e

\* Enqueueing the next step hands the run from one entry to the next.
LEMMA EnqueueSafe ==
  ASSUME PipelineInv, TypeOK', NEW i \in DOMAIN queue, enqueueNext(i)
  PROVE  PipelineInv'
<1> SUFFICES ASSUME NEW r, r = queue[i].run, NEW n, n = queue[i].step,
                    NEW m, m = queue[i].next
             PROVE  PipelineInv'
  OBVIOUS
<1>0. queue[i].pc = "enqueueNext" /\ queue[i].pc \in LivePcs /\ UNCHANGED <<job, step, client>>
  BY DEF enqueueNext, LivePcs, EntryPcs, ActivePcs
<1>1. /\ TypeOK /\ queue[i] \in EntryType /\ r \in Runs /\ n \in 1..MaxSteps
      /\ m \in 1..MaxSteps /\ RowsOK(r) /\ Drives(queue[i]) /\ Frontier(r, n)
      /\ queue \in Seq(EntryType) /\ job[r].total \in 0..MaxSteps
  BY <1>0, LiveFacts, EntryFacts DEF TypeOK
<1>2. n < job[r].total /\ m = n + 1 /\ step[r][n].status = "COMPLETED"
  BY <1>0, <1>1 DEF Drives
<1>3. Frontier(r, m)'
  <2>1. n \in 1..job[r].total /\ m \in 1..job[r].total
    BY <1>1, <1>2 DEF Frontier, StepsOf
  <2>2. \A k \in 1..(m - 1) : step[r][k].status = "COMPLETED"
    <3>1. n \in Nat /\ m = n + 1
      BY <1>1, <1>2
    <3>2. \A k \in 1..(m - 1) : k \in 1..(n - 1) \/ k = n
      BY <3>1
    <3>3. \A k \in 1..(n - 1) : step[r][k].status = "COMPLETED"
      BY <1>1 DEF Frontier
    <3> QED BY <1>2, <3>2, <3>3
  <2>3. \A k \in (m + 1)..job[r].total : step[r][k].status = "PENDING"
    <3>1. \A k \in (m + 1)..job[r].total : k \in (n + 1)..job[r].total
      BY <1>1, <1>2
    <3> QED BY <1>1, <3>1 DEF Frontier
  <2>4. Frontier(r, m)
    BY <1>1, <2>1, <2>2, <2>3 DEF Frontier, StepsOf
  <2> QED BY <1>0, <2>4, SameRows
<1> DEFINE e   == [queue[i] EXCEPT !.pc = "ack"]
           q   == [queue EXCEPT ![i] = e]
           new == Len(queue) + 1
<1>4. e \in EntryType /\ e.pc = "ack"
  BY <1>1, Literals DEF EntryType
<1> HIDE DEF e
<1>5. q \in Seq(EntryType) /\ Len(q) = Len(queue) /\ DOMAIN q = DOMAIN queue /\ q[i] = e
      /\ \A j \in DOMAIN queue : j # i => q[j] = queue[j]
  BY <1>1, <1>4
<1>6. queue' = Append(q, Entry(r, m))
  BY DEF enqueueNext, e
<1> HIDE DEF q
<1>7. /\ DOMAIN queue' = DOMAIN queue \cup {new} /\ new \notin DOMAIN queue
      /\ queue'[i] = e /\ queue'[new] = Entry(r, m)
      /\ \A j \in DOMAIN queue : j # i => queue'[j] = queue[j]
  <2>1. DOMAIN queue = 1..Len(queue) /\ Len(queue) \in Nat
    BY <1>1
  <2>2. new \notin DOMAIN queue
    BY <2>1
  <2>3. /\ DOMAIN queue' = DOMAIN q \cup {new} /\ queue'[new] = Entry(r, m)
        /\ \A j \in DOMAIN q : queue'[j] = q[j]
    <3>1. q \in Seq(EntryType) /\ Len(q) + 1 = new
      BY <1>5
    <3> HIDE DEF new
    <3> DEFINE a == Append(q, Entry(r, m))
    <3>2. /\ DOMAIN a = DOMAIN q \cup {Len(q) + 1} /\ a[Len(q) + 1] = Entry(r, m)
          /\ \A j \in DOMAIN q : a[j] = q[j]
      BY <1>1, <3>1, AppendEntry
    <3>3. queue' = a
      BY <1>6
    <3> HIDE DEF a
    <3> QED BY <3>1, <3>2, <3>3
  <2> QED BY <1>5, <2>2, <2>3
<1> HIDE DEF new
<1>8. /\ i \in LiveEntries(r) /\ LiveEntries(r) = {i} /\ LiveRequests(r) = {}
  BY <1>0, <1>1, Exclusive DEF LiveEntries
<1>9. Drives(Entry(r, m))' /\ Entry(r, m).pc \in LivePcs /\ Entry(r, m).run = r
  BY <1>3, FreshDrives
<1>10. LiveEntries(r)' = {new}
  BY <1>4, <1>7, <1>8, <1>9 DEF LiveEntries, LivePcs
<1>11. \A p \in Runs : LiveRequests(p)' = LiveRequests(p)
  BY <1>0 DEF LiveRequests
<1>12. DriverOK(r)'
  BY <1>1, <1>7, <1>8, <1>9, <1>10, <1>11 DEF DriverOK
<1>13. RowsOK(r)'
  BY <1>0, <1>1, SameRows
<1>14. ASSUME NEW p \in Runs, p # r
       PROVE  /\ LiveEntries(p)' = LiveEntries(p)
              /\ \A j \in LiveEntries(p) : queue'[j] = queue[j]
  <2>1. queue[i].run # p /\ queue'[i].pc = "ack" /\ queue'[new].run # p
    BY <1>4, <1>7, <1>9, <1>14
  <2> QED BY <1>7, <2>1 DEF LiveEntries, LivePcs
<1>15. ASSUME NEW c \in Clients PROVE Pending(client[c])'
  BY <1>0, OtherRequest DEF PipelineInv, DriversAtFrontier
<1> QED BY <1>0, <1>1, <1>11, <1>12, <1>13, <1>14, <1>15, RunStep

\* An entry that is not live moves without consequence.
LEMMA AckSafe ==
  ASSUME PipelineInv, TypeOK', NEW i \in DOMAIN queue, ack(i)
  PROVE  PipelineInv'
<1> DEFINE e == [queue[i] EXCEPT !.pc = "gone", !.result = <<>>, !.next = queue[i].step]
<1>0. TypeOK /\ queue[i].pc = "ack" /\ UNCHANGED <<job, step, client>> /\ updateEntry(i, e)
  BY DEF ack, PipelineInv
<1>1. e \in EntryType /\ e.pc = "gone"
  BY <1>0, EntryFacts, Literals DEF EntryType
<1> HIDE DEF e
<1>2. /\ DOMAIN queue' = DOMAIN queue /\ queue'[i] = e
      /\ \A j \in DOMAIN queue : j # i => queue'[j] = queue[j]
  BY <1>0, <1>1, UpdateEntry
<1>3. \A q \in Runs : /\ LiveEntries(q)' = LiveEntries(q)
                      /\ LiveRequests(q)' = LiveRequests(q)
                      /\ \A j \in LiveEntries(q) : queue'[j] = queue[j]
  BY <1>0, <1>1, <1>2 DEF LiveEntries, LiveRequests, LivePcs
<1>4. ASSUME NEW c \in Clients PROVE Pending(client[c])'
  BY <1>0, OtherRequest DEF PipelineInv, DriversAtFrontier
<1> QED BY <1>0, <1>3, <1>4, QuietStep

\* The requests keep the invariant, however many are under way: two that are about
\* to write the same run would both be retries of it inside their window.
LEMMA RequestSafe ==
  ASSUME RetriesApart, PipelineInv, TypeOK', NewRequests \/ FinishRequests
  PROVE  PipelineInv'
<1>0. TypeOK
  BY DEF PipelineInv
<1>1. ASSUME NEW c \in Clients, NEW r \in Runs, NEW n \in 1..MaxSteps, createJob(c, r, n)
      PROVE  PipelineInv'
  <2>1. /\ client[c] = Idle /\ job[r].status = "NONE" /\ queue' = queue
        /\ job'[r] = NewJob(n) /\ client'[c] = Request("enqueue", r, 1)
        /\ step'[r] = [k \in 1..MaxSteps |-> IF k <= n THEN NewStep ELSE NoStep]
        /\ \A q \in Runs : q # r => job'[q] = job[q] /\ step'[q] = step[q]
    BY <1>0, <1>1 DEF createJob, TypeOK
  <2>2. ASSUME NEW d \in Clients, d # c
        PROVE  client'[d] = client[d] /\ (client[d].pc \in {"enqueue", "reset"} => client[d].run # r)
    <3>1. client'[d] = client[d]
      BY <1>0, <1>1, <2>2 DEF createJob, TypeOK
    <3>2. Pending(client[d])
      BY DEF PipelineInv, DriversAtFrontier
    <3> QED BY <2>1, <3>1, <3>2 DEF Pending, Frontier
  <2>3. StepsOf(r)' = 1..n /\ job'[r].status = "PENDING" /\ job'[r].total = n
    BY <2>1 DEF StepsOf, NewJob
  <2>4. \A k \in 1..n : step'[r][k].status = "PENDING"
    BY <2>1 DEF NewStep
  <2>5. RowsOK(r)' /\ Frontier(r, 1)'
    BY <2>3, <2>4 DEF RowsOK, Frontier
  <2>6. Pending(client[c])'
    BY <2>1, <2>5 DEF Request, Pending
  <2>7. /\ LiveRequests(r)' = {c}
        /\ \A q \in Runs : q # r => LiveRequests(q)' \subseteq LiveRequests(q)
    BY <2>1, <2>2 DEF LiveRequests, Request
  <2>8. \A q \in Runs : LiveEntries(q)' = LiveEntries(q)
    BY <2>1 DEF LiveEntries
  <2>9. LiveEntries(r) = {}
    BY <1>0, <2>1, Exclusive
  <2>10. DriverOK(r)'
    BY <2>7, <2>8, <2>9 DEF DriverOK
  <2>11. ASSUME NEW d \in Clients PROVE Pending(client[d])'
    <3>1. d # c /\ client[d].pc \in {"enqueue", "reset"} =>
            /\ job'[client[d].run] = job[client[d].run]
            /\ step'[client[d].run] = step[client[d].run]
      BY <1>0, <2>1, <2>2, ClientFacts DEF Idle
    <3> QED BY <2>2, <2>6, <3>1, OtherRequest DEF PipelineInv, DriversAtFrontier
  <2> QED BY <1>0, <2>1, <2>5, <2>7, <2>8, <2>10, <2>11, RunStep
<1>2. ASSUME NEW c \in Clients, NEW r \in Runs, NEW n \in 1..MaxSteps, retryJobRead(c, r, n)
      PROVE  PipelineInv'
  <2>1. /\ client[c] = Idle /\ job[r].status = "FAILED" /\ First(n, r, "FAILED")
        /\ client'[c] = Request("reset", r, n) /\ UNCHANGED <<job, step, queue>>
        /\ \A d \in Clients : d # c => client'[d] = client[d]
    BY <1>0, <1>2 DEF retryJobRead, TypeOK
  <2>2. ASSUME NEW d \in Clients, d # c PROVE Pending(client[d])'
    BY <2>1, <2>2, OtherRequest DEF PipelineInv, DriversAtFrontier
  <2>3. Pending(client[c])'
    BY <2>1 DEF Request, Pending, First, StepsWith, StepsOf
  <2>4. \A q \in Runs : /\ LiveEntries(q)' = LiveEntries(q)
                        /\ LiveRequests(q)' \subseteq LiveRequests(q)
    BY <2>1 DEF LiveEntries, LiveRequests, Request
  <2> QED BY <1>0, <2>1, <2>2, <2>3, <2>4, QuietStep
<1>3. ASSUME NEW c \in Clients, retryJobReset(c) PROVE PipelineInv'
  <2> SUFFICES ASSUME NEW r, r = client[c].run, NEW n, n = client[c].step,
                      NEW total, total = job[r].total
               PROVE  PipelineInv'
    OBVIOUS
  <2> DEFINE row == [job[r] EXCEPT !.status = "PROCESSING", !.currentStep = n]
  <2>0. client[c].pc = "reset" /\ client[c] # Idle /\ queue' = queue
    BY <1>3 DEF retryJobReset, Idle
  <2>1. r \in Runs /\ n \in 1..MaxSteps
    BY <1>0, <2>0, ClientFacts
  <2>2. /\ updateStep(r, n, NewStep) /\ updateJob(r, row)
        /\ client'[c] = Request("enqueue", r, n)
    BY <1>0, <1>3 DEF retryJobReset, TypeOK
  <2>3. job[r] \in JobType /\ total \in 0..MaxSteps
    BY <1>0, <2>1, RowFacts
  <2>4. row \in JobType /\ row.status = "PROCESSING" /\ row.total = total
    BY <2>1, <2>3, Literals DEF JobType
  <2> HIDE DEF row
  <2>5. /\ job'[r] = row /\ step'[r][n] = NewStep
        /\ \A m \in 1..MaxSteps : m # n => step'[r][m] = step[r][m]
        /\ \A q \in Runs : q # r => job'[q] = job[q] /\ step'[q] = step[q]
    BY <1>0, <2>1, <2>2, <2>4, Fresh, UpdateJob, UpdateStep
  <2>6. job[r].status = "FAILED" /\ n \in 1..total /\ step[r][n].status = "FAILED"
    BY <2>0 DEF PipelineInv, DriversAtFrontier, Pending, StepsOf
  <2>7. RowsOK(r) /\ DriverOK(r) /\ LiveEntries(r) = {}
    BY <1>0, <2>1, <2>6, Exclusive
  <2>8. PICK k \in 1..total :
          /\ step[r][k].status = "FAILED"
          /\ \A m \in 1..(k - 1) : step[r][m].status = "COMPLETED"
          /\ \A m \in (k + 1)..total : step[r][m].status = "PENDING"
    BY <2>6, <2>7 DEF RowsOK, StepsOf
  <2>9. k = n
    <3>1. CASE n < k
      BY <2>3, <2>6, <2>8, <3>1
    <3>2. CASE n > k
      BY <2>3, <2>6, <2>8, <3>2
    <3> QED BY <2>1, <2>8, <2>3, <3>1, <3>2
  <2>10. StepsOf(r)' = 1..total /\ StepsOf(r) = 1..total
    BY <2>4, <2>5 DEF StepsOf
  <2>11. Frontier(r, n)' /\ step'[r][n].status = "PENDING"
    <3>1. /\ \A m \in 1..(n - 1) : m \in 1..MaxSteps /\ m # n
          /\ \A m \in (n + 1)..total : m \in 1..MaxSteps /\ m # n
      BY <2>1, <2>3
    <3>2. /\ \A m \in 1..(n - 1) : step'[r][m].status = "COMPLETED"
          /\ \A m \in (n + 1)..total : step'[r][m].status = "PENDING"
      BY <2>5, <2>8, <2>9, <3>1
    <3>3. job'[r].status = "PROCESSING" /\ job'[r].total = total
      BY <2>4, <2>5
    <3> QED BY <2>5, <2>6, <2>10, <3>2, <3>3 DEF Frontier, NewStep
  <2>12. \A m \in 1..total : step'[r][m].status # "PENDING" => m < n
    BY <2>1, <2>3, <2>4, <2>5, <2>11 DEF Frontier
  <2>13. \A m \in 1..total : m < n => step'[r][m] = step[r][m] /\ m \in 1..(n - 1)
    BY <2>1, <2>3, <2>5
  <2>14. RowsOK(r)'
    <3>1. \A m \in 1..total : step'[r][m].status # "PENDING" =>
            \A j \in 1..(m - 1) : step'[r][j].status = "COMPLETED"
      BY <2>1, <2>3, <2>11, <2>12 DEF Frontier
    <3>2. \A m \in 1..total : step'[r][m].status = "COMPLETED" =>
            step'[r][m].result = FullOutput(m)
      BY <2>7, <2>10, <2>12, <2>13 DEF RowsOK
    <3> QED BY <2>4, <2>5, <2>10, <3>1, <3>2 DEF RowsOK
  <2>15. ASSUME NEW d \in Clients, d # c
         PROVE  client'[d] = client[d] /\ (client[d].pc \in {"enqueue", "reset"} => client[d].run # r)
    <3>1. client'[d] = client[d]
      BY <1>0, <1>3, <2>15 DEF retryJobReset, TypeOK
    <3>2. client[d].pc = "reset" => client[d].run # r
      BY <2>0, <2>15 DEF RetriesApart
    <3>3. client[d].pc = "enqueue" => client[d].run # r
      BY <2>6 DEF PipelineInv, DriversAtFrontier, Pending, Frontier
    <3> QED BY <3>1, <3>2, <3>3
  <2>16. Pending(client[c])'
    BY <2>2, <2>11 DEF Request, Pending
  <2>17. \A q \in Runs : LiveEntries(q)' = LiveEntries(q)
    BY <2>0 DEF LiveEntries
  <2>18. /\ LiveRequests(r)' = {c}
         /\ \A q \in Runs : q # r => LiveRequests(q)' \subseteq LiveRequests(q)
    BY <2>2, <2>15 DEF LiveRequests, Request
  <2>19. DriverOK(r)'
    BY <2>1, <2>7, <2>17, <2>18 DEF DriverOK
  <2>20. ASSUME NEW d \in Clients PROVE Pending(client[d])'
    <3>1. d # c /\ client[d].pc \in {"enqueue", "reset"} =>
            /\ job'[client[d].run] = job[client[d].run]
            /\ step'[client[d].run] = step[client[d].run]
      BY <1>0, <2>5, <2>15, ClientFacts DEF Idle
    <3> QED BY <2>15, <2>16, <3>1, OtherRequest DEF PipelineInv, DriversAtFrontier
  <2> QED BY <1>0, <2>0, <2>1, <2>5, <2>14, <2>17, <2>18, <2>19, <2>20, RunStep
<1>4. ASSUME NEW c \in Clients, requestEnqueue(c) PROVE PipelineInv'
  <2> SUFFICES ASSUME NEW r, r = client[c].run, NEW n, n = client[c].step
               PROVE  PipelineInv'
    OBVIOUS
  <2> DEFINE new == Len(queue) + 1
  <2>0. /\ client[c].pc = "enqueue" /\ client[c] # Idle /\ UNCHANGED <<job, step>>
        /\ queue' = Append(queue, Entry(r, n)) /\ client'[c] = Idle
        /\ \A d \in Clients : d # c => client'[d] = client[d]
    BY <1>0, <1>4 DEF requestEnqueue, enqueueStep, Idle, TypeOK
  <2>1. r \in Runs /\ n \in 1..MaxSteps /\ queue \in Seq(EntryType)
    BY <1>0, <2>0, ClientFacts DEF TypeOK
  <2>2. Frontier(r, n)'
    <3>1. Frontier(r, n)
      BY <2>0 DEF PipelineInv, DriversAtFrontier, Pending
    <3> QED BY <2>0, <3>1, SameRows
  <2>3. c \in LiveRequests(r)
    BY <2>0 DEF LiveRequests
  <2>4. RowsOK(r) /\ DriverOK(r) /\ LiveEntries(r) = {}
    BY <1>0, <2>1, <2>3, Exclusive
  <2>5. /\ DOMAIN queue' = DOMAIN queue \cup {new} /\ new \notin DOMAIN queue
        /\ queue'[new] = Entry(r, n) /\ \A j \in DOMAIN queue : queue'[j] = queue[j]
    BY <2>0, <2>1, AppendEntry
  <2> HIDE DEF new
  <2>6. Drives(Entry(r, n))' /\ Entry(r, n).pc \in LivePcs /\ Entry(r, n).run = r
    BY <2>2, FreshDrives
  <2>7. LiveEntries(r)' = {new}
    BY <2>4, <2>5, <2>6 DEF LiveEntries
  <2>8. LiveRequests(r) = {c}
    BY <2>3, <2>4 DEF DriverOK
  <2>9. /\ LiveRequests(r)' = {}
        /\ \A q \in Runs : LiveRequests(q)' \subseteq LiveRequests(q)
    BY <2>0, <2>8 DEF LiveRequests, Idle
  <2>10. DriverOK(r)'
    BY <2>1, <2>5, <2>6, <2>7, <2>9 DEF DriverOK
  <2>11. RowsOK(r)'
    BY <2>0, <2>1, <2>4, SameRows
  <2>12. ASSUME NEW q \in Runs, q # r
         PROVE  /\ LiveEntries(q)' = LiveEntries(q)
                /\ \A j \in LiveEntries(q) : queue'[j] = queue[j]
    BY <2>5, <2>6, <2>12 DEF LiveEntries
  <2>13. ASSUME NEW d \in Clients PROVE Pending(client[d])'
    <3>1. CASE d = c
      BY <2>0, <3>1 DEF Idle, Pending
    <3>2. CASE d # c
      BY <2>0, <3>2, OtherRequest DEF PipelineInv, DriversAtFrontier
    <3> QED BY <3>1, <3>2
  <2> QED BY <1>0, <2>0, <2>1, <2>9, <2>10, <2>11, <2>12, <2>13, RunStep
<1> QED BY <1>1, <1>2, <1>3, <1>4 DEF NewRequests, FinishRequests

\* The faults keep the invariant: the entry of a worker that dies waits where it was.
LEMMA FailuresSafe ==
  ASSUME [ReturnIsRecorded]_vars, PipelineInv, TypeOK', Failures
  PROVE  PipelineInv'
<1>0. TypeOK
  BY DEF PipelineInv
<1>1. ASSUME NEW i \in DOMAIN queue, workerDies(i) PROVE PipelineInv'
  <2> DEFINE stalls == queue[i].stalls + 1
             e == [queue[i] EXCEPT !.pc = "wait", !.stalls = stalls, !.result = <<>>,
                                   !.next = queue[i].step]
  <2>1. /\ queue[i].pc \in ActivePcs /\ updateEntry(i, e) /\ UNCHANGED <<job, step, client>>
        /\ queue[i] \in EntryType /\ stalls \in Nat
    BY <1>0, <1>1, EntryFacts DEF workerDies, Fault
  <2>2. /\ e \in EntryType /\ e.run = queue[i].run /\ e.step = queue[i].step
        /\ e.made = queue[i].made /\ e.pc = "wait"
    <3> HIDE DEF stalls
    <3> QED BY <2>1, Literals DEF EntryType
  <2> HIDE DEF e
  <2>3. queue'[i].pc = "wait"
    BY <1>0, <2>1, <2>2, UpdateEntry
  <2>4. queue[i].pc # "ack"
    BY <2>3 DEF ReturnIsRecorded, vars
  <2>5. queue[i].pc \in LivePcs \ HaltPcs
    BY <2>1, <2>4 DEF ActivePcs, LivePcs, EntryPcs, HaltPcs
  <2>6. queue[i].made < MaxAttempts
    BY <2>5, LiveFacts DEF Drives
  <2>7. Frontier(e.run, e.step) => Drives(e)
    BY <2>2, <2>6 DEF Drives, HaltPcs
  <2> QED BY <2>1, <2>2, <2>5, <2>7, MoveSafe
<1>2. ASSUME NEW i \in DOMAIN queue, storeThrows(i) PROVE PipelineInv'
  <2>1. queue[i].pc \in LivePcs \ HaltPcs
    BY <1>2 DEF storeThrows, ActivePcs, LivePcs, EntryPcs, HaltPcs
  <2> QED BY <1>2, <2>1, FailSafe DEF storeThrows, Fault
<1>3. ASSUME NEW i \in DOMAIN queue, haltIsLost(i) PROVE PipelineInv'
  <2>1. /\ queue[i].pc \in LivePcs /\ Goto(i, "gone") /\ UNCHANGED <<job, step, client>>
    BY <1>3 DEF haltIsLost, Fault, LivePcs, EntryPcs, HaltPcs
  <2>2. PICK e \in EntryType :
          updateEntry(i, e) /\ e.pc = "gone" /\ e.run = queue[i].run
    BY <1>0, <2>1, GotoFacts, Literals
  <2>3. RowsOK(e.run)'
    BY <2>1, <2>2, LiveFacts, SameRows
  <2> QED BY <1>0, <2>1, <2>2, <2>3, EntryStep DEF LivePcs
<1>4. ASSUME NEW c \in Clients, requestIsLost(c) PROVE PipelineInv'
  <2>1. /\ client'[c] = Idle /\ UNCHANGED <<job, step, queue>>
        /\ \A d \in Clients : d # c => client'[d] = client[d]
    BY <1>0, <1>4 DEF requestIsLost, Fault, TypeOK
  <2>2. \A q \in Runs : /\ LiveEntries(q)' = LiveEntries(q)
                        /\ LiveRequests(q)' \subseteq LiveRequests(q)
    BY <2>1 DEF LiveEntries, LiveRequests, Idle
  <2>3. ASSUME NEW d \in Clients PROVE Pending(client[d])'
    <3>1. CASE d = c
      BY <2>1, <3>1 DEF Idle, Pending
    <3>2. CASE d # c
      BY <2>1, <3>2, OtherRequest DEF PipelineInv, DriversAtFrontier
    <3> QED BY <3>1, <3>2
  <2> QED BY <1>0, <2>1, <2>2, <2>3, QuietStep
<1> QED BY <1>1, <1>2, <1>3, <1>4 DEF Failures

\* The rows of the runs, the queue and the requests agree in every state, whatever
\* the number of runs, steps, attempts, clients and workers and whatever fails.
THEOREM InvariantHolds == Spec /\ Disciplined => []PipelineInv
<1>1. Init => PipelineInv
  <2> SUFFICES ASSUME Init PROVE PipelineInv
    OBVIOUS
  <2>1. TypeOK /\ \A r \in Runs : job[r] = NoJob
    BY Fresh DEF Init, TypeOK
  <2>2. \A r \in Runs : RowsOK(r)
    BY <2>1 DEF RowsOK, StepsOf, NoJob
  <2>3. \A r \in Runs : LiveEntries(r) = {} /\ LiveRequests(r) = {}
    BY DEF Init, LiveEntries, LiveRequests, Idle
  <2>4. \A c \in Clients : Pending(client[c])
    BY DEF Init, Idle, Pending
  <2> QED BY <2>1, <2>2, <2>3, <2>4, ByRun DEF RunsOK, DriverOK
<1>2. PipelineInv /\ TypeOK' /\ RetriesApart /\ [Next]_vars /\ [ReturnIsRecorded]_vars
        => PipelineInv'
  <2> SUFFICES ASSUME PipelineInv, TypeOK', RetriesApart, [Next]_vars, [ReturnIsRecorded]_vars
               PROVE  PipelineInv'
    OBVIOUS
  <2>1. CASE UNCHANGED vars
    <3>1. TypeOK /\ UNCHANGED <<job, step, client, queue>>
      BY <2>1 DEF vars, PipelineInv
    <3>2. \A q \in Runs : LiveEntries(q)' = LiveEntries(q) /\ LiveRequests(q)' = LiveRequests(q)
      BY <3>1 DEF LiveEntries, LiveRequests
    <3>3. ASSUME NEW c \in Clients PROVE Pending(client[c])'
      BY <3>1, OtherRequest DEF PipelineInv, DriversAtFrontier
    <3> QED BY <3>1, <3>2, <3>3, QuietStep
  <2>2. ASSUME NEW i \in DOMAIN queue, Process(i) \/ OnFailed(i) PROVE PipelineInv'
    BY <2>2, ReadSafe, WriteSafe, EnqueueSafe, AckSafe DEF Process, OnFailed
  <2> QED BY <2>1, <2>2, RequestSafe, FailuresSafe DEF Next, Work
<1> QED BY <1>1, <1>2, TypeCorrect, PTL DEF Spec, Disciplined

\* A run is never driven by two entries, nor by an entry and a request.
THEOREM NeverTwoDrivers == Spec /\ Disciplined => []OneDriver
<1>1. PipelineInv => OneDriver
  BY DEF PipelineInv
<1> QED BY <1>1, InvariantHolds, PTL

\* Steps are started in the order of their numbers, each after all earlier ones.
THEOREM NeverOutOfOrder == Spec /\ Disciplined => []StepsRunInOrder
<1>1. PipelineInv => StepsRunInOrder
  BY DEF PipelineInv
<1> QED BY <1>1, InvariantHolds, PTL

\* Every stored output was computed from the whole chain of earlier outputs.
THEOREM ContextIsForwarded == Spec /\ Disciplined => []OutputsChain
<1>1. PipelineInv => OutputsChain
  BY DEF PipelineInv
<1> QED BY <1>1, InvariantHolds, PTL

\* A COMPLETED run is whole.
THEOREM CompletedIsWhole == Spec /\ Disciplined => []CompletedRunIsWhole
<1>1. PipelineInv => CompletedRunIsWhole
  BY DEF PipelineInv
<1> QED BY <1>1, InvariantHolds, PTL

\* A FAILED run can be retried, and is resumed at the step that failed.
THEOREM FailedIsRetriable == Spec /\ Disciplined => []FailedRunIsRetriable
<1>1. PipelineInv => FailedRunIsRetriable
  BY DEF PipelineInv
<1> QED BY <1>1, InvariantHolds, PTL

\* Whatever is about to work on a run stands at the first step that is not completed.
THEOREM WorkStandsAtFrontier == Spec /\ Disciplined => []DriversAtFrontier
<1>1. PipelineInv => DriversAtFrontier
  BY DEF PipelineInv
<1> QED BY <1>1, InvariantHolds, PTL

-----------------------------------------------------------------------------
(* What a step does to the rows *)

RowsKept(r) == job'[r] = job[r] /\ step'[r] = step[r]

\* The statements that write a row of the run an entry works on.
RowWrite(i) == \/ markRun(i) \/ markStep(i) \/ saveResult(i) \/ finishRun(i)
               \/ haltStep(i) \/ haltRun(i)

\* All other steps leave the tables alone.
LEMMA RowsOnlyWrittenBy ==
  ASSUME Next
  PROVE  \/ UNCHANGED <<job, step>>
         \/ \E c \in Clients, r \in Runs, n \in 1..MaxSteps : createJob(c, r, n)
         \/ \E c \in Clients : retryJobReset(c)
         \/ \E i \in DOMAIN queue : RowWrite(i)
<1>1. CASE NewRequests
  BY <1>1 DEF NewRequests, retryJobRead
<1>2. CASE FinishRequests
  BY <1>2 DEF FinishRequests, requestEnqueue
<1>3. CASE Work
  BY <1>3 DEF Work, Process, OnFailed, RowWrite, take, execute, handlerThrows, findNext, findNone,
              enqueueNext, ack
<1>4. CASE Failures
  BY <1>4 DEF Failures, workerDies, storeThrows, haltIsLost, requestIsLost, Fault
<1> QED BY <1>1, <1>2, <1>3, <1>4 DEF Next

\* An entry writes the rows of its own run, which is open.
LEMMA EntryWrites ==
  ASSUME PipelineInv, NEW i \in DOMAIN queue, RowWrite(i)
  PROVE  /\ queue[i].pc \in LivePcs /\ Drives(queue[i])
         /\ Frontier(queue[i].run, queue[i].step)
         /\ queue[i].run \in Runs /\ queue[i].step \in 1..MaxSteps
         /\ \A r \in Runs : r # queue[i].run => RowsKept(r)
<1>1. queue[i].pc \in LivePcs
  BY DEF RowWrite, markRun, markStep, saveResult, finishRun, haltStep, haltRun,
         LivePcs, EntryPcs, ActivePcs, HaltPcs
<1>2. /\ TypeOK /\ Drives(queue[i]) /\ Frontier(queue[i].run, queue[i].step)
      /\ queue[i].run \in Runs /\ queue[i].step \in 1..MaxSteps
  BY <1>1, LiveFacts
<1>3. \A r \in Runs : r # queue[i].run => RowsKept(r)
  BY <1>2 DEF RowWrite, markRun, markStep, saveResult, finishRun, haltStep, haltRun,
              updateJob, updateStep, RowsKept, TypeOK
<1> QED BY <1>1, <1>2, <1>3

\* The transaction of a retry writes the rows of a FAILED run.
LEMMA ResetWrites ==
  ASSUME PipelineInv, NEW c \in Clients, retryJobReset(c)
  PROVE  LET r == client[c].run  n == client[c].step
         IN  /\ r \in Runs /\ n \in StepsOf(r) /\ n \in 1..MaxSteps
             /\ job[r].status = "FAILED" /\ step[r][n].status = "FAILED"
             /\ \A q \in Runs : q # r => RowsKept(q)
<1>1. TypeOK /\ Pending(client[c]) /\ client[c].pc = "reset" /\ client[c] # Idle
  BY DEF PipelineInv, DriversAtFrontier, retryJobReset, Idle
<1>2. client[c].run \in Runs /\ client[c].step \in 1..MaxSteps
  BY <1>1, ClientFacts
<1> QED BY <1>1, <1>2 DEF Pending, retryJobReset, updateJob, updateStep, RowsKept, TypeOK

\* The tables of a COMPLETED run are not written again, however many entries and
\* requests are under way.
THEOREM CompletedIsFinal == Spec /\ Disciplined => CompletionIsFinal
<1>1. ASSUME PipelineInv, [Next]_vars, NEW r \in Runs, job[r].status = "COMPLETED"
      PROVE  job'[r] = job[r] /\ step'[r] = step[r]
  <2>1. CASE UNCHANGED <<job, step>>
    BY <2>1
  <2>2. ASSUME NEW c \in Clients, NEW q \in Runs, NEW n \in 1..MaxSteps, createJob(c, q, n)
        PROVE  RowsKept(r)
    BY <1>1, <2>2 DEF createJob, RowsKept, PipelineInv, TypeOK
  <2>3. ASSUME NEW c \in Clients, retryJobReset(c) PROVE RowsKept(r)
    BY <1>1, <2>3, ResetWrites
  <2>4. ASSUME NEW i \in DOMAIN queue, RowWrite(i) PROVE RowsKept(r)
    BY <1>1, <2>4, EntryWrites DEF Frontier
  <2>5. CASE UNCHANGED vars
    BY <2>5 DEF vars
  <2> QED BY <1>1, <2>1, <2>2, <2>3, <2>4, <2>5, RowsOnlyWrittenBy DEF RowsKept
<1>2. PipelineInv /\ [Next]_vars =>
        [\A r \in Runs : job[r].status = "COMPLETED" => job'[r] = job[r] /\ step'[r] = step[r]]_vars
  BY <1>1
<1> QED BY <1>2, InvariantHolds, PTL DEF Spec, CompletionIsFinal

-----------------------------------------------------------------------------
(***************************************************************************)
(* Refinement.  JobRun never takes a completed step back.  The pipeline    *)
(* does: after a statement behind saveResult has thrown, or the worker has *)
(* died there, the entry marks its step PROCESSING and executes it again.  *)
(* While an entry that has stored its result goes on to its return         *)
(* (ResultIsUsed), whatever is at work on a step, or about to be, finds it *)
(* not yet completed.                                                      *)
(***************************************************************************)
ReturnPcs == {"findNext", "enqueueNext", "finishRun"}

ResultIsUsed ==
  \A i \in DOMAIN queue : queue[i].pc \in ReturnPcs => queue'[i].pc \in ReturnPcs \cup {"ack"}

NoRepeats == [][ResultIsUsed]_vars

WorkPcs == {"wait", "markRun", "markStep", "execute", "saveResult"} \cup HaltPcs

Completed(r, n) == step[r][n].status = "COMPLETED"
CompletedAfter(r, n) == step'[r][n].status = "COMPLETED"

Unrepeated ==
  /\ \A r \in Runs : job[r].status = "NONE" => job[r].total = 0
  /\ \A i \in DOMAIN queue : queue[i].pc \in WorkPcs => ~Completed(queue[i].run, queue[i].step)
  /\ \A c \in Clients : client[c].pc = "enqueue" => ~Completed(client[c].run, client[c].step)

\* A step of an entry that completes nothing and begins no work on a step.
LEMMA EntryUnrepeated ==
  ASSUME TypeOK, Unrepeated, UNCHANGED client, NEW i \in DOMAIN queue,
         NEW e, e.run = queue[i].run, e.step = queue[i].step, updateEntry(i, e),
         e.pc \in WorkPcs => queue[i].pc \in WorkPcs,
         \A r \in Runs : job'[r].status = "NONE" => job'[r] = job[r],
         \A r \in Runs, n \in 1..MaxSteps : CompletedAfter(r, n) => Completed(r, n)
  PROVE  Unrepeated'
<1>1. /\ DOMAIN queue' = DOMAIN queue /\ queue'[i] = e
      /\ \A j \in DOMAIN queue : j # i => queue'[j] = queue[j]
  BY DEF updateEntry, TypeOK
<1>2. \A j \in DOMAIN queue : queue[j].run \in Runs /\ queue[j].step \in 1..MaxSteps
  BY EntryFacts
<1>3. ASSUME NEW j \in DOMAIN queue, queue'[j].pc \in WorkPcs
      PROVE  ~CompletedAfter(queue'[j].run, queue'[j].step)
  BY <1>1, <1>2, <1>3 DEF Unrepeated
<1>4. ASSUME NEW c \in Clients, client[c].pc = "enqueue"
      PROVE  ~CompletedAfter(client[c].run, client[c].step)
  <2>1. client[c].run \in Runs /\ client[c].step \in 1..MaxSteps
    BY <1>4, ClientFacts DEF Idle
  <2> QED BY <1>4, <2>1 DEF Unrepeated
<1> QED BY <1>1, <1>3, <1>4 DEF Unrepeated, Completed, CompletedAfter

\* A failed attempt that is not to be repeated by chance: it waits where it worked.
LEMMA FailUnrepeated ==
  ASSUME TypeOK, Unrepeated, UNCHANGED <<job, step, client>>, NEW i \in DOMAIN queue,
         queue[i].pc \in WorkPcs, NEW final \in BOOLEAN, AttemptFailed(i, final)
  PROVE  Unrepeated'
<1>1. PICK e \in EntryType :
        updateEntry(i, e) /\ e.run = queue[i].run /\ e.step = queue[i].step
  BY FailEntry
<1>2. \A r, n : CompletedAfter(r, n) = Completed(r, n)
  BY DEF Completed, CompletedAfter
<1> QED BY <1>1, <1>2, EntryUnrepeated

\* Moving an entry's program counter completes nothing either.
LEMMA GotoUnrepeated ==
  ASSUME TypeOK, Unrepeated, UNCHANGED client, NEW i \in DOMAIN queue,
         NEW pc \in EntryPcs, Goto(i, pc), pc \in WorkPcs => queue[i].pc \in WorkPcs,
         \A r \in Runs : job'[r].status = "NONE" => job'[r] = job[r],
         \A r \in Runs, n \in 1..MaxSteps : CompletedAfter(r, n) => Completed(r, n)
  PROVE  Unrepeated'
<1>1. PICK e \in EntryType :
        updateEntry(i, e) /\ e.pc = pc /\ e.run = queue[i].run /\ e.step = queue[i].step
  BY GotoFacts
<1> QED BY <1>1, EntryUnrepeated

\* Statements of process() and onFailed but those that complete or enqueue a step.
LEMMA WorkUnrepeated ==
  ASSUME PipelineInv, Unrepeated, NEW i \in DOMAIN queue,
         Process(i) \/ OnFailed(i), ~saveResult(i), ~enqueueNext(i)
  PROVE  Unrepeated'
<1>0. TypeOK /\ queue[i] \in EntryType
  BY EntryFacts DEF PipelineInv
<1>1. ASSUME UNCHANGED <<job, step, client>>
      PROVE  /\ \A r \in Runs : job'[r].status = "NONE" => job'[r] = job[r]
             /\ \A r, n : CompletedAfter(r, n) = Completed(r, n)
  BY <1>1 DEF Completed, CompletedAfter
<1>2. CASE take(i)
  BY <1>0, <1>1, <1>2, FailUnrepeated, GotoUnrepeated, Literals DEF take, WorkPcs
<1>3. CASE handlerThrows(i)
  BY <1>0, <1>3, FailUnrepeated DEF handlerThrows, WorkPcs
<1>4. CASE markRun(i) \/ finishRun(i) \/ haltRun(i)
  <2>1. \A r \in Runs : job'[r].status = "NONE" => job'[r] = job[r]
    <3>1. queue[i].run \in Runs /\ queue[i].step \in 1..MaxSteps
      BY <1>0, EntryFacts
    <3>2. job[queue[i].run] \in JobType
      BY <1>0, <3>1, RowFacts
    <3>3. job'[queue[i].run].status # "NONE" /\ \A r \in Runs : r # queue[i].run => job'[r] = job[r]
      <4>1. CASE markRun(i)
        BY <1>0, <3>1, <3>2, <4>1 DEF markRun, updateJob, JobType, TypeOK
      <4>2. CASE finishRun(i)
        BY <1>0, <3>1, <3>2, <4>2 DEF finishRun, updateJob, JobType, TypeOK
      <4>3. CASE haltRun(i)
        BY <1>0, <3>1, <3>2, <4>3 DEF haltRun, updateJob, JobType, TypeOK
      <4> QED BY <1>4, <4>1, <4>2, <4>3
    <3> QED BY <3>3
  <2>2. \A r, n : CompletedAfter(r, n) = Completed(r, n)
    BY <1>4 DEF markRun, finishRun, haltRun, Completed, CompletedAfter
  <2> QED
    BY <1>0, <1>4, <2>1, <2>2, GotoUnrepeated, Literals
       DEF markRun, finishRun, haltRun, WorkPcs, HaltPcs
<1>5. CASE markStep(i) \/ haltStep(i)
  <2>1. \A r \in Runs, n \in 1..MaxSteps : CompletedAfter(r, n) => Completed(r, n)
    <3>1. queue[i].run \in Runs /\ queue[i].step \in 1..MaxSteps
      BY <1>0, EntryFacts
    <3>2. step[queue[i].run][queue[i].step] \in StepType
      BY <1>0, <3>1, RowFacts
    <3>3. CASE markStep(i)
      BY <1>0, <3>1, <3>2, <3>3 DEF markStep, updateStep, Completed, CompletedAfter, StepType, TypeOK
    <3>4. CASE haltStep(i)
      BY <1>0, <3>1, <3>2, <3>4 DEF haltStep, updateStep, Completed, CompletedAfter, StepType, TypeOK
    <3> QED BY <1>5, <3>3, <3>4
  <2> QED
    BY <1>0, <1>5, <2>1, GotoUnrepeated, Literals DEF markStep, haltStep, WorkPcs, HaltPcs
<1>6. CASE findNone(i) \/ ack(i)
  <2>1. CASE findNone(i)
    BY <1>0, <1>1, <2>1, GotoUnrepeated, Literals DEF findNone, WorkPcs, HaltPcs
  <2>2. CASE ack(i)
    <3> DEFINE e == [queue[i] EXCEPT !.pc = "gone", !.result = <<>>, !.next = queue[i].step]
    <3>1. updateEntry(i, e) /\ e.run = queue[i].run /\ e.step = queue[i].step /\ e.pc \notin WorkPcs
      BY <1>0, <2>2 DEF ack, EntryType, WorkPcs, HaltPcs
    <3> HIDE DEF e
    <3> QED BY <1>0, <1>1, <2>2, <3>1, EntryUnrepeated DEF ack
  <2> QED BY <1>6, <2>1, <2>2
<1>7. CASE execute(i)
  <2> DEFINE x == Output(previousResult(i), queue[i].step)
             e == [queue[i] EXCEPT !.pc = "saveResult", !.result = x]
  <2>1. /\ updateEntry(i, e) /\ e.run = queue[i].run /\ e.step = queue[i].step
        /\ queue[i].pc \in WorkPcs
    <3> HIDE DEF x
    <3>1. updateEntry(i, e) /\ queue[i].pc = "execute"
      BY <1>7 DEF execute, x
    <3> QED BY <1>0, <3>1 DEF EntryType, WorkPcs
  <2> HIDE DEF e
  <2> QED BY <1>0, <1>1, <1>7, <2>1, EntryUnrepeated DEF execute
<1>8. ASSUME NEW m \in 1..MaxSteps, findNext(i, m) PROVE Unrepeated'
  <2> DEFINE e == [queue[i] EXCEPT !.pc = "enqueueNext", !.next = m]
  <2>1. updateEntry(i, e) /\ e.run = queue[i].run /\ e.step = queue[i].step /\ e.pc \notin WorkPcs
    BY <1>0, <1>8 DEF findNext, EntryType, WorkPcs, HaltPcs
  <2> HIDE DEF e
  <2> QED BY <1>0, <1>1, <1>8, <2>1, EntryUnrepeated DEF findNext
<1> QED
  BY <1>2, <1>3, <1>4, <1>5, <1>6, <1>7, <1>8 DEF Process, OnFailed

\* The step that is completed has nothing else at work on it.
LEMMA SaveUnrepeated ==
  ASSUME PipelineInv, Unrepeated, NEW i \in DOMAIN queue, saveResult(i)
  PROVE  Unrepeated'
<1> SUFFICES ASSUME NEW r, r = queue[i].run, NEW n, n = queue[i].step PROVE Unrepeated'
  OBVIOUS
<1>0. TypeOK /\ r \in Runs /\ n \in 1..MaxSteps
  BY EntryFacts DEF PipelineInv
<1>1. i \in LiveEntries(r)
  BY DEF saveResult, LiveEntries, LivePcs, EntryPcs, ActivePcs
<1>2. LiveEntries(r) = {i} /\ LiveRequests(r) = {}
  BY <1>0, <1>1, Exclusive
<1>3. /\ DOMAIN queue' = DOMAIN queue /\ queue'[i].pc \notin WorkPcs
      /\ \A j \in DOMAIN queue : j # i => queue'[j] = queue[j]
  <2>1. PICK e \in EntryType : updateEntry(i, e) /\ e.pc = "findNext"
    BY <1>0, GotoFacts, Literals DEF saveResult
  <2> QED BY <1>0, <2>1, UpdateEntry DEF WorkPcs, HaltPcs
<1>4. \A q \in Runs, m \in 1..MaxSteps : q # r => (CompletedAfter(q, m) <=> Completed(q, m))
  BY <1>0 DEF saveResult, updateStep, Completed, CompletedAfter, TypeOK
<1>5. WorkPcs \subseteq LivePcs
  BY DEF WorkPcs, LivePcs, EntryPcs, ActivePcs, HaltPcs
<1>6. ASSUME NEW j \in DOMAIN queue, queue'[j].pc \in WorkPcs
      PROVE  ~CompletedAfter(queue'[j].run, queue'[j].step)
  <2>1. j # i /\ queue'[j] = queue[j]
    BY <1>3, <1>6
  <2>2. queue[j].run \in Runs /\ queue[j].step \in 1..MaxSteps /\ queue[j].run # r
    BY <1>0, <1>2, <1>5, <1>6, <2>1, EntryFacts DEF LiveEntries
  <2> QED BY <1>4, <1>6, <2>1, <2>2 DEF Unrepeated
<1>7. ASSUME NEW c \in Clients, client[c].pc = "enqueue"
      PROVE  ~CompletedAfter(client[c].run, client[c].step)
  <2>1. client[c].run \in Runs /\ client[c].step \in 1..MaxSteps /\ client[c].run # r
    BY <1>0, <1>2, <1>7, ClientFacts DEF Idle, LiveRequests
  <2> QED BY <1>4, <1>7, <2>1 DEF Unrepeated
<1> QED BY <1>3, <1>6, <1>7 DEF Unrepeated, saveResult, Completed, CompletedAfter

\* A step that is enqueued is PENDING, or has been reset.
LEMMA EnqueueUnrepeated ==
  ASSUME TypeOK, Unrepeated, UNCHANGED <<job, step>>,
         NEW r, NEW n, ~Completed(r, n), NEW before,
         before \in Seq(EntryType), DOMAIN before = DOMAIN queue,
         \A j \in DOMAIN queue : before[j].pc \in WorkPcs => before[j] = queue[j],
         queue' = Append(before, Entry(r, n)),
         \A c \in Clients : client'[c] = client[c] \/ client'[c] = Idle
  PROVE  Unrepeated'
<1>1. \A q, m : CompletedAfter(q, m) = Completed(q, m)
  BY DEF Completed, CompletedAfter
<1>2. Len(before) = Len(queue) /\ queue \in Seq(EntryType)
  BY DEF TypeOK
<1>3. \A j \in DOMAIN queue' : queue'[j] = Entry(r, n) \/ (j \in DOMAIN queue /\ queue'[j] = before[j])
  BY <1>2
<1>4. Entry(r, n).run = r /\ Entry(r, n).step = n
  BY DEF Entry
<1>5. ASSUME NEW j \in DOMAIN queue', queue'[j].pc \in WorkPcs
      PROVE  ~CompletedAfter(queue'[j].run, queue'[j].step)
  BY <1>1, <1>3, <1>4, <1>5 DEF Unrepeated
<1> QED BY <1>1, <1>5 DEF Unrepeated, Idle, Completed, CompletedAfter

\* Every step keeps it, however many requests are under way.
LEMMA UnrepeatedStep ==
  ASSUME PipelineInv, Unrepeated, [Next]_vars, [ReturnIsRecorded]_vars, [ResultIsUsed]_vars
  PROVE  Unrepeated'
<1>0. TypeOK
  BY DEF PipelineInv
<1>1. CASE UNCHANGED vars
  BY <1>1 DEF vars, Unrepeated, Completed, CompletedAfter
<1>2. ASSUME NEW c \in Clients, NEW r \in Runs, NEW n \in 1..MaxSteps,
             createJob(c, r, n) \/ retryJobRead(c, r, n)
      PROVE  Unrepeated'
  <2>1. CASE createJob(c, r, n)
    <3>1. \A q \in Runs, m \in 1..MaxSteps : CompletedAfter(q, m) => Completed(q, m)
      BY <1>0, <2>1 DEF createJob, Completed, CompletedAfter, NewStep, NoStep, TypeOK
    <3>2. \A q \in Runs : job'[q].status = "NONE" => job'[q] = job[q]
      BY <1>0, <2>1 DEF createJob, NewJob, TypeOK
    <3>3. ~CompletedAfter(r, 1) /\ 1 \in 1..MaxSteps
      BY <1>0, <2>1 DEF createJob, Completed, CompletedAfter, NewStep, NoStep, TypeOK
    <3>4. \A i \in DOMAIN queue : queue[i].run \in Runs /\ queue[i].step \in 1..MaxSteps
      BY <1>0, EntryFacts
    <3>5. ASSUME NEW d \in Clients, client'[d].pc = "enqueue"
          PROVE  ~CompletedAfter(client'[d].run, client'[d].step)
      <4>1. CASE d = c
        <5>1. client'[d] = Request("enqueue", r, 1)
          BY <1>0, <2>1, <4>1 DEF createJob, TypeOK
        <5> QED BY <3>3, <5>1 DEF Request
      <4>2. CASE d # c
        <5>1. client'[d] = client[d]
          BY <1>0, <2>1, <4>2 DEF createJob, TypeOK
        <5>2. client[d].run \in Runs /\ client[d].step \in 1..MaxSteps
          BY <1>0, <3>5, <5>1, ClientFacts DEF Idle
        <5> QED BY <3>1, <3>5, <5>1, <5>2 DEF Unrepeated
      <4> QED BY <4>1, <4>2
    <3> QED BY <2>1, <3>1, <3>2, <3>4, <3>5 DEF createJob, Unrepeated, Completed, CompletedAfter
  <2>2. CASE retryJobRead(c, r, n)
    <3>1. \A d \in Clients : client'[d] = client[d] \/ client'[d].pc = "reset"
      BY <1>0, <2>2 DEF retryJobRead, Request, TypeOK
    <3> QED BY <2>2, <3>1 DEF retryJobRead, Unrepeated, Completed, CompletedAfter
  <2> QED BY <1>2, <2>1, <2>2
<1>3. ASSUME NEW c \in Clients, retryJobReset(c) PROVE Unrepeated'
  <2> DEFINE r == client[c].run  n == client[c].step
  <2>1. r \in Runs /\ n \in 1..MaxSteps
    BY <1>3, ResetWrites
  <2>2. \A q \in Runs, m \in 1..MaxSteps : CompletedAfter(q, m) => Completed(q, m)
    BY <1>0, <1>3, <2>1 DEF retryJobReset, updateStep, Completed, CompletedAfter, NewStep, TypeOK
  <2>3. \A q \in Runs : job'[q].status = "NONE" => job'[q] = job[q]
    BY <1>0, <1>3, <2>1 DEF retryJobReset, updateJob, TypeOK, JobType
  <2>4. ~CompletedAfter(r, n)
    BY <1>0, <1>3, <2>1 DEF retryJobReset, updateStep, Completed, CompletedAfter, NewStep, TypeOK
  <2>5. /\ client'[c] = Request("enqueue", r, n)
        /\ \A d \in Clients : d # c => client'[d] = client[d]
    BY <1>0, <1>3 DEF retryJobReset, TypeOK
  <2>6. \A i \in DOMAIN queue : queue[i].run \in Runs /\ queue[i].step \in 1..MaxSteps
    BY <1>0, EntryFacts
  <2> HIDE DEF r, n
  <2>7. ASSUME NEW d \in Clients, client'[d].pc = "enqueue"
        PROVE  ~CompletedAfter(client'[d].run, client'[d].step)
    <3>1. CASE d = c
      BY <2>4, <2>5, <3>1 DEF Request
    <3>2. CASE d # c
      <4>1. client[d].run \in Runs /\ client[d].step \in 1..MaxSteps
        BY <1>0, <2>5, <2>7, <3>2, ClientFacts DEF Idle
      <4> QED BY <2>2, <2>5, <2>7, <3>2, <4>1 DEF Unrepeated
    <3> QED BY <3>1, <3>2
  <2>8. UNCHANGED queue
    BY <1>3 DEF retryJobReset
  <2> QED BY <2>2, <2>3, <2>6, <2>7, <2>8 DEF Unrepeated, Completed, CompletedAfter
<1>4. ASSUME NEW c \in Clients, requestEnqueue(c) PROVE Unrepeated'
  <2>1. ~Completed(client[c].run, client[c].step)
    BY <1>4 DEF requestEnqueue, Unrepeated
  <2>2. \A d \in Clients : client'[d] = client[d] \/ client'[d] = Idle
    BY <1>0, <1>4 DEF requestEnqueue, TypeOK
  <2> QED
    BY <1>0, <1>4, <2>1, <2>2, EnqueueUnrepeated DEF requestEnqueue, enqueueStep, TypeOK
<1>5. ASSUME NEW i \in DOMAIN queue, enqueueNext(i) PROVE Unrepeated'
  <2> DEFINE e == [queue[i] EXCEPT !.pc = "ack"]
             before == [queue EXCEPT ![i] = e]
  <2>1. queue[i].pc \in LivePcs /\ queue[i].pc = "enqueueNext"
    BY <1>5 DEF enqueueNext, LivePcs, EntryPcs, ActivePcs
  <2>2. Drives(queue[i]) /\ queue[i].run \in Runs /\ queue[i] \in EntryType
    BY <2>1, LiveFacts
  <2>3. ~Completed(queue[i].run, queue[i].next)
    <3>1. /\ queue[i].step \in 1..MaxSteps /\ job[queue[i].run].total \in 0..MaxSteps
          /\ queue[i].step < job[queue[i].run].total /\ queue[i].next = queue[i].step + 1
      BY <1>0, <2>1, <2>2, LiveFacts DEF Drives
    <3>2. queue[i].next \in (queue[i].step + 1)..job[queue[i].run].total
      BY <3>1
    <3> QED BY <2>2, <3>2 DEF Drives, Frontier, Completed
  <2>4. e \in EntryType /\ e.pc \notin WorkPcs
    BY <2>2 DEF EntryType, EntryPcs, ActivePcs, WorkPcs, HaltPcs
  <2> HIDE DEF e
  <2>5. /\ before \in Seq(EntryType) /\ DOMAIN before = DOMAIN queue
        /\ \A j \in DOMAIN queue : before[j].pc \in WorkPcs => before[j] = queue[j]
    BY <1>0, <2>4 DEF TypeOK
  <2>6. queue' = Append(before, Entry(queue[i].run, queue[i].next)) /\ UNCHANGED <<job, step, client>>
    BY <1>5 DEF enqueueNext, e
  <2> HIDE DEF before
  <2> QED BY <1>0, <2>3, <2>5, <2>6, EnqueueUnrepeated
<1>6. ASSUME NEW i \in DOMAIN queue, Process(i) \/ OnFailed(i), ~enqueueNext(i) PROVE Unrepeated'
  BY <1>6, WorkUnrepeated, SaveUnrepeated
<1>7. ASSUME NEW i \in DOMAIN queue, haltIsLost(i) PROVE Unrepeated'
  BY <1>0, <1>7, GotoUnrepeated, Literals DEF haltIsLost, Fault, WorkPcs, HaltPcs, Completed, CompletedAfter
<1>8. ASSUME NEW c \in Clients, requestIsLost(c) PROVE Unrepeated'
  <2>1. \A d \in Clients : client'[d] = client[d] \/ client'[d] = Idle
    BY <1>0, <1>8 DEF requestIsLost, TypeOK
  <2> QED BY <1>8, <2>1 DEF requestIsLost, Fault, Unrepeated, Completed, CompletedAfter, Idle
<1>9. ASSUME NEW i \in DOMAIN queue, workerDies(i) \/ storeThrows(i) PROVE Unrepeated'
  <2>0. /\ queue[i] \in EntryType /\ UNCHANGED <<job, step, client>>
        /\ \A r, n : CompletedAfter(r, n) = Completed(r, n)
    BY <1>0, <1>9, EntryFacts DEF workerDies, storeThrows, Fault, Completed, CompletedAfter
  <2>1. \E e \in EntryType : /\ updateEntry(i, e) /\ e.run = queue[i].run /\ e.step = queue[i].step
                             /\ e.pc \in {"haltStep", "gone", "wait"}
    <3>1. CASE workerDies(i)
      <4> DEFINE stalls == queue[i].stalls + 1
                 e == [queue[i] EXCEPT !.pc = "wait", !.stalls = stalls, !.result = <<>>,
                                       !.next = queue[i].step]
      <4>1. updateEntry(i, e) /\ stalls \in Nat
        BY <1>0, <3>1, EntryFacts DEF workerDies
      <4>2. e \in EntryType /\ e.run = queue[i].run /\ e.step = queue[i].step /\ e.pc = "wait"
        <5> HIDE DEF stalls
        <5> QED BY <2>0, <4>1, Literals DEF EntryType
      <4> QED BY <4>1, <4>2
    <3>2. CASE storeThrows(i)
      BY <1>0, <3>2, FailEntry DEF storeThrows
    <3> QED BY <1>9, <3>1, <3>2
  <2>2. PICK e \in EntryType : /\ updateEntry(i, e) /\ e.run = queue[i].run /\ e.step = queue[i].step
                              /\ e.pc \in {"haltStep", "gone", "wait"}
    BY <2>1
  <2>3. queue'[i].pc \in {"haltStep", "gone", "wait"}
    BY <1>0, <2>2, UpdateEntry
  <2>4. queue[i].pc \in ReturnPcs => queue'[i].pc \in ReturnPcs \cup {"ack"}
    BY DEF ResultIsUsed, vars
  <2>5. queue[i].pc = "ack" => queue'[i].pc \in {"ack", "gone"}
    BY DEF ReturnIsRecorded, vars
  <2>6. queue[i].pc \in ActivePcs
    BY <1>9 DEF workerDies, storeThrows
  <2>7. e.pc \in WorkPcs => queue[i].pc \in WorkPcs
    <3>1. queue[i].pc \notin ReturnPcs
      BY <2>3, <2>4 DEF ReturnPcs
    <3>2. queue[i].pc = "ack" => e.pc = "gone"
      BY <1>0, <2>2, <2>3, <2>5, UpdateEntry
    <3> QED BY <2>6, <3>1, <3>2 DEF ActivePcs, ReturnPcs, WorkPcs, HaltPcs
  <2> QED BY <1>0, <2>0, <2>2, <2>7, EntryUnrepeated
<1> QED
  BY <1>1, <1>2, <1>3, <1>4, <1>5, <1>6, <1>7, <1>8, <1>9
     DEF Next, NewRequests, FinishRequests, Work, Failures

\* What JobRun sees of a run whose rows are kept.
LEMMA KeptRun ==
  ASSUME NEW r, RowsKept(r)
  PROVE  /\ Phase(r)' = Phase(r) /\ StepsOf(r)' = StepsOf(r)
         /\ \A s : StepsWith(r, s)' = StepsWith(r, s)
BY DEF RowsKept, Phase, StepsOf, StepsWith

\* A run at the frontier n is open: its completed steps are those before n, and n.
LEMMA FrontierView ==
  ASSUME TypeOK, NEW r \in Runs, NEW n \in 1..MaxSteps, Frontier(r, n)
  PROVE  /\ Phase(r) = "open" /\ n \in StepsOf(r) /\ job[r].total \in 0..MaxSteps
         /\ StepsWith(r, "COMPLETED") = IF Completed(r, n) THEN 1..n ELSE 1..(n - 1)
<1>1. job[r].total \in 0..MaxSteps
  BY RowFacts
<1>2. Phase(r) = "open"
  BY DEF Frontier, Phase
<1>3. \A m \in StepsOf(r) : m < n \/ m = n \/ m \in (n + 1)..job[r].total
  BY <1>1 DEF StepsOf
<1>4. \A m \in StepsOf(r) : step[r][m].status = "COMPLETED" <=> (m < n \/ (m = n /\ Completed(r, n)))
  BY <1>1, <1>3 DEF Frontier, StepsOf, Completed
<1> QED BY <1>1, <1>2, <1>4 DEF StepsWith, StepsOf, Frontier

\* A step that changes what JobRun sees of one run only.
LEMMA OneRunView ==
  ASSUME NEW r \in Runs, \A q \in Runs : q # r => RowsKept(q)
  PROVE  LET phase == [q \in Runs |-> Phase(q)]
             total == [q \in Runs |-> job[q].total]
             done  == [q \in Runs |-> StepsWith(q, "COMPLETED")]
         IN  /\ phase' = [phase EXCEPT ![r] = Phase(r)']
             /\ total' = [total EXCEPT ![r] = job'[r].total]
             /\ done' = [done EXCEPT ![r] = StepsWith(r, "COMPLETED")']
<1>1. \A q \in Runs : q # r => /\ Phase(q)' = Phase(q) /\ job'[q].total = job[q].total
                               /\ StepsWith(q, "COMPLETED")' = StepsWith(q, "COMPLETED")
  BY KeptRun DEF RowsKept
<1> QED BY <1>1

\* Creating a run starts it, and resetting its FAILED step resumes it.
LEMMA RequestImplements ==
  ASSUME PipelineInv, Unrepeated, NEW c \in Clients,
         retryJobReset(c) \/ \E r \in Runs, n \in 1..MaxSteps : createJob(c, r, n)
  PROVE  Run!Next
<1>0. TypeOK
  BY DEF PipelineInv
<1>1. ASSUME NEW r \in Runs, NEW n \in 1..MaxSteps, createJob(c, r, n) PROVE Run!Next
  <2>1. \A q \in Runs : q # r => RowsKept(q)
    BY <1>0, <1>1 DEF createJob, RowsKept, TypeOK
  <2>2. Phase(r) = "absent" /\ StepsWith(r, "COMPLETED") = {}
    BY <1>1 DEF createJob, Phase, StepsWith, StepsOf, Unrepeated
  <2>3. job'[r] = NewJob(n) /\ \A k \in 1..n : step'[r][k].status = "PENDING"
    BY <1>0, <1>1 DEF createJob, NewStep, TypeOK
  <2>4. Phase(r)' = "open" /\ job'[r].total = n /\ StepsWith(r, "COMPLETED")' = {}
    BY <2>3 DEF NewJob, Phase, StepsWith, StepsOf
  <2>5. Run!Start(r, n)
    BY <2>1, <2>2, <2>4, OneRunView DEF Run!Start
  <2> QED BY <2>5 DEF Run!Next
<1>2. CASE retryJobReset(c)
  <2> SUFFICES ASSUME NEW r, r = client[c].run, NEW n, n = client[c].step PROVE Run!Next
    OBVIOUS
  <2>1. /\ r \in Runs /\ n \in 1..MaxSteps /\ n \in StepsOf(r)
        /\ job[r].status = "FAILED" /\ step[r][n].status = "FAILED"
        /\ \A q \in Runs : q # r => RowsKept(q)
    BY <1>2, ResetWrites
  <2>2. job[r] \in JobType
    BY <1>0, <2>1, RowFacts
  <2>3. job'[r].status = "PROCESSING" /\ job'[r].total = job[r].total
    BY <1>0, <1>2, <2>1, <2>2 DEF retryJobReset, updateJob, TypeOK, JobType
  <2>4. /\ step'[r][n].status = "PENDING"
        /\ \A m \in 1..MaxSteps : m # n => step'[r][m] = step[r][m]
    BY <1>0, <1>2, <2>1 DEF retryJobReset, updateStep, TypeOK, NewStep
  <2>5. StepsOf(r) \subseteq 1..MaxSteps
    BY <2>2 DEF StepsOf, JobType
  <2>6. /\ Phase(r) = "failed" /\ Phase(r)' = "open"
        /\ StepsWith(r, "COMPLETED")' = StepsWith(r, "COMPLETED")
    BY <2>1, <2>3, <2>4, <2>5 DEF Phase, StepsWith, StepsOf
  <2>7. Run!Resume(r)
    BY <2>1, <2>3, <2>6, OneRunView DEF Run!Resume
  <2> QED BY <2>1, <2>7 DEF Run!Next
<1> QED BY <1>1, <1>2

\* saveResult advances a run, finishRun completes it and haltRun halts it; what else
\* is written is invisible to JobRun.
LEMMA WorkImplements ==
  ASSUME PipelineInv, Unrepeated, NEW i \in DOMAIN queue, RowWrite(i)
  PROVE  [Run!Next]_(Run!runVars)
<1> SUFFICES ASSUME NEW r, r = queue[i].run, NEW n, n = queue[i].step
             PROVE  [Run!Next]_(Run!runVars)
  OBVIOUS
<1>0. /\ TypeOK /\ Drives(queue[i]) /\ Frontier(r, n) /\ r \in Runs /\ n \in 1..MaxSteps
      /\ \A q \in Runs : q # r => RowsKept(q)
  BY EntryWrites DEF PipelineInv
<1>1. /\ Phase(r) = "open" /\ n \in 1..job[r].total /\ job[r].total \in 0..MaxSteps
      /\ job[r] \in JobType /\ step[r][n] \in StepType
      /\ StepsWith(r, "COMPLETED") = IF Completed(r, n) THEN 1..n ELSE 1..(n - 1)
  BY <1>0, FrontierView, RowFacts DEF StepsOf
<1>2. queue[i].pc \in WorkPcs => ~Completed(r, n)
  BY DEF Unrepeated
<1>3. ASSUME NEW status, job'[r].status = status, job'[r].total = job[r].total, step' = step
      PROVE  /\ StepsWith(r, "COMPLETED")' = StepsWith(r, "COMPLETED")
             /\ status \in {"PENDING", "PROCESSING"} => Phase(r)' = "open"
             /\ status = "COMPLETED" => Phase(r)' = "completed"
             /\ status = "FAILED" => Phase(r)' = "failed"
  BY <1>3 DEF StepsWith, StepsOf, Phase
<1>4. ASSUME job' = job, \A m \in 1..MaxSteps : m # n => step'[r][m] = step[r][m]
      PROVE  /\ \A q \in Runs : Phase(q)' = Phase(q)
             /\ StepsWith(r, "COMPLETED")' =
                  IF CompletedAfter(r, n) THEN StepsWith(r, "COMPLETED") \cup {n}
                  ELSE StepsWith(r, "COMPLETED") \ {n}
  <2>1. StepsOf(r)' = StepsOf(r) /\ n \in StepsOf(r) /\ StepsOf(r) \subseteq 1..MaxSteps
    BY <1>1, <1>4 DEF StepsOf
  <2>2. \A m \in StepsOf(r) : m # n => step'[r][m].status = step[r][m].status
    BY <1>4, <2>1
  <2> QED BY <1>4, <2>1, <2>2 DEF StepsWith, Phase, CompletedAfter
<1>5. CASE markRun(i)
  <2>1. job'[r].status = "PROCESSING" /\ job'[r].total = job[r].total /\ step' = step
    BY <1>0, <1>1, <1>5 DEF markRun, updateJob, TypeOK, JobType
  <2> QED BY <1>0, <1>1, <1>3, <2>1, OneRunView DEF Run!runVars
<1>6. CASE markStep(i) \/ haltStep(i)
  <2>1. ~Completed(r, n)
    BY <1>2, <1>6 DEF markStep, haltStep, WorkPcs, HaltPcs
  <2>2. PICK status, attempts :
          /\ step' = [step EXCEPT ![r][n] = [step[r][n] EXCEPT !.status = status, !.attempts = attempts]]
          /\ status # "COMPLETED" /\ job' = job
    BY <1>6 DEF markStep, haltStep, updateStep
  <2>3. step'[r][n].status = status
    BY <1>0, <1>1, <2>2 DEF TypeOK, StepType
  <2>4. \A m \in 1..MaxSteps : m # n => step'[r][m] = step[r][m]
    BY <1>0, <2>2 DEF TypeOK
  <2>5. StepsWith(r, "COMPLETED")' = StepsWith(r, "COMPLETED")
    BY <1>4, <2>1, <2>2, <2>3, <2>4 DEF CompletedAfter, Completed, StepsWith
  <2>6. \A q \in Runs : /\ Phase(q)' = Phase(q) /\ job'[q].total = job[q].total
                       /\ StepsWith(q, "COMPLETED")' = StepsWith(q, "COMPLETED")
    BY <1>0, <1>4, <2>2, <2>4, <2>5, KeptRun
  <2> QED BY <2>6 DEF Run!runVars
<1>7. CASE saveResult(i)
  <2>1. step' = [step EXCEPT ![r][n] = [step[r][n] EXCEPT !.status = "COMPLETED", !.result = queue[i].result]]
    BY <1>7 DEF saveResult, updateStep
  <2>2. CompletedAfter(r, n)
    BY <1>0, <1>1, <2>1 DEF TypeOK, StepType, CompletedAfter
  <2>3. job' = job /\ \A m \in 1..MaxSteps : m # n => step'[r][m] = step[r][m]
    BY <1>0, <1>7, <2>1 DEF saveResult, TypeOK
  <2>4. ~Completed(r, n)
    BY <1>2, <1>7 DEF saveResult, WorkPcs
  <2>5. StepsWith(r, "COMPLETED") = 1..(n - 1)
    BY <1>1, <2>4
  <2>6. 1..(n - 1) \cup {n} = 1..n
    BY <1>0
  <2>7. StepsWith(r, "COMPLETED")' = 1..n
    BY <1>4, <2>2, <2>3, <2>5, <2>6
  <2>8. \A q \in Runs : Phase(q)' = Phase(q) /\ job'[q].total = job[q].total
    BY <1>4, <2>3
  <2>9. [q \in Runs |-> StepsWith(q, "COMPLETED")]' =
           [[q \in Runs |-> StepsWith(q, "COMPLETED")] EXCEPT ![r] = 1..n]
    BY <1>0, <2>7, OneRunView
  <2>10. UNCHANGED <<[q \in Runs |-> Phase(q)], [q \in Runs |-> job[q].total]>>
    BY <2>8
  <2>11. Run!Advance(r, n)
    BY <1>0, <1>1, <2>5, <2>9, <2>10 DEF Run!Advance
  <2> QED BY <1>0, <2>11 DEF Run!Next, Run!Drive
<1>8. CASE finishRun(i)
  <2>1. job'[r].status = "COMPLETED" /\ job'[r].total = job[r].total /\ step' = step
    BY <1>0, <1>1, <1>8 DEF finishRun, updateJob, TypeOK, JobType
  <2>2. StepsWith(r, "COMPLETED") = 1..job[r].total
    BY <1>0, <1>1, <1>8 DEF finishRun, Drives, Completed
  <2>3. Run!Complete(r)
    BY <1>0, <1>1, <1>3, <2>1, <2>2, OneRunView DEF Run!Complete
  <2> QED BY <1>0, <2>3 DEF Run!Next, Run!Drive
<1>9. CASE haltRun(i)
  <2>1. job'[r].status = "FAILED" /\ job'[r].total = job[r].total /\ step' = step
    BY <1>0, <1>1, <1>9 DEF haltRun, updateJob, TypeOK, JobType
  <2>2. n \notin StepsWith(r, "COMPLETED")
    BY <1>2, <1>9 DEF haltRun, WorkPcs, HaltPcs, StepsWith, Completed
  <2>3. Run!Halt(r)
    BY <1>0, <1>1, <1>3, <2>1, <2>2, OneRunView DEF Run!Halt
  <2> QED BY <1>0, <2>3 DEF Run!Next, Run!Drive
<1> QED BY <1>5, <1>6, <1>7, <1>8, <1>9 DEF RowWrite

\* The rows of Jobs and JobSteps implement JobRun: a run advances one step after the
\* other, completes when the last is done or halts at one that is not, and is resumed
\* there; with requests and onFailed cut short anywhere, and any number of workers.
\* This is the safety of ImplementsJobRun.
THEOREM RowsImplementJobRun == Spec /\ Disciplined /\ NoRepeats => Run!Safety
<1>1. Init => Run!Init /\ Unrepeated
  <2> SUFFICES ASSUME Init PROVE Run!Init /\ Unrepeated
    OBVIOUS
  <2>1. \A r \in Runs : job[r] = NoJob
    BY DEF Init
  <2>2. \A r \in Runs : Phase(r) = "absent" /\ job[r].total = 0 /\ StepsWith(r, "COMPLETED") = {}
    BY <2>1 DEF NoJob, Phase, StepsWith, StepsOf
  <2>3. Unrepeated
    BY <2>1 DEF Init, NoJob, Idle, Unrepeated
  <2> QED BY <2>2, <2>3 DEF Run!Init
<1>2. PipelineInv /\ Unrepeated /\ [Next]_vars /\ [ReturnIsRecorded]_vars /\ [ResultIsUsed]_vars
        => Unrepeated'
  BY UnrepeatedStep
<1>3. PipelineInv /\ Unrepeated /\ [Next]_vars => [Run!Next]_(Run!runVars)
  <2> SUFFICES ASSUME PipelineInv, Unrepeated, [Next]_vars PROVE [Run!Next]_(Run!runVars)
    OBVIOUS
  <2>1. CASE UNCHANGED <<job, step>>
    <3>1. \A r \in Runs : RowsKept(r)
      BY <2>1 DEF RowsKept
    <3> QED BY <2>1, <3>1, KeptRun DEF Run!runVars
  <2>2. CASE UNCHANGED vars
    BY <2>1, <2>2 DEF vars
  <2> QED BY <2>1, <2>2, RowsOnlyWrittenBy, RequestImplements, WorkImplements
<1> QED BY <1>1, <1>2, <1>3, InvariantHolds, PTL DEF Spec, Disciplined, NoRepeats, Run!Safety

-----------------------------------------------------------------------------
(***************************************************************************)
(* Instances that are disciplined by their constants: the hypotheses of    *)
(* the theorems are not empty, and cover the runs.                         *)
(***************************************************************************)

EntryFault(i) == workerDies(i) \/ storeThrows(i) \/ haltIsLost(i)

\* An entry moves by its own activation, its onFailed or a fault that strikes it.
LEMMA EntryKept ==
  ASSUME TypeOK, Next, NEW i \in DOMAIN queue, ~Process(i), ~OnFailed(i), ~EntryFault(i)
  PROVE  queue'[i] = queue[i]
<1>0. queue \in Seq(EntryType)
  BY DEF TypeOK
<1>1. ASSUME NEW j \in DOMAIN queue, j # i, NEW e, updateEntry(j, e) PROVE queue'[i] = queue[i]
  BY <1>0, <1>1 DEF updateEntry
<1>2. ASSUME NEW j \in DOMAIN queue, j # i, Process(j) \/ OnFailed(j) PROVE queue'[i] = queue[i]
  <2>1. CASE enqueueNext(j)
    <3> DEFINE before == [queue EXCEPT ![j] = [queue[j] EXCEPT !.pc = "ack"]]
    <3>1. queue' = Append(before, Entry(queue[j].run, queue[j].next))
      BY <2>1 DEF enqueueNext
    <3>2. DOMAIN before = 1..Len(queue) /\ before[i] = queue[i]
      BY <1>0, <1>2
    <3>3. Len(before) = Len(queue)
      <4>1. queue[j] \in EntryType /\ [queue[j] EXCEPT !.pc = "ack"] \in EntryType
        BY EntryFacts, Literals DEF EntryType
      <4> QED BY <1>0, <4>1
    <3> HIDE DEF before
    <3> QED BY <1>0, <3>1, <3>2, <3>3
  <2>2. CASE ~enqueueNext(j)
    BY <1>1, <1>2, <2>2
       DEF Process, OnFailed, take, markRun, markStep, execute, handlerThrows, saveResult,
           findNext, findNone, finishRun, ack, haltStep, haltRun, Goto, AttemptFailed
  <2> QED BY <2>1, <2>2
<1>3. ASSUME NEW j \in DOMAIN queue, j # i, EntryFault(j) PROVE queue'[i] = queue[i]
  BY <1>1, <1>3 DEF EntryFault, workerDies, storeThrows, haltIsLost, Goto, AttemptFailed
<1>4. ASSUME NEW c \in Clients, requestEnqueue(c) PROVE queue'[i] = queue[i]
  BY <1>0, <1>4 DEF requestEnqueue, enqueueStep
<1>5. CASE NewRequests \/ \E c \in Clients : retryJobReset(c) \/ requestIsLost(c)
  BY <1>5 DEF NewRequests, createJob, retryJobRead, retryJobReset, requestIsLost
<1> QED BY <1>2, <1>3, <1>4, <1>5 DEF Next, FinishRequests, Work, Failures, EntryFault

\* An entry on its way out goes on unless its worker dies, or a statement throws
\* before it has returned.
LEMMA ReturnGoesOn ==
  ASSUME TypeOK, Next, NEW i \in DOMAIN queue, ~workerDies(i)
  PROVE  /\ queue[i].pc = "ack" => queue'[i].pc \in {"ack", "gone"}
         /\ queue[i].pc \in ReturnPcs /\ ~storeThrows(i) => queue'[i].pc \in ReturnPcs \cup {"ack"}
<1>0. queue[i] \in EntryType
  BY EntryFacts
<1>1. CASE ~Process(i) /\ ~OnFailed(i) /\ ~EntryFault(i)
  BY <1>1, EntryKept
<1>2. CASE OnFailed(i) \/ haltIsLost(i)
  BY <1>2 DEF OnFailed, haltStep, haltRun, haltIsLost, HaltPcs, ReturnPcs
<1>3. CASE storeThrows(i)
  BY <1>3 DEF storeThrows, ActivePcs
<1>4. CASE Process(i) /\ queue[i].pc \in ReturnPcs \cup {"ack"}
  <2>1. \/ ack(i) \/ enqueueNext(i) \/ finishRun(i) \/ findNone(i)
        \/ \E n \in 1..MaxSteps : findNext(i, n)
    BY <1>4 DEF Process, take, markRun, markStep, execute, handlerThrows, saveResult, ReturnPcs
  <2>2. CASE ack(i)
    <3> DEFINE e == [queue[i] EXCEPT !.pc = "gone", !.result = <<>>, !.next = queue[i].step]
    <3>1. e \in EntryType /\ e.pc = "gone" /\ updateEntry(i, e)
      BY <1>0, <2>2, Literals DEF EntryType, ack
    <3> HIDE DEF e
    <3> QED BY <2>2, <3>1, UpdateEntry DEF ack, ReturnPcs
  <2>3. CASE enqueueNext(i)
    <3> DEFINE e == [queue[i] EXCEPT !.pc = "ack"]
               before == [queue EXCEPT ![i] = e]
    <3>1. e \in EntryType /\ e.pc = "ack"
      BY <1>0, Literals DEF EntryType
    <3> HIDE DEF e
    <3>2. before \in Seq(EntryType) /\ i \in 1..Len(before) /\ before[i] = e
      BY <3>1 DEF TypeOK
    <3>3. queue' = Append(before, Entry(queue[i].run, queue[i].next))
      BY <2>3 DEF enqueueNext, e
    <3> HIDE DEF before
    <3>4. queue'[i] = e
      BY <3>2, <3>3
    <3> QED BY <2>3, <3>1, <3>4 DEF enqueueNext
  <2>4. CASE finishRun(i) \/ findNone(i)
    <3>1. PICK e \in EntryType : updateEntry(i, e) /\ e.pc \in {"ack", "finishRun"}
      BY <2>4, GotoFacts, Literals DEF finishRun, findNone
    <3> QED BY <2>4, <3>1, UpdateEntry DEF finishRun, findNone, ReturnPcs
  <2>5. ASSUME NEW n \in 1..MaxSteps, findNext(i, n)
        PROVE  queue[i].pc = "findNext" /\ queue'[i].pc = "enqueueNext"
    <3> DEFINE e == [queue[i] EXCEPT !.pc = "enqueueNext", !.next = n]
    <3>1. e \in EntryType /\ e.pc = "enqueueNext" /\ updateEntry(i, e)
      BY <1>0, <2>5, Literals DEF EntryType, findNext
    <3> HIDE DEF e
    <3> QED BY <2>5, <3>1, UpdateEntry DEF findNext
  <2> QED BY <2>1, <2>2, <2>3, <2>4, <2>5 DEF ReturnPcs
<1> QED BY <1>1, <1>2, <1>3, <1>4 DEF EntryFault

\* While no worker dies inside process(), no entry that has returned comes back.
LEMMA ReturnsRecorded == "worker" \notin Faults => (Spec => [][ReturnIsRecorded]_vars)
<1> SUFFICES ASSUME "worker" \notin Faults PROVE Spec => [][ReturnIsRecorded]_vars
  OBVIOUS
<1>1. TypeOK /\ [Next]_vars => [ReturnIsRecorded]_vars
  <2>1. \A i \in DOMAIN queue : ~workerDies(i)
    BY DEF workerDies, Fault
  <2> QED BY <2>1, ReturnGoesOn DEF ReturnIsRecorded
<1> QED BY <1>1, TypeCorrect, PTL DEF Spec

\* While no statement of process() throws either, a stored result is used.
LEMMA ResultsUsed == Faults \cap {"worker", "store"} = {} => (Spec => NoRepeats)
<1> SUFFICES ASSUME Faults \cap {"worker", "store"} = {} PROVE Spec => NoRepeats
  OBVIOUS
<1>1. TypeOK /\ [Next]_vars => [ResultIsUsed]_vars
  <2>1. \A i \in DOMAIN queue : ~workerDies(i) /\ ~storeThrows(i)
    BY DEF workerDies, storeThrows, Fault
  <2> QED BY <2>1, ReturnGoesOn DEF ResultIsUsed
<1> QED BY <1>1, TypeCorrect, PTL DEF Spec, NoRepeats

\* A request between retryJob's check and its transaction has been counted.
Counted ==
  /\ \A c \in Clients : client[c].pc = "reset" => retries >= 1
  /\ \A c, d \in Clients : client[c].pc = "reset" /\ client[d].pc = "reset" /\ c # d => retries >= 2

\* With one retry there are no two of them at once.
LEMMA OneRetryApart == MaxRetries <= 1 => (Spec => []RetriesApart)
<1> SUFFICES ASSUME MaxRetries <= 1 PROVE Spec => []RetriesApart
  OBVIOUS
<1>1. Init => Counted
  BY DEF Init, Idle, Counted
<1>2. TypeOK /\ Counted /\ [Next]_vars => Counted'
  <2> SUFFICES ASSUME TypeOK, Counted, [Next]_vars PROVE Counted'
    OBVIOUS
  <2>0. retries \in Nat /\ client \in [Clients -> ClientType]
    BY DEF TypeOK
  <2>1. ASSUME NEW c \in Clients, NEW r \in Runs, NEW n \in 1..MaxSteps, retryJobRead(c, r, n)
        PROVE  Counted'
    <3>1. /\ retries' = retries + 1 /\ client[c] = Idle
          /\ \A d \in Clients : d # c => client'[d] = client[d]
      BY <2>0, <2>1 DEF retryJobRead
    <3> QED BY <2>0, <3>1 DEF Counted
  <2>2. ASSUME retries' = retries,
               \A d \in Clients : client'[d] = client[d] \/ client'[d].pc # "reset"
        PROVE  Counted'
    BY <2>2 DEF Counted
  <2>3. ASSUME NEW c \in Clients, NEW r \in Runs, NEW n \in 1..MaxSteps, createJob(c, r, n)
        PROVE  Counted'
    BY <2>0, <2>2, <2>3 DEF createJob, Request
  <2>4. ASSUME NEW c \in Clients, retryJobReset(c) \/ requestEnqueue(c) \/ requestIsLost(c)
        PROVE  Counted'
    <3>1. retries' = retries
      BY <2>4 DEF retryJobReset, requestEnqueue, requestIsLost, Fault
    <3>2. \A d \in Clients : client'[d] = client[d] \/ client'[d].pc # "reset"
      BY <2>0, <2>4 DEF retryJobReset, requestEnqueue, requestIsLost, Request, Idle
    <3> QED BY <2>2, <3>1, <3>2
  <2>5. ASSUME NEW i \in DOMAIN queue, Process(i) \/ OnFailed(i) \/ EntryFault(i)
        PROVE  UNCHANGED <<client, retries>>
    BY <2>5 DEF Process, OnFailed, EntryFault, take, markRun, markStep, execute, handlerThrows,
                saveResult, findNext, findNone, enqueueNext, finishRun, ack, haltStep, haltRun,
                workerDies, storeThrows, haltIsLost, Fault
  <2>6. CASE UNCHANGED <<client, retries>>
    BY <2>6 DEF Counted
  <2> QED BY <2>1, <2>3, <2>4, <2>5, <2>6
          DEF Next, NewRequests, FinishRequests, Work, Failures, EntryFault, vars
<1>3. TypeOK /\ Counted /\ retries <= MaxRetries => RetriesApart
  BY DEF Counted, RetriesApart, TypeOK
<1>4. Init => retries <= MaxRetries
  BY DEF Init
<1>5. TypeOK /\ retries <= MaxRetries /\ [Next]_vars => (retries <= MaxRetries)'
  <2> SUFFICES ASSUME TypeOK, retries <= MaxRetries, [Next]_vars PROVE retries' <= MaxRetries
    OBVIOUS
  <2>0. retries \in Nat
    BY DEF TypeOK
  <2>1. ASSUME NEW c \in Clients, NEW r \in Runs, NEW n \in 1..MaxSteps, retryJobRead(c, r, n)
        PROVE  retries' <= MaxRetries
    BY <2>0, <2>1 DEF retryJobRead
  <2>2. ASSUME NEW i \in DOMAIN queue, Process(i) \/ OnFailed(i) \/ EntryFault(i)
        PROVE  retries' = retries
    BY <2>2 DEF Process, OnFailed, EntryFault, take, markRun, markStep, execute, handlerThrows,
                saveResult, findNext, findNone, enqueueNext, finishRun, ack, haltStep, haltRun,
                workerDies, storeThrows, haltIsLost, Fault
  <2>3. ASSUME NEW c \in Clients,
               \/ retryJobReset(c) \/ requestEnqueue(c) \/ requestIsLost(c)
               \/ \E r \in Runs, n \in 1..MaxSteps : createJob(c, r, n)
        PROVE  retries' = retries
    BY <2>3 DEF retryJobReset, requestEnqueue, requestIsLost, createJob, Fault
  <2> QED BY <2>1, <2>2, <2>3 DEF Next, NewRequests, FinishRequests, Work, Failures, EntryFault, vars
<1> QED BY <1>1, <1>2, <1>3, <1>4, <1>5, TypeCorrect, PTL DEF Spec

\* When no worker dies inside process() and requests are served one at a time, or
\* only one retry is accepted, every behaviour is disciplined.
THEOREM OrdinaryRunsAreDisciplined ==
  "worker" \notin Faults /\ (MaxRetries <= 1 \/ \A c, d \in Clients : c = d)
    => (Spec => Disciplined)
<1> SUFFICES ASSUME "worker" \notin Faults, MaxRetries <= 1 \/ \A c, d \in Clients : c = d
             PROVE  Spec => Disciplined
  OBVIOUS
<1>1. Spec => []RetriesApart
  <2>1. CASE MaxRetries <= 1
    BY <2>1, OneRetryApart
  <2>2. CASE \A c, d \in Clients : c = d
    <3>1. RetriesApart
      BY <2>2 DEF RetriesApart
    <3> QED BY <3>1, PTL
  <2> QED BY <2>1, <2>2
<1> QED BY <1>1, ReturnsRecorded, PTL DEF Disciplined

\* The instance of the refinement run, for every number of runs, steps and clients:
\* without deaths and failing statements, the rows implement JobRun outright.
THEOREM FaultlessRowsImplementJobRun ==
  Faults \cap {"worker", "store"} = {} /\ MaxRetries <= 1 => (Spec => Run!Safety)
<1> SUFFICES ASSUME Faults \cap {"worker", "store"} = {}, MaxRetries <= 1
             PROVE  Spec => Run!Safety
  OBVIOUS
<1>1. Spec => Disciplined
  BY OrdinaryRunsAreDisciplined
<1>2. Spec => NoRepeats
  BY ResultsUsed
<1> QED BY <1>1, <1>2, RowsImplementJobRun, PTL

-----------------------------------------------------------------------------
(***************************************************************************)
(* Redelivery.  Without retries, and whatever fails or dies: a step that   *)
(* has been started is never PENDING again, so the run that an entry finds *)
(* without a PENDING step has none when it is called COMPLETED, and the    *)
(* first PENDING step it finds is still behind no other when it is         *)
(* started, however late that is.                                          *)
(***************************************************************************)
NoRetries == MaxRetries = 0

\* no PENDING step of run r comes before n
Due(r, n) == \A m \in StepsWith(r, "PENDING") : n <= m

StartedInv ==
  /\ \A c \in Clients :
       /\ client[c].pc # "reset"
       /\ client[c].pc = "enqueue" => job[client[c].run].status # "NONE" /\ client[c].step = 1
  /\ \A i \in DOMAIN queue :
       /\ job[queue[i].run].status # "NONE"
       /\ Due(queue[i].run, queue[i].step)
       /\ queue[i].pc = "enqueueNext" => Due(queue[i].run, queue[i].next)
       /\ queue[i].pc = "finishRun" => StepsWith(queue[i].run, "PENDING") = {}
  /\ NoStepIsSkipped

\* A run keeps existing and its steps, once started, are not PENDING again.
LEMMA NeverPendingAgain ==
  ASSUME TypeOK, StartedInv, Next, NEW r \in Runs, job[r].status # "NONE"
  PROVE  /\ job'[r].status # "NONE"
         /\ StepsWith(r, "PENDING")' \subseteq StepsWith(r, "PENDING")
<1>1. CASE UNCHANGED <<job, step>>
  BY <1>1 DEF StepsWith, StepsOf
<1>2. ASSUME NEW c \in Clients, NEW q \in Runs, NEW n \in 1..MaxSteps, createJob(c, q, n)
      PROVE  RowsKept(r)
  BY <1>2 DEF createJob, RowsKept, TypeOK
<1>3. ASSUME NEW c \in Clients, retryJobReset(c) PROVE FALSE
  BY <1>3 DEF retryJobReset, StartedInv
<1>4. ASSUME NEW i \in DOMAIN queue, RowWrite(i)
      PROVE  /\ job'[r].status # "NONE"
             /\ StepsWith(r, "PENDING")' \subseteq StepsWith(r, "PENDING")
  <2> SUFFICES ASSUME NEW q, q = queue[i].run, NEW n, n = queue[i].step
               PROVE  /\ job'[r].status # "NONE"
                      /\ StepsWith(r, "PENDING")' \subseteq StepsWith(r, "PENDING")
    OBVIOUS
  <2>1. q \in Runs /\ n \in 1..MaxSteps /\ job[q] \in JobType /\ step[q][n] \in StepType
        /\ job[r] \in JobType /\ StepsOf(r) \subseteq 1..MaxSteps
    <3>1. q \in Runs /\ n \in 1..MaxSteps
      BY EntryFacts
    <3>2. job[q] \in JobType /\ step[q][n] \in StepType /\ job[r] \in JobType
          /\ job[r].total \in 0..MaxSteps
      BY <3>1, RowFacts
    <3>3. MaxSteps \in Nat
      BY PipelineAssumption
    <3> QED BY <3>1, <3>2, <3>3 DEF StepsOf
  <2>2. CASE markRun(i) \/ finishRun(i) \/ haltRun(i)
    <3>1. step' = step /\ \A p \in Runs : p # q => job'[p] = job[p]
      BY <2>2 DEF markRun, finishRun, haltRun, updateJob, TypeOK
    <3>2. job'[q].status # "NONE" /\ job'[q].total = job[q].total
      <4>1. CASE markRun(i)
        BY <2>1, <4>1 DEF markRun, updateJob, JobType, TypeOK
      <4>2. CASE finishRun(i)
        BY <2>1, <4>2 DEF finishRun, updateJob, JobType, TypeOK
      <4>3. CASE haltRun(i)
        BY <2>1, <4>3 DEF haltRun, updateJob, JobType, TypeOK
      <4> QED BY <2>2, <4>1, <4>2, <4>3
    <3> QED BY <3>1, <3>2 DEF StepsWith, StepsOf
  <2>3. CASE markStep(i) \/ saveResult(i) \/ haltStep(i)
    <3>1. job' = job /\ \A p \in Runs, m \in 1..MaxSteps : p # q \/ m # n => step'[p][m] = step[p][m]
      BY <2>1, <2>3 DEF markStep, saveResult, haltStep, updateStep, TypeOK
    <3>2. step'[q][n].status # "PENDING"
      <4>1. CASE markStep(i)
        BY <2>1, <4>1 DEF markStep, updateStep, StepType, TypeOK
      <4>2. CASE saveResult(i)
        BY <2>1, <4>2 DEF saveResult, updateStep, StepType, TypeOK
      <4>3. CASE haltStep(i)
        BY <2>1, <4>3 DEF haltStep, updateStep, StepType, TypeOK
      <4> QED BY <2>3, <4>1, <4>2, <4>3
    <3>3. \A m \in 1..MaxSteps : step'[r][m].status = "PENDING" => step[r][m].status = "PENDING"
      BY <3>1, <3>2
    <3> QED BY <2>1, <3>1, <3>3 DEF StepsWith, StepsOf
  <2> QED BY <1>4, <2>2, <2>3 DEF RowWrite
<1> QED BY <1>1, <1>2, <1>3, <1>4, KeptRun, RowsOnlyWrittenBy DEF RowsKept

Moved(j) ==
  /\ j \in DOMAIN queue /\ queue'[j].run = queue[j].run /\ queue'[j].step = queue[j].step
  /\ queue'[j].pc = "finishRun" =>
       queue[j].pc = "finishRun" \/ StepsWith(queue[j].run, "PENDING") = {}
  /\ queue'[j].pc = "enqueueNext" =>
       queue'[j] = queue[j] \/ Due(queue[j].run, queue'[j].next)

Added(j) ==
  /\ queue'[j].run \in Runs /\ job[queue'[j].run].status # "NONE"
  /\ queue'[j].pc = "wait" /\ Due(queue'[j].run, queue'[j].step)

\* What a step leaves in the queue: an entry that came to finishRun found no PENDING
\* step and one that came to enqueueNext the first; a new one is for such a step.
LEMMA QueueMoves ==
  ASSUME TypeOK, StartedInv, Next
  PROVE  \A j \in DOMAIN queue' : Moved(j) \/ Added(j)
<1> DEFINE Quiet == \A j \in DOMAIN queue' : Moved(j)
<1>0. queue \in Seq(EntryType) /\ \A i \in DOMAIN queue : queue[i] \in EntryType
  BY EntryFacts DEF TypeOK
<1>1. ASSUME NEW i \in DOMAIN queue, NEW e \in EntryType, updateEntry(i, e),
             e.run = queue[i].run, e.step = queue[i].step,
             e.pc = "finishRun" => StepsWith(e.run, "PENDING") = {},
             e.pc = "enqueueNext" => Due(e.run, e.next)
      PROVE  Quiet
  BY <1>1, UpdateEntry DEF Moved
<1>2. ASSUME NEW i \in DOMAIN queue, NEW pc \in EntryPcs \ {"enqueueNext"}, Goto(i, pc),
             pc = "finishRun" => StepsWith(queue[i].run, "PENDING") = {}
      PROVE  Quiet
  BY <1>1, <1>2, GotoFacts
<1>3. ASSUME NEW i \in DOMAIN queue, NEW final \in BOOLEAN, AttemptFailed(i, final) PROVE Quiet
  BY <1>1, <1>3, FailEntry
<1>4. ASSUME NEW r \in Runs, NEW n, NEW before, before \in Seq(EntryType), DOMAIN before = DOMAIN queue,
             \A j \in DOMAIN queue :
               \/ before[j] = queue[j]
               \/ /\ before[j].run = queue[j].run /\ before[j].step = queue[j].step
                  /\ before[j].pc = "ack",
             queue' = Append(before, Entry(r, n)), job[r].status # "NONE", Due(r, n)
      PROVE  \A j \in DOMAIN queue' : Moved(j) \/ Added(j)
  <2>1. Len(before) = Len(queue)
    BY <1>0, <1>4
  <2>2. \A j \in DOMAIN queue' : queue'[j] = Entry(r, n) \/ (j \in DOMAIN queue /\ queue'[j] = before[j])
    BY <1>0, <1>4, <2>1
  <2>3. Entry(r, n).run = r /\ Entry(r, n).step = n /\ Entry(r, n).pc = "wait"
    BY DEF Entry
  <2> QED BY <1>4, <2>2, <2>3 DEF Moved, Added
<1>5. CASE UNCHANGED queue
  BY <1>5 DEF Moved
<1>6. ASSUME NEW i \in DOMAIN queue, Process(i) \/ OnFailed(i), ~enqueueNext(i) PROVE Quiet
  <2>1. CASE take(i)
    BY <1>2, <1>3, <2>1, Literals DEF take
  <2>2. CASE handlerThrows(i)
    BY <1>3, <2>2 DEF handlerThrows
  <2>3. CASE findNone(i)
    BY <1>2, <2>3, Literals DEF findNone
  <2>4. CASE markRun(i) \/ markStep(i) \/ saveResult(i) \/ finishRun(i) \/ haltStep(i) \/ haltRun(i)
    BY <1>2, <2>4, Literals DEF markRun, markStep, saveResult, finishRun, haltStep, haltRun
  <2>5. CASE execute(i)
    <3> DEFINE x == Output(previousResult(i), queue[i].step)
               e == [queue[i] EXCEPT !.pc = "saveResult", !.result = x]
    <3>1. queue' = [queue EXCEPT ![i] = e]
      BY <2>5 DEF execute, updateEntry
    <3>2. e.run = queue[i].run /\ e.step = queue[i].step /\ e.pc = "saveResult"
      <4> HIDE DEF x
      <4> QED BY <1>0 DEF EntryType
    <3> HIDE DEF e
    <3> QED BY <1>0, <3>1, <3>2 DEF Moved
  <2>6. CASE ack(i)
    <3> DEFINE e == [queue[i] EXCEPT !.pc = "gone", !.result = <<>>, !.next = queue[i].step]
    <3>1. e \in EntryType /\ updateEntry(i, e) /\ e.run = queue[i].run /\ e.step = queue[i].step
          /\ e.pc = "gone"
      BY <1>0, <2>6, Literals DEF ack, EntryType
    <3> HIDE DEF e
    <3> QED BY <1>1, <3>1
  <2>7. ASSUME NEW n \in 1..MaxSteps, findNext(i, n) PROVE Quiet
    <3> DEFINE e == [queue[i] EXCEPT !.pc = "enqueueNext", !.next = n]
    <3>1. e \in EntryType /\ updateEntry(i, e) /\ e.run = queue[i].run /\ e.step = queue[i].step
          /\ e.pc = "enqueueNext" /\ e.next = n
      BY <1>0, <2>7, Literals DEF findNext, EntryType
    <3>2. Due(queue[i].run, n)
      BY <2>7 DEF findNext, First, Due
    <3> HIDE DEF e
    <3> QED BY <1>1, <3>1, <3>2
  <2> QED BY <1>6, <2>1, <2>2, <2>3, <2>4, <2>5, <2>6, <2>7 DEF Process, OnFailed
<1>8. CASE Failures
  <2>1. ASSUME NEW i \in DOMAIN queue, workerDies(i) PROVE Quiet
    BY <1>0, <2>1 DEF workerDies, updateEntry, EntryType, Moved
  <2>2. ASSUME NEW i \in DOMAIN queue, storeThrows(i) PROVE Quiet
    BY <1>3, <2>2 DEF storeThrows
  <2>3. ASSUME NEW i \in DOMAIN queue, haltIsLost(i) PROVE Quiet
    BY <1>2, <2>3, Literals DEF haltIsLost
  <2> QED BY <1>5, <1>8, <2>1, <2>2, <2>3 DEF Failures, requestIsLost
<1>9. CASE NewRequests
  BY <1>5, <1>9 DEF NewRequests, createJob, retryJobRead
<1>10. ASSUME NEW c \in Clients, requestEnqueue(c)
       PROVE  \A j \in DOMAIN queue' : Moved(j) \/ Added(j)
  <2>1. client[c].run \in Runs /\ job[client[c].run].status # "NONE" /\ client[c].step = 1
    BY <1>10, ClientFacts DEF requestEnqueue, Idle, StartedInv
  <2>3. Due(client[c].run, client[c].step)
    BY <2>1 DEF Due, StepsWith, StepsOf
  <2>2. queue' = Append(queue, Entry(client[c].run, client[c].step))
    BY <1>10 DEF requestEnqueue, enqueueStep
  <2> QED BY <1>0, <1>4, <2>1, <2>2, <2>3
<1>11. ASSUME NEW i \in DOMAIN queue, enqueueNext(i)
       PROVE  \A j \in DOMAIN queue' : Moved(j) \/ Added(j)
  <2> DEFINE e == [queue[i] EXCEPT !.pc = "ack"]
             before == [queue EXCEPT ![i] = e]
  <2>1. e \in EntryType /\ e.run = queue[i].run /\ e.step = queue[i].step /\ e.pc = "ack"
    BY <1>0 DEF EntryType, EntryPcs, ActivePcs
  <2>2. /\ queue[i].run \in Runs /\ job[queue[i].run].status # "NONE"
        /\ Due(queue[i].run, queue[i].next)
    BY <1>0, <1>11 DEF EntryType, StartedInv, enqueueNext
  <2>3. queue' = Append(before, Entry(queue[i].run, queue[i].next))
    BY <1>11 DEF enqueueNext
  <2> HIDE DEF e
  <2>4. /\ before \in Seq(EntryType) /\ DOMAIN before = DOMAIN queue
        /\ \A j \in DOMAIN queue :
             \/ before[j] = queue[j]
             \/ /\ before[j].run = queue[j].run /\ before[j].step = queue[j].step
                /\ before[j].pc = "ack"
    BY <1>0, <2>1
  <2> HIDE DEF before
  <2> QED BY <1>4, <2>2, <2>3, <2>4
<1>12. ASSUME NEW c \in Clients, retryJobReset(c) PROVE FALSE
  BY <1>12 DEF retryJobReset, StartedInv
<1> QED BY <1>6, <1>8, <1>9, <1>10, <1>11, <1>12 DEF Next, Work, FinishRequests

\* A request about to enqueue is one whose run exists; none is about to reset.
LEMMA RequestsKept ==
  ASSUME NoRetries, TypeOK, StartedInv, Next, NEW c \in Clients
  PROVE  /\ client'[c].pc # "reset"
         /\ client'[c].pc = "enqueue" => job'[client'[c].run].status # "NONE" /\ client'[c].step = 1
<1>0. client \in [Clients -> ClientType]
  BY DEF TypeOK
<1>1. ASSUME client'[c] = client[c]
      PROVE  /\ client'[c].pc # "reset"
             /\ client'[c].pc = "enqueue" => job'[client'[c].run].status # "NONE" /\ client'[c].step = 1
  <2>1. client[c].pc = "enqueue" => client[c].run \in Runs
    BY <1>0, ClientFacts DEF ClientType, Idle
  <2> QED BY <1>1, <2>1, NeverPendingAgain DEF StartedInv
<1>2. CASE client'[c] = Idle
  BY <1>2 DEF Idle
<1>3. ASSUME NEW d \in Clients, NEW r \in Runs, NEW n \in 1..MaxSteps, createJob(d, r, n), client'[c] # client[c]
      PROVE  /\ client'[c].pc # "reset"
             /\ client'[c].pc = "enqueue" => job'[client'[c].run].status # "NONE" /\ client'[c].step = 1
  <2>1. client'[c] = Request("enqueue", r, 1)
    BY <1>0, <1>3 DEF createJob
  <2>2. job'[r] = NewJob(n)
    BY <1>3 DEF createJob, TypeOK
  <2> QED BY <2>1, <2>2 DEF Request, NewJob
<1>4. ASSUME NEW d \in Clients, NEW r \in Runs, NEW n \in 1..MaxSteps, retryJobRead(d, r, n) PROVE FALSE
  BY <1>4 DEF retryJobRead, NoRetries, TypeOK
<1>5. ASSUME NEW d \in Clients, retryJobReset(d) PROVE FALSE
  BY <1>5 DEF retryJobReset, StartedInv
<1>6. ASSUME NEW d \in Clients, requestEnqueue(d) \/ requestIsLost(d)
      PROVE  client'[c] = client[c] \/ client'[c] = Idle
  BY <1>0, <1>6 DEF requestEnqueue, requestIsLost
<1>8. ASSUME NEW i \in DOMAIN queue, workerDies(i) \/ storeThrows(i) \/ haltIsLost(i)
      PROVE  client' = client
  BY <1>8 DEF workerDies, storeThrows, haltIsLost
<1>9. ASSUME NEW i \in DOMAIN queue, Process(i) \/ OnFailed(i)
      PROVE  client' = client
  <2>1. CASE \/ take(i) \/ execute(i) \/ handlerThrows(i) \/ findNone(i) \/ enqueueNext(i) \/ ack(i)
             \/ \E n \in 1..MaxSteps : findNext(i, n)
    <3>1. take(i) => client' = client
      BY DEF take
    <3>2. execute(i) => client' = client
      BY DEF execute
    <3>3. handlerThrows(i) \/ findNone(i) \/ enqueueNext(i) \/ ack(i) => client' = client
      BY DEF handlerThrows, findNone, enqueueNext, ack
    <3>4. ASSUME NEW n \in 1..MaxSteps, findNext(i, n) PROVE client' = client
      BY <3>4 DEF findNext
    <3> QED BY <2>1, <3>1, <3>2, <3>3, <3>4
  <2>2. CASE RowWrite(i)
    BY <2>2 DEF RowWrite, markRun, markStep, saveResult, finishRun, haltStep, haltRun
  <2> QED BY <1>9, <2>1, <2>2 DEF Process, OnFailed, RowWrite
<1> QED BY <1>1, <1>2, <1>3, <1>4, <1>5, <1>6, <1>8, <1>9
     DEF Next, NewRequests, FinishRequests, Work, Failures

\* A run that is COMPLETED after a step had no PENDING step before it.
LEMMA CompletedBefore ==
  ASSUME TypeOK, StartedInv, Next, NEW r \in Runs, job'[r].status = "COMPLETED"
  PROVE  job[r].status # "NONE" /\ StepsWith(r, "PENDING") = {}
<1>1. CASE job'[r] = job[r]
  BY <1>1 DEF StartedInv, NoStepIsSkipped
<1>2. ASSUME NEW c \in Clients, NEW q \in Runs, NEW n \in 1..MaxSteps, createJob(c, q, n)
      PROVE  job'[r] = job[r]
  BY <1>2 DEF createJob, NewJob, TypeOK
<1>3. ASSUME NEW c \in Clients, retryJobReset(c) PROVE FALSE
  BY <1>3 DEF retryJobReset, StartedInv
<1>4. ASSUME NEW i \in DOMAIN queue, RowWrite(i), job'[r] # job[r]
      PROVE  job[r].status # "NONE" /\ StepsWith(r, "PENDING") = {}
  <2>1. queue[i].run \in Runs /\ job[queue[i].run] \in JobType
    BY EntryFacts, RowFacts
  <2>2. CASE finishRun(i)
    <3>1. r = queue[i].run
      BY <1>4, <2>1, <2>2 DEF finishRun, updateJob, TypeOK
    <3> QED BY <2>2, <3>1 DEF finishRun, StartedInv
  <2>3. CASE markRun(i) \/ haltRun(i)
    <3>1. r = queue[i].run
      BY <1>4, <2>1, <2>3 DEF markRun, haltRun, updateJob, TypeOK
    <3>2. CASE markRun(i)
      <4>1. job'[r] = [job[r] EXCEPT !.status = "PROCESSING", !.currentStep = queue[i].step]
        BY <2>1, <3>1, <3>2 DEF markRun, updateJob, TypeOK
      <4>2. job'[r].status = "PROCESSING"
        BY <2>1, <3>1, <4>1 DEF JobType
      <4> QED BY <4>2
    <3>3. CASE haltRun(i)
      <4>1. job'[r] = [job[r] EXCEPT !.status = "FAILED"]
        BY <2>1, <3>1, <3>3 DEF haltRun, updateJob, TypeOK
      <4>2. job'[r].status = "FAILED"
        BY <2>1, <3>1, <4>1 DEF JobType
      <4> QED BY <4>2
    <3> QED BY <2>3, <3>2, <3>3
  <2>4. CASE markStep(i) \/ saveResult(i) \/ haltStep(i)
    BY <1>4, <2>4 DEF markStep, saveResult, haltStep
  <2> QED BY <1>4, <2>2, <2>3, <2>4 DEF RowWrite
<1> QED BY <1>1, <1>2, <1>3, <1>4, RowsOnlyWrittenBy DEF RowsKept

\* A step that has been started after a step of the pipeline has no PENDING one before it.
LEMMA StartedInOrder ==
  ASSUME TypeOK, StartedInv, Next, NEW r \in Runs,
         NEW n \in StepsOf(r)', step'[r][n].status # "PENDING", NEW m \in StepsWith(r, "PENDING")'
  PROVE  n < m
<1>1. ASSUME RowsKept(r) PROVE n < m
  BY <1>1, KeptRun DEF RowsKept, StartedInv, NoStepIsSkipped
<1>2. ASSUME NEW c \in Clients, NEW q \in Runs, NEW k \in 1..MaxSteps, createJob(c, q, k)
      PROVE  n < m
  <2>1. CASE q = r
    <3>1. StepsOf(r)' = 1..k
      BY <1>2, <2>1 DEF createJob, NewJob, StepsOf, TypeOK
    <3>2. step'[r][n].status = "PENDING"
      BY <1>2, <2>1, <3>1 DEF createJob, NewStep, TypeOK
    <3> QED BY <3>2
  <2>2. CASE q # r
    <3>1. RowsKept(r)
      BY <1>2, <2>2 DEF createJob, RowsKept, TypeOK
    <3> QED BY <1>1, <3>1
  <2> QED BY <2>1, <2>2
<1>3. ASSUME NEW c \in Clients, retryJobReset(c) PROVE FALSE
  BY <1>3 DEF retryJobReset, StartedInv
<1>4. ASSUME NEW i \in DOMAIN queue, RowWrite(i) PROVE n < m
  <2> SUFFICES ASSUME NEW q, q = queue[i].run, NEW k, k = queue[i].step PROVE n < m
    OBVIOUS
  <2>1. /\ q \in Runs /\ k \in 1..MaxSteps /\ job[q] \in JobType /\ job[r] \in JobType
        /\ StepsOf(r) \subseteq 1..MaxSteps /\ job[q].status # "NONE" /\ Due(q, k)
    <3>1. q \in Runs /\ k \in 1..MaxSteps
      BY EntryFacts
    <3>2. job[q] \in JobType /\ job[r] \in JobType /\ job[r].total \in 0..MaxSteps
      BY <3>1, RowFacts
    <3> QED BY <3>1, <3>2 DEF StepsOf, StartedInv
  <2>2. CASE q # r
    <3>1. RowsKept(r)
      BY <1>4, <2>1, <2>2 DEF RowWrite, markRun, markStep, saveResult, finishRun, haltStep, haltRun,
                           updateJob, updateStep, RowsKept, TypeOK
    <3> QED BY <1>1, <3>1
  <2>3. CASE q = r
    <3>1. job'[r].total = job[r].total /\ \A l \in 1..MaxSteps : l # k => step'[r][l] = step[r][l]
      <4>1. CASE markRun(i)
        BY <2>1, <2>3, <4>1 DEF markRun, updateJob, JobType, TypeOK
      <4>2. CASE finishRun(i)
        BY <2>1, <2>3, <4>2 DEF finishRun, updateJob, JobType, TypeOK
      <4>3. CASE haltRun(i)
        BY <2>1, <2>3, <4>3 DEF haltRun, updateJob, JobType, TypeOK
      <4>4. CASE markStep(i) \/ saveResult(i) \/ haltStep(i)
        BY <2>1, <2>3, <4>4 DEF markStep, saveResult, haltStep, updateStep, TypeOK
      <4> QED BY <1>4, <4>1, <4>2, <4>3, <4>4 DEF RowWrite
    <3>2. n \in StepsOf(r) /\ m \in StepsWith(r, "PENDING") /\ m \in StepsOf(r)
      BY <2>1, <2>3, <3>1, NeverPendingAgain DEF StepsOf, StepsWith
    <3>3. CASE n = k
      <4>1. k <= m
        BY <2>1, <2>3, <3>2 DEF Due
      <4>2. m # n
        BY DEF StepsWith
      <4> QED BY <2>1, <3>2, <3>3, <4>1, <4>2 DEF StepsOf
    <3>4. CASE n # k
      BY <2>1, <3>1, <3>2, <3>4 DEF StartedInv, NoStepIsSkipped
    <3> QED BY <3>3, <3>4
  <2> QED BY <2>2, <2>3
<1> QED BY <1>1, <1>2, <1>3, <1>4, RowsOnlyWrittenBy DEF RowsKept

\* However often workers die, statements throw and entries are delivered again: the
\* steps of a run are first started in their order, and a run is called COMPLETED
\* only when each of them has been.
THEOREM NothingIsSkipped == NoRetries => (Spec => []NoStepIsSkipped)
<1> SUFFICES ASSUME NoRetries PROVE Spec => []NoStepIsSkipped
  OBVIOUS
<1>1. Init => StartedInv
  BY DEF Init, StartedInv, Idle, NoJob, NoStepIsSkipped, StepsOf
<1>2. TypeOK /\ StartedInv /\ [Next]_vars => StartedInv'
  <2> SUFFICES ASSUME TypeOK, StartedInv, [Next]_vars PROVE StartedInv'
    OBVIOUS
  <2>1. CASE UNCHANGED vars
    BY <2>1 DEF vars, StartedInv, Due, NoStepIsSkipped, StepsWith, StepsOf
  <2>2. CASE Next
    <3>1. ASSUME NEW r \in Runs, job[r].status # "NONE"
          PROVE  /\ job'[r].status # "NONE"
                 /\ \A n : Due(r, n) => Due(r, n)'
                 /\ StepsWith(r, "PENDING") = {} => StepsWith(r, "PENDING")' = {}
      BY <2>2, <3>1, NeverPendingAgain DEF Due
    <3>2. \A j \in DOMAIN queue' :
            \A r, n : r = queue'[j].run /\ n = queue'[j].next =>
              /\ r \in Runs /\ job'[r].status # "NONE" /\ Due(r, queue[j].step)'
              /\ queue'[j].pc = "enqueueNext" => Due(r, n)'
              /\ queue'[j].pc = "finishRun" => StepsWith(r, "PENDING")' = {}
      <4> SUFFICES ASSUME NEW j \in DOMAIN queue', NEW r, r = queue'[j].run, NEW n, n = queue'[j].next,
                          NEW k, k = queue'[j].step
                   PROVE  /\ r \in Runs /\ job'[r].status # "NONE" /\ Due(r, k)'
                          /\ queue'[j].pc = "enqueueNext" => Due(r, n)'
                          /\ queue'[j].pc = "finishRun" => StepsWith(r, "PENDING")' = {}
        BY DEF Due
      <4>1. Moved(j) \/ Added(j)
        BY <2>2, QueueMoves
      <4>2. /\ r \in Runs /\ job[r].status # "NONE" /\ Due(r, k)
            /\ queue'[j].pc = "enqueueNext" => Due(r, n)
            /\ queue'[j].pc = "finishRun" => StepsWith(r, "PENDING") = {}
        <5>1. CASE Moved(j)
          BY <5>1, EntryFacts DEF Moved, StartedInv
        <5>2. CASE Added(j)
          BY <5>2 DEF Added
        <5> QED BY <4>1, <5>1, <5>2
      <4> QED BY <3>1, <4>2
    <3>6. \A j \in DOMAIN queue' :
            /\ queue'[j].pc = "enqueueNext" => Due(queue[j].run, queue[j].next)'
            /\ queue'[j].pc = "finishRun" => StepsWith(queue[j].run, "PENDING")' = {}
            /\ Due(queue[j].run, queue[j].step)'
      BY <3>2 DEF Due, StepsWith, StepsOf
    <3>3. \A c \in Clients :
            /\ client'[c].pc # "reset"
            /\ client'[c].pc = "enqueue" => job'[client'[c].run].status # "NONE" /\ client'[c].step = 1
      BY <2>2, RequestsKept
    <3>4. ASSUME NEW r \in Runs, job'[r].status = "COMPLETED"
          PROVE  StepsWith(r, "PENDING")' = {}
      BY <2>2, <3>4, CompletedBefore, NeverPendingAgain
    <3>5. NoStepIsSkipped'
      BY <2>2, <3>4, StartedInOrder DEF NoStepIsSkipped
    <3> QED BY <3>2, <3>3, <3>5, <3>6 DEF StartedInv
  <2> QED BY <2>1, <2>2
<1>3. StartedInv => NoStepIsSkipped
  BY DEF StartedInv
<1> QED BY <1>1, <1>2, <1>3, TypeCorrect, PTL DEF Spec

\* With retries it takes a disciplined behaviour: a retry resets the FAILED step while
\* an entry delivered twice may be at work behind it.
THEOREM DisciplinedRunsSkipNothing == Spec /\ Disciplined => []NoStepIsSkipped
<1>1. PipelineInv => NoStepIsSkipped
  <2> SUFFICES ASSUME PipelineInv, NEW r \in Runs PROVE
                 /\ \A n \in StepsOf(r), m \in StepsWith(r, "PENDING") :
                      step[r][n].status # "PENDING" => n < m
                 /\ job[r].status = "COMPLETED" => StepsWith(r, "PENDING") = {}
    BY DEF NoStepIsSkipped
  <2>1. StepsOf(r) \subseteq Nat
    BY DEF StepsOf
  <2>2. ASSUME NEW n \in StepsOf(r), NEW m \in StepsWith(r, "PENDING"), step[r][n].status # "PENDING"
        PROVE  n < m
    <3>1. m \in StepsOf(r) /\ step[r][m].status = "PENDING" /\ m # n
      BY <2>2 DEF StepsWith
    <3>2. ~(m < n)
      <4>1. ASSUME m < n PROVE step[r][m].status = "COMPLETED"
        <5>1. m \in 1..(n - 1)
          BY <2>1, <3>1, <4>1 DEF StepsOf
        <5> QED BY <2>2, <5>1 DEF PipelineInv, StepsRunInOrder
      <4> QED BY <3>1, <4>1
    <3> QED BY <2>1, <3>1, <3>2
  <2>3. job[r].status = "COMPLETED" => StepsWith(r, "PENDING") = {}
    BY DEF PipelineInv, CompletedRunIsWhole, StepsWith
  <2> QED BY <2>2, <2>3
<1> QED BY <1>1, InvariantHolds, PTL

=============================================================================
