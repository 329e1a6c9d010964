----------------------------- MODULE JobPipeline -----------------------------
(***************************************************************************)
(* The background pipeline of src/modules/jobs: the rows of Jobs and       *)
(* JobSteps, the BullMQ queue that carries one entry per step execution,   *)
(* the HTTP requests that create and retry runs (JobsService) and the      *)
(* worker that executes entries (JobsProcessor).                           *)
(*                                                                         *)
(* An action is the code between two awaits: every await is one statement  *)
(* of PostgreSQL or Redis, and any other actor may run between two of      *)
(* them.  The queue is the log of the entries ever added; an entry carries *)
(* the program counter of the activation of process() that executes it.    *)
(***************************************************************************)
EXTENDS Naturals, Sequences, FiniteSets, Functions

CONSTANTS
  Runs,         \* ids of the runs (rows of Jobs) that may be created
  Clients,      \* HTTP requests in flight at once (create, retry)
  Slots,        \* workers: instances of the API, one entry each at a time
  MaxSteps,     \* bound on the number of steps of a run
  MaxAttempts,  \* STEP_MAX_ATTEMPTS
  MaxStalls,    \* BullMQ's maxStalledCount
  MaxRetries,   \* bound on the retries that are accepted
  Faults,       \* the kinds of fault of this instance, a subset of FaultKinds
  MaxFaults     \* bound on the number of faults

FaultKinds == {"worker", "halt", "store", "request"}

ASSUME PipelineAssumption ==
  /\ {Slots, MaxSteps, MaxAttempts} \subseteq Nat \ {0}
  /\ {MaxStalls, MaxRetries, MaxFaults} \subseteq Nat
  /\ Faults \subseteq FaultKinds

VARIABLES
  job,      \* run -> its row of Jobs; status "NONE" while it does not exist
  step,     \* run -> step number -> its row of JobSteps
  queue,    \* log of the entries of the BullMQ queue job-processing
  client,   \* the HTTP requests: what each one has still to do
  retries,  \* retries accepted so far
  faults    \* faults so far, by kind

vars == <<job, step, queue, client, retries, faults>>

(***************************************************************************)
(* The handler of step n: its output depends on the previous step's output *)
(* it is handed.  <<>> stands for null, <<1, ..., n>> for the output of a  *)
(* step n whose whole context reached it.                                  *)
(***************************************************************************)
Output(previous, n) == Append(previous, n)
FullOutput(n) == [k \in 1..n |-> k]

NoJob     == [status |-> "NONE", total |-> 0, currentStep |-> 0, result |-> <<>>]
\* seeded fault: counts the steps from one too many
NewJobOneTooMany(n) ==
  [status |-> "PENDING", total |-> n + 1, currentStep |-> 0, result |-> <<>>]
NewJob(n) == [status |-> "PENDING", total |-> n, currentStep |-> 0, result |-> <<>>]
NoStep    == [status |-> "NONE", attempts |-> 0, result |-> <<>>]
NewStep   == [status |-> "PENDING", attempts |-> 0, result |-> <<>>]

\* queue.add: a fresh BullMQ job waiting for a worker.  made counts its failed
\* attempts; result and next are the locals of process(), next being the step
\* it is to enqueue (its own until it has looked).
Entry(r, n) == [run |-> r, step |-> n, pc |-> "wait", made |-> 0, stalls |-> 0,
                result |-> <<>>, next |-> n]
enqueueStep(r, n) == queue' = Append(queue, Entry(r, n))

\* prisma.jobs.update, prisma.jobSteps.update, and what BullMQ does to an entry
updateJob(r, row)     == job' = [job EXCEPT ![r] = row]
updateStep(r, n, row) == step' = [step EXCEPT ![r][n] = row]
updateEntry(i, entry) == queue' = [queue EXCEPT ![i] = entry]

ActivePcs == {"markRun", "markStep", "execute", "saveResult", "findNext",
              "enqueueNext", "finishRun", "ack"}
HaltPcs   == {"haltStep", "haltRun"}

Idle == [pc |-> "idle"]
Request(pc, r, n) == [pc |-> pc, run |-> r, step |-> n]

StepsOf(r)            == 1..job[r].total
StepsWith(r, status)  == {n \in StepsOf(r) : step[r][n].status = status}
\* seeded fault: orderBy desc
LastOf(n, r, status)  == /\ n \in StepsWith(r, status)
                         /\ \A m \in StepsWith(r, status) : n >= m
\* findFirst / find on the steps in the order of their numbers
First(n, r, status)   == /\ n \in StepsWith(r, status)
                         /\ \A m \in StepsWith(r, status) : n <= m

Init ==
  /\ job = [r \in Runs |-> NoJob]
  /\ step = [r \in Runs |-> [n \in 1..MaxSteps |-> NoStep]]
  /\ queue = <<>>
  /\ client = [c \in Clients |-> Idle]
  /\ retries = 0
  /\ faults = [kind \in FaultKinds |-> 0]

-----------------------------------------------------------------------------
(* JobsService: the requests *)

\* createJob up to prisma.jobs.create: the run and all its steps, PENDING.
\* The step types were checked against the registry: n is their number.
createJob(c, r, n) ==
  /\ client[c] = Idle
  /\ job[r].status = "NONE"
  /\ job' = [job EXCEPT ![r] = NewJob(n)]
  /\ step' = [step EXCEPT ![r] = [k \in 1..MaxSteps |-> IF k <= n THEN NewStep ELSE NoStep]]
  /\ client' = [client EXCEPT ![c] = Request("enqueue", r, 1)]
  /\ UNCHANGED <<queue, retries, faults>>

\* seeded fault: looks for a FAILED step without asking for a FAILED run
RetryAnyRun(c, r, n) ==
  /\ client[c] = Idle
  /\ retries < MaxRetries
  /\ First(n, r, "FAILED")
  /\ client' = [client EXCEPT ![c] = Request("reset", r, n)]
  /\ retries' = retries + 1
  /\ UNCHANGED <<job, step, queue, faults>>

\* retryJob up to its transaction: the run must be FAILED and have a FAILED step
retryJobRead(c, r, n) ==
  /\ client[c] = Idle
  /\ retries < MaxRetries
  /\ job[r].status = "FAILED"
  /\ First(n, r, "FAILED")
  /\ client' = [client EXCEPT ![c] = Request("reset", r, n)]
  /\ retries' = retries + 1
  /\ UNCHANGED <<job, step, queue, faults>>

\* seeded fault: resets the step and leaves the run FAILED
ResetStepOnly(c) ==
  /\ client[c].pc = "reset"
  /\ updateStep(client[c].run, client[c].step, NewStep)
  /\ client' = [client EXCEPT ![c] = Request("enqueue", @.run, @.step)]
  /\ UNCHANGED <<job, queue, retries, faults>>

\* the transaction of retryJob: it reads nothing again
retryJobReset(c) ==
  /\ client[c].pc = "reset"
  /\ LET r == client[c].run
         n == client[c].step
     IN /\ updateStep(r, n, NewStep)
        /\ updateJob(r, [job[r] EXCEPT !.status = "PROCESSING", !.currentStep = n])
        /\ client' = [client EXCEPT ![c] = Request("enqueue", r, n)]
  /\ UNCHANGED <<queue, retries, faults>>

\* the last await of createJob and of retryJob
requestEnqueue(c) ==
  /\ client[c].pc = "enqueue"
  /\ enqueueStep(client[c].run, client[c].step)
  /\ client' = [client EXCEPT ![c] = Idle]
  /\ UNCHANGED <<job, step, retries, faults>>

-----------------------------------------------------------------------------
(* JobsProcessor.process, one activation per entry taken *)

Goto(i, pc) == updateEntry(i, [queue[i] EXCEPT !.pc = pc])

\* seeded faults: halts an attempt too early; never halts
HaltsEarly(made, final) ==
  IF made + 1 >= MaxAttempts THEN "haltStep" ELSE IF final THEN "gone" ELSE "wait"
NeverHalts(made, final) == IF made >= MaxAttempts \/ final THEN "gone" ELSE "wait"

\* moveToFailed: BullMQ counts the attempt, then queues the entry again or
\* gives it up; onFailed writes only once the attempts are used up.
AfterFailure(made, final) ==
  IF made >= MaxAttempts THEN "haltStep" ELSE IF final THEN "gone" ELSE "wait"

AttemptFailed(i, final) ==
  LET made == queue[i].made + 1
  IN updateEntry(i, [queue[i] EXCEPT !.pc = AfterFailure(made, final), !.made = made,
                                     !.result = <<>>, !.next = queue[i].step])

\* a free worker takes a waiting entry and reads its step and run, of which it
\* uses only what never changes; an entry that stalled too often fails at once
take(i) ==
  /\ queue[i].pc = "wait"
  /\ Cardinality({j \in DOMAIN queue : queue[j].pc \in ActivePcs}) < Slots
  /\ IF queue[i].stalls > MaxStalls THEN AttemptFailed(i, TRUE) ELSE Goto(i, "markRun")
  /\ UNCHANGED <<job, step, client, retries, faults>>

markRun(i) ==
  /\ queue[i].pc = "markRun"
  /\ LET r == queue[i].run
     IN updateJob(r, [job[r] EXCEPT !.status = "PROCESSING", !.currentStep = queue[i].step])
  /\ Goto(i, "markStep")
  /\ UNCHANGED <<step, client, retries, faults>>

markStep(i) ==
  /\ queue[i].pc = "markStep"
  /\ LET r == queue[i].run
         n == queue[i].step
     IN updateStep(r, n, [step[r][n] EXCEPT !.status = "PROCESSING",
                                            !.attempts = queue[i].made + 1])
  /\ Goto(i, "execute")
  /\ UNCHANGED <<job, client, retries, faults>>

\* seeded fault: reads the step's own row instead of the previous one
OwnResult(i) == IF queue[i].step > 1 THEN step[queue[i].run][queue[i].step].result ELSE <<>>

\* read the previous step's result, run the handler on it: it returns...
previousResult(i) ==
  IF queue[i].step > 1 THEN step[queue[i].run][queue[i].step - 1].result ELSE <<>>

execute(i) ==
  /\ queue[i].pc = "execute"
  /\ updateEntry(i, [queue[i] EXCEPT !.pc = "saveResult",
                                     !.result = Output(previousResult(i), queue[i].step)])
  /\ UNCHANGED <<job, step, client, retries, faults>>

\* ... or throws
handlerThrows(i) ==
  /\ queue[i].pc = "execute"
  /\ AttemptFailed(i, FALSE)
  /\ UNCHANGED <<job, step, client, retries, faults>>

saveResult(i) ==
  /\ queue[i].pc = "saveResult"
  /\ LET r == queue[i].run
         n == queue[i].step
     IN updateStep(r, n, [step[r][n] EXCEPT !.status = "COMPLETED", !.result = queue[i].result])
  /\ Goto(i, "findNext")
  /\ UNCHANGED <<job, client, retries, faults>>

\* the first PENDING step of the run, whichever it is, is to be enqueued...
findNext(i, n) ==
  /\ queue[i].pc = "findNext"
  /\ First(n, queue[i].run, "PENDING")
  /\ updateEntry(i, [queue[i] EXCEPT !.pc = "enqueueNext", !.next = n])
  /\ UNCHANGED <<job, step, client, retries, faults>>

\* seeded fault: completes the run as soon as no step of it is FAILED
CompletesEarly(i) ==
  /\ queue[i].pc = "findNext"
  /\ StepsWith(queue[i].run, "FAILED") = {}
  /\ Goto(i, "finishRun")
  /\ UNCHANGED <<job, step, client, retries, faults>>

\* ... and without one the run is to be completed
findNone(i) ==
  /\ queue[i].pc = "findNext"
  /\ StepsWith(queue[i].run, "PENDING") = {}
  /\ Goto(i, "finishRun")
  /\ UNCHANGED <<job, step, client, retries, faults>>

\* seeded fault: forgets to enqueue
EnqueuesNothing(i) ==
  /\ queue[i].pc = "enqueueNext"
  /\ Goto(i, "ack")
  /\ UNCHANGED <<job, step, client, retries, faults>>

enqueueNext(i) ==
  /\ queue[i].pc = "enqueueNext"
  /\ queue' = Append([queue EXCEPT ![i] = [queue[i] EXCEPT !.pc = "ack"]],
                     Entry(queue[i].run, queue[i].next))
  /\ UNCHANGED <<job, step, client, retries, faults>>

finishRun(i) ==
  /\ queue[i].pc = "finishRun"
  /\ LET r == queue[i].run
     IN updateJob(r, [job[r] EXCEPT !.status = "COMPLETED", !.result = queue[i].result,
                                    !.currentStep = job[r].total])
  /\ Goto(i, "ack")
  /\ UNCHANGED <<step, client, retries, faults>>

\* process() has returned: BullMQ removes the entry from the active list
ack(i) ==
  /\ queue[i].pc = "ack"
  /\ updateEntry(i, [queue[i] EXCEPT !.pc = "gone", !.result = <<>>, !.next = queue[i].step])
  /\ UNCHANGED <<job, step, client, retries, faults>>

(* JobsProcessor.onFailed: runs beside the worker, which may take other entries *)

haltStep(i) ==
  /\ queue[i].pc = "haltStep"
  /\ LET r == queue[i].run
         n == queue[i].step
     IN updateStep(r, n, [step[r][n] EXCEPT !.status = "FAILED", !.attempts = queue[i].made])
  /\ Goto(i, "haltRun")
  /\ UNCHANGED <<job, client, retries, faults>>

haltRun(i) ==
  /\ queue[i].pc = "haltRun"
  /\ updateJob(queue[i].run, [job[queue[i].run] EXCEPT !.status = "FAILED"])
  /\ Goto(i, "gone")
  /\ UNCHANGED <<step, client, retries, faults>>

-----------------------------------------------------------------------------
(* Faults *)

Fault(kind) ==
  /\ kind \in Faults
  /\ SumFunction(faults) < MaxFaults
  /\ faults' = [faults EXCEPT ![kind] = @ + 1]
  /\ UNCHANGED <<job, step, retries>>

\* a worker dies inside process(): the entry stalls and
\* returns to the waiting list, its attempts uncounted
workerDies(i) ==
  /\ queue[i].pc \in ActivePcs
  /\ Fault("worker")
  /\ updateEntry(i, [queue[i] EXCEPT !.pc = "wait", !.stalls = @ + 1,
                                     !.result = <<>>, !.next = queue[i].step])
  /\ UNCHANGED client

\* an awaited statement of process() throws before it takes effect: the attempt fails.
\* One that throws afterwards fails the attempt at the next statement; only after the
\* last one, whose entry has returned for all it has done, this is left out
storeThrows(i) ==
  /\ queue[i].pc \in ActivePcs \ {"ack"}
  /\ Fault("store")
  /\ AttemptFailed(i, FALSE)
  /\ UNCHANGED client

\* the process dies, or a statement throws, inside onFailed: nobody calls it again
haltIsLost(i) ==
  /\ queue[i].pc \in HaltPcs
  /\ Fault("halt")
  /\ Goto(i, "gone")
  /\ UNCHANGED client

\* a request dies, or its next await throws
requestIsLost(c) ==
  /\ client[c] # Idle
  /\ Fault("request")
  /\ client' = [client EXCEPT ![c] = Idle]
  /\ UNCHANGED queue

-----------------------------------------------------------------------------
Process(i) ==
  \/ take(i) \/ markRun(i) \/ markStep(i) \/ execute(i) \/ handlerThrows(i)
  \/ saveResult(i) \/ (\E n \in 1..MaxSteps : findNext(i, n)) \/ findNone(i)
  \/ enqueueNext(i) \/ finishRun(i) \/ ack(i)
OnFailed(i) == haltStep(i) \/ haltRun(i)
Work == \E i \in DOMAIN queue : Process(i) \/ OnFailed(i)

NewRequests ==
  \E c \in Clients, r \in Runs, n \in 1..MaxSteps : createJob(c, r, n) \/ retryJobRead(c, r, n)
FinishRequests == \E c \in Clients : retryJobReset(c) \/ requestEnqueue(c)

Failures ==
  \/ \E i \in DOMAIN queue : workerDies(i) \/ storeThrows(i) \/ haltIsLost(i)
  \/ \E c \in Clients : requestIsLost(c)

Next == NewRequests \/ FinishRequests \/ Work \/ Failures

(***************************************************************************)
(* BullMQ hands a waiting entry to a free worker, handlers return or       *)
(* throw, statements are answered, and a request that has started goes on. *)
(* Nothing obliges a client to create or to retry a run.                   *)
(***************************************************************************)
Fairness == WF_vars(Work) /\ WF_vars(FinishRequests)

Spec == Init /\ [][Next]_vars
FairSpec == Spec /\ Fairness

-----------------------------------------------------------------------------
(* Properties *)

JobStatus   == {"NONE", "PENDING", "PROCESSING", "COMPLETED", "FAILED"}
EntryPcs    == {"wait", "gone"} \cup ActivePcs \cup HaltPcs

JobType  == [status : JobStatus, total : 0..MaxSteps, currentStep : 0..MaxSteps,
             result : Seq(Nat)]
StepType == [status : JobStatus, attempts : Nat, result : Seq(Nat)]
EntryType ==
  [run : Runs, step : 1..MaxSteps, pc : EntryPcs, made : Nat, stalls : Nat,
   result : Seq(Nat), next : 1..MaxSteps]

ClientType == {Idle} \cup [pc : {"reset", "enqueue"}, run : Runs, step : 1..MaxSteps]

\* The types of the rows, the queue entries and the requests.
TypeOK ==
  /\ job \in [Runs -> JobType]
  /\ step \in [Runs -> [1..MaxSteps -> StepType]]
  /\ queue \in Seq(EntryType)
  /\ client \in [Clients -> ClientType]
  /\ retries \in Nat /\ faults \in [FaultKinds -> Nat]

\* What still drives run r: an entry whose activation has something left to
\* write, or a request that is about to enqueue.
LivePcs      == EntryPcs \ {"ack", "gone"}
LiveEntries(r)  == {i \in DOMAIN queue : queue[i].run = r /\ queue[i].pc \in LivePcs}
LiveRequests(r) == {c \in Clients : client[c].pc = "enqueue" /\ client[c].run = r}

\* A run is driven by one thing at a time: never two entries, nor an entry and
\* a request about to add another (schema.prisma: "execute sequentially").
OneDriver ==
  \A r \in Runs :
    /\ \A i, j \in LiveEntries(r) : i = j
    /\ \A c, d \in LiveRequests(r) : c = d
    /\ LiveEntries(r) = {} \/ LiveRequests(r) = {}

\* A step is started only once every earlier step of its run has completed, and
\* they stay completed: "each step, on success, enqueues the next; a failed
\* step halts the run".
StepsRunInOrder ==
  \A r \in Runs : \A n \in StepsOf(r) :
    step[r][n].status # "PENDING" => \A m \in 1..(n - 1) : step[r][m].status = "COMPLETED"

\* Every stored output was computed from the whole chain of earlier outputs: no
\* handler ran on a null or on a stale previousResult.
OutputsChain ==
  \A r \in Runs : \A n \in StepsOf(r) :
    step[r][n].status = "COMPLETED" => step[r][n].result = FullOutput(n)

\* A COMPLETED run has run every step and its result is the last step's output.
CompletedRunIsWhole ==
  \A r \in Runs : job[r].status = "COMPLETED" =>
    /\ StepsWith(r, "COMPLETED") = StepsOf(r)
    /\ job[r].result = FullOutput(job[r].total)

\* A FAILED run halted at one step that used up its attempts, after COMPLETED
\* steps and before PENDING ones: retryJob finds the step and can resume there.
FailedRunIsRetriable ==
  \A r \in Runs : job[r].status = "FAILED" =>
    \E n \in StepsOf(r) :
      /\ step[r][n].status = "FAILED" /\ step[r][n].attempts = MaxAttempts
      /\ \A m \in 1..(n - 1) : step[r][m].status = "COMPLETED"
      /\ \A m \in (n + 1)..job[r].total : step[r][m].status = "PENDING"

\* Once COMPLETED, neither the run nor its steps are written again.
CompletionIsFinal ==
  [][\A r \in Runs : job[r].status = "COMPLETED"
        => job'[r] = job[r] /\ step'[r] = step[r]]_vars

\* Every run that exists settles, and settles again after each retry.
Settled(r) == job[r].status \in {"COMPLETED", "FAILED"}
RunsSettle == \A r \in Runs : (job[r].status # "NONE") ~> Settled(r)

(***************************************************************************)
(* The inductive invariant behind the safety properties.  Whatever drives  *)
(* run r stands at its frontier: every earlier step COMPLETED, every later *)
(* one PENDING, the run neither COMPLETED nor FAILED.                      *)
(***************************************************************************)
Frontier(r, n) ==
  /\ job[r].status \in {"PENDING", "PROCESSING"}
  /\ n \in StepsOf(r)
  /\ \A m \in 1..(n - 1) : step[r][m].status = "COMPLETED"
  /\ \A m \in (n + 1)..job[r].total : step[r][m].status = "PENDING"

\* an entry at its program counter
Drives(e) ==
  /\ Frontier(e.run, e.step)
  /\ e.pc \in {"saveResult", "findNext", "enqueueNext", "finishRun"} =>
       e.result = FullOutput(e.step)
  /\ e.pc \in {"findNext", "enqueueNext", "finishRun"} =>
       step[e.run][e.step].status = "COMPLETED"
  /\ e.pc = "enqueueNext" => e.step < job[e.run].total /\ e.next = e.step + 1
  /\ e.pc = "finishRun" => e.step = job[e.run].total
  /\ IF e.pc \in HaltPcs THEN e.made = MaxAttempts ELSE e.made < MaxAttempts
  /\ e.pc = "haltRun" => /\ step[e.run][e.step].status = "FAILED"
                         /\ step[e.run][e.step].attempts = MaxAttempts

\* a request between its awaits
Pending(q) ==
  /\ q.pc = "enqueue" => Frontier(q.run, q.step)
  /\ q.pc = "reset" => /\ job[q.run].status = "FAILED"
                       /\ q.step \in StepsOf(q.run)
                       /\ step[q.run][q.step].status = "FAILED"

\* Everything that drives a run stands where its rows say the run is.
DriversAtFrontier ==
  /\ \A i \in DOMAIN queue : queue[i].pc \in LivePcs => Drives(queue[i])
  /\ \A c \in Clients : Pending(client[c])

PipelineInv ==
  /\ TypeOK /\ OneDriver /\ StepsRunInOrder /\ OutputsChain /\ CompletedRunIsWhole
  /\ FailedRunIsRetriable /\ DriversAtFrontier

(* Properties of the pipeline under faults *)

\* Whatever is executed twice or too early, no step is passed over: a step is
\* started only when all earlier ones have been, and a run is called COMPLETED
\* only once each of its steps has been.
NoStepIsSkipped ==
  \A r \in Runs :
    /\ \A n \in StepsOf(r), m \in StepsWith(r, "PENDING") : step[r][n].status # "PENDING" => n < m
    /\ job[r].status = "COMPLETED" => StepsWith(r, "PENDING") = {}

\* Deaths of workers and failing statements inside process() never strand a
\* run: it settles unless onFailed or a request was cut short, or BullMQ gave up
\* an entry that stalled more than MaxStalls times before its attempts ran out.
GivenUp(r) == \E i \in DOMAIN queue : /\ queue[i].run = r
                                      /\ queue[i].stalls > MaxStalls
                                      /\ queue[i].made < MaxAttempts
WorkerFaultsNeverStrand ==
  \A r \in Runs : (job[r].status # "NONE")
    ~> (Settled(r) \/ GivenUp(r) \/ faults["halt"] + faults["request"] > 0)

-----------------------------------------------------------------------------
(* Refinement: the rows of Jobs and JobSteps implement JobRun *)

Phase(r) == CASE job[r].status = "NONE"                       -> "absent"
              [] job[r].status \in {"PENDING", "PROCESSING"} -> "open"
              [] job[r].status = "COMPLETED"                  -> "completed"
              [] job[r].status = "FAILED"                     -> "failed"

Run == INSTANCE JobRun WITH
  phase <- [r \in Runs |-> Phase(r)],
  total <- [r \in Runs |-> job[r].total],
  done  <- [r \in Runs |-> StepsWith(r, "COMPLETED")]

\* Without faults, and with retries of a run one at a time, the pipeline
\* implements JobRun: its order of steps, its outcomes and its progress.
ImplementsJobRun == Run!Spec
=============================================================================
