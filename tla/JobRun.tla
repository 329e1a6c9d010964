-------------------------------- MODULE JobRun --------------------------------
(***************************************************************************)
(* What the pipeline promises of each run (prisma/schema.prisma, model     *)
(* Jobs): its steps complete in order, one after the other; the run        *)
(* completes after the last one, or halts at the step that failed, and a   *)
(* halted run may be resumed at that step.                                 *)
(***************************************************************************)
EXTENDS Naturals

CONSTANTS Runs, MaxSteps

VARIABLES
  phase,  \* run -> "absent", "open", "completed" or "failed"
  total,  \* run -> number of its steps
  done    \* run -> the steps that have completed

runVars == <<phase, total, done>>

Init ==
  /\ phase = [r \in Runs |-> "absent"]
  /\ total = [r \in Runs |-> 0]
  /\ done = [r \in Runs |-> {}]

Start(r, n) ==
  /\ phase[r] = "absent"
  /\ phase' = [phase EXCEPT ![r] = "open"]
  /\ total' = [total EXCEPT ![r] = n]
  /\ UNCHANGED done

\* step n completes, every earlier step and no later one having completed
Advance(r, n) ==
  /\ phase[r] = "open"
  /\ n <= total[r]
  /\ done[r] = 1..(n - 1)
  /\ done' = [done EXCEPT ![r] = 1..n]
  /\ UNCHANGED <<phase, total>>

Complete(r) ==
  /\ phase[r] = "open"
  /\ done[r] = 1..total[r]
  /\ phase' = [phase EXCEPT ![r] = "completed"]
  /\ UNCHANGED <<total, done>>

Halt(r) ==
  /\ phase[r] = "open"
  /\ done[r] # 1..total[r]
  /\ phase' = [phase EXCEPT ![r] = "failed"]
  /\ UNCHANGED <<total, done>>

Resume(r) ==
  /\ phase[r] = "failed"
  /\ phase' = [phase EXCEPT ![r] = "open"]
  /\ UNCHANGED <<total, done>>

Drive(r) == (\E n \in 1..MaxSteps : Advance(r, n)) \/ Complete(r) \/ Halt(r)

Next ==
  \E r \in Runs : Drive(r) \/ Resume(r) \/ (\E n \in 1..MaxSteps : Start(r, n))

Safety == Init /\ [][Next]_runVars
Spec == Safety /\ \A r \in Runs : WF_runVars(Drive(r))
=============================================================================
