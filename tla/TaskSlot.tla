------------------------------ MODULE TaskSlot ------------------------------
(* The one place for long-running tasks, services/task_service.go, and the three tasks that
   use it: key validation, import and deletion. Every operation on the place reads the
   status from the store and writes it back in a second call; nothing locks it. A status
   lives for an hour after its last write (ResultTTL). *)
EXTENDS Naturals

CONSTANTS Task,            \* requests of administrators to start a task
          MaxChunks,       \* chunks of keys of a task
          MaxTaskFaults, MaxTaskCrashes   \* bounds: store calls that fail, processes that die

ASSUME TaskSlotAssumption == MaxChunks \in Nat

VARIABLES inMemory,  \* the store is MemoryStore: it dies with the process, and an expired item
                     \* is deleted by its reader
          slot,      \* the status in the store
          taskPc,    \* per task: where it is
          chunks,    \* per task: chunks left
          polls,     \* readers of the status that found it expired and are about to delete it
          taskFaults, taskCrashes

taskVars == <<inMemory, slot, taskPc, chunks, polls, taskFaults, taskCrashes>>

TaskTypeOK ==
    /\ inMemory \in BOOLEAN
    /\ slot \in {"none", "running", "ended", "expired"}
    /\ taskPc \in [Task -> {"asks", "clears", "starts", "works", "reports", "progress",
                            "ends", "result", "over", "dead"}]
    /\ chunks \in [Task -> 0 .. MaxChunks]
    /\ polls \in 0 .. 1

TaskInit ==
    /\ inMemory \in BOOLEAN
    /\ slot = "none"
    /\ taskPc = [t \in Task |-> "asks"]
    /\ chunks = [t \in Task |-> MaxChunks]
    /\ polls = 0
    /\ taskFaults = 0 /\ taskCrashes = 0

TaskGoes(t, to) == taskPc' = [taskPc EXCEPT ![t] = to]

TaskFault == taskFaults < MaxTaskFaults /\ taskFaults' = taskFaults + 1 /\ UNCHANGED taskCrashes
NoTaskFault == UNCHANGED <<taskFaults, taskCrashes>>

Alive(t) == taskPc[t] \notin {"asks", "over", "dead"}

\* A read of the place goes on at `to`, or at `free` when nothing runs there.
StatusRead(t, to, free) == TaskGoes(t, IF slot = "running" THEN to ELSE free)

--------------------------------------------------------------------------
(* StartTask *)

\* A refused request may be made again. An expired item is deleted first (MemoryStore.Get).
StartReads(t) ==
    /\ taskPc[t] = "asks"
    /\ slot # "running"
    /\ TaskGoes(t, IF slot = "expired" THEN "clears" ELSE "starts")
    /\ UNCHANGED <<inMemory, slot, chunks, polls, taskFaults, taskCrashes>>

StartClears(t) ==
    /\ taskPc[t] = "clears"
    /\ slot' = "none"
    /\ TaskGoes(t, "starts")
    /\ UNCHANGED <<inMemory, chunks, polls, taskFaults, taskCrashes>>

StartWrites(t) ==
    /\ taskPc[t] = "starts"
    /\ \/ slot' = "running" /\ TaskGoes(t, "works") /\ NoTaskFault
       \/ TaskGoes(t, "over") /\ TaskFault /\ UNCHANGED slot
    /\ UNCHANGED <<inMemory, chunks, polls>>

--------------------------------------------------------------------------
(* runImport, runDelete, runValidation: a chunk succeeds, and its progress is reported or
   not (once a second), or it fails and the task ends with the error *)

\* Mutant: a task that fails returns at once.
AfterFailure_Returns == "over"
AfterFailure == "ends"

ChunkDone(t) ==
    /\ taskPc[t] = "works"
    /\ IF chunks[t] = 0
       THEN TaskGoes(t, "ends") /\ UNCHANGED chunks
       ELSE \/ /\ chunks' = [chunks EXCEPT ![t] = @ - 1]
               /\ TaskGoes(t, "reports") \/ TaskGoes(t, "works")
            \/ TaskGoes(t, AfterFailure) /\ UNCHANGED chunks
    /\ UNCHANGED <<inMemory, slot, polls, taskFaults, taskCrashes>>

\* UpdateProgress reads the status and writes it back as it was, but for the number.
ProgressReads(t) ==
    /\ taskPc[t] = "reports"
    /\ \/ StatusRead(t, "progress", "works") /\ NoTaskFault
       \/ TaskGoes(t, "works") /\ TaskFault
    /\ UNCHANGED <<inMemory, slot, chunks, polls>>

ProgressWrites(t) ==
    /\ taskPc[t] = "progress"
    /\ \/ slot' = "running" /\ NoTaskFault
       \/ UNCHANGED slot /\ TaskFault
    /\ TaskGoes(t, "works")
    /\ UNCHANGED <<inMemory, chunks, polls>>

EndReads(t) ==
    /\ taskPc[t] = "ends"
    /\ \/ StatusRead(t, "result", "over") /\ NoTaskFault
       \/ TaskGoes(t, "over") /\ TaskFault
    /\ UNCHANGED <<inMemory, slot, chunks, polls>>

EndWrites(t) ==
    /\ taskPc[t] = "result"
    /\ \/ slot' = "ended" /\ NoTaskFault
       \/ UNCHANGED slot /\ TaskFault
    /\ TaskGoes(t, "over")
    /\ UNCHANGED <<inMemory, chunks, polls>>

--------------------------------------------------------------------------

\* A process dies with its tasks; MemoryStore dies with it.
TaskProcessDies ==
    /\ taskCrashes < MaxTaskCrashes
    /\ taskCrashes' = taskCrashes + 1
    /\ LET alive == {t \in Task : Alive(t)} IN
         \E dying \in (IF inMemory THEN {alive} ELSE SUBSET alive) \ {{}} :
             taskPc' = [t \in Task |-> IF t \in dying THEN "dead" ELSE taskPc[t]]
    /\ slot' = IF inMemory THEN "none" ELSE slot
    /\ polls' = 0
    /\ UNCHANGED <<inMemory, chunks, taskFaults>>

\* Mutant: only results are stored with a time to live.
Perishable_Results == {"ended"}
Perishable == {"running", "ended"}

\* An hour passes without a write: no task is left that would write (a chunk takes less).
SlotExpires ==
    /\ slot \in Perishable
    /\ \A t \in Task : ~Alive(t)
    /\ slot' = IF inMemory THEN "expired" ELSE "none"
    /\ UNCHANGED <<inMemory, taskPc, chunks, polls, taskFaults, taskCrashes>>

\* GetTaskStatus finds the item expired and, in a second step, deletes what is there then.
PollReads ==
    /\ slot = "expired" /\ polls = 0
    /\ polls' = 1
    /\ UNCHANGED <<inMemory, slot, taskPc, chunks, taskFaults, taskCrashes>>

PollDeletes ==
    /\ polls = 1
    /\ polls' = 0
    /\ slot' = "none"
    /\ UNCHANGED <<inMemory, taskPc, chunks, taskFaults, taskCrashes>>

TaskSteps(t) ==
    \/ StartClears(t) \/ StartWrites(t) \/ ChunkDone(t)
    \/ ProgressReads(t) \/ ProgressWrites(t) \/ EndReads(t) \/ EndWrites(t)

TaskNext ==
    \/ \E t \in Task : StartReads(t) \/ TaskSteps(t)
    \/ TaskProcessDies \/ SlotExpires \/ PollReads \/ PollDeletes

--------------------------------------------------------------------------
(* Properties *)

\* Two tasks may be started together and then overwrite each other's status, so that a
\* finished task runs again and a running one is reported as finished; yet when the last
\* of them is over, the place is free (EndTask after every UpdateProgress of a task).
SlotFreeWhenDone ==
    (\A t \in Task : ~Alive(t)) /\ taskFaults = 0 /\ taskCrashes = 0 => slot # "running"

\* Whatever crashes or fails, a place that is taken becomes free again (ResultTTL).
SlotFreed == []<>(slot # "running")
=============================================================================
