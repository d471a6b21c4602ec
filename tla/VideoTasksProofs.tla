--------------------------- MODULE VideoTasksProofs ---------------------------
(***************************************************************************)
(* Theorems about VideoTasks, for any number of tasks, workers, slots and  *)
(* faults, and any lease that covers a Create call and the renewals that   *)
(* the faults can take away (VideoAssumption).                             *)
(***************************************************************************)
EXTENDS VideoTasks, TLAPS

USE VideoAssumption

-----------------------------------------------------------------------------
(* The inductive invariant                                                 *)

\* The goroutine with state e of worker w is covered by row r after f faults:
\* nobody can take its task as long as it takes its steps in time, though all
\* the renewals that can still be lost are lost.
Slack(n) == n * PollGap
Lost(e, f) == IF e.at = "create" THEN MaxFaults - f + 1 ELSE MaxFaults - f
Covered(r, w, e, f) ==
    /\ r.status \notin {"absent", "pending"}
    /\ r.status = "running" => r.owner = w /\ r.lease > e.due + Slack(Lost(e, f))

At(w, i) == exec[w][i].at
TaskOf(w, i) == exec[w][i].task

ExecsTyped == \A w \in Workers, i \in 1..Slots : At(w, i) # "idle" => TaskOf(w, i) \in Tasks
LeasesCover ==
    \A w \in Workers, i \in 1..Slots :
        At(w, i) # "idle" => Covered(row[TaskOf(w, i)], w, exec[w][i], faults)
Alone ==
    \A v, w \in Workers, i, j \in 1..Slots :
        At(v, i) # "idle" /\ At(w, j) # "idle" /\ TaskOf(v, i) = TaskOf(w, j)
            => v = w /\ i = j

LeaseInv == LeasesCover /\ Alone

-----------------------------------------------------------------------------
(* Helpers                                                                 *)

(* The constants as numbers, which the arithmetic of the leaves needs. *)
LEMMA Numbers ==
    /\ Lease \in Nat /\ CreateMax \in Nat /\ PollGap \in Nat /\ MaxDuration \in Nat
    /\ Lease > 0 /\ CreateMax > 0 /\ PollGap > 0 /\ MaxDuration > 0
    /\ 0 \in 0..(Lease + 1) /\ (Lease + 1) \in 0..(Lease + 1)
  <1>1. ASSUME NEW n \in {Lease, CreateMax, PollGap, MaxDuration} PROVE n \in Nat /\ n > 0
    BY DEF VideoAssumption
  <1>2. QED
    BY <1>1

(* The slack of each step of a goroutine is a number of ticks. *)
LEMMA SlackSteps ==
    ASSUME NEW n \in Nat
    PROVE  Slack(n) \in Nat /\ Slack(n + 1) = Slack(n) + PollGap
  BY Numbers DEF Slack

\* The quantifier over pairs of TypeOK is the one over workers and slots.
LEMMA ThreadForms ==
    /\ (\A x \in Threads : Busy(x) => exec[x[1]][x[2]].task \in Tasks) <=> ExecsTyped
    /\ Alone => SingleExecutor
  <1>1. ASSUME NEW w \in Workers, NEW i \in 1..Slots
        PROVE  <<w, i>> \in Threads /\ <<w, i>>[1] = w /\ <<w, i>>[2] = i
    BY DEF Threads
  <1>2. ASSUME NEW x \in Threads
        PROVE  x[1] \in Workers /\ x[2] \in 1..Slots /\ x = <<x[1], x[2]>>
    <2> DEFINE S == 1..Slots
    <2>1. x \in Workers \X S
      BY DEF Threads
    <2> HIDE DEF S
    <2>2. x[1] \in Workers /\ x[2] \in S /\ x = <<x[1], x[2]>>
      BY <2>1
    <2>3. QED
      BY <2>2 DEF S
  <1>3. (\A x \in Threads : Busy(x) => exec[x[1]][x[2]].task \in Tasks) => ExecsTyped
    <2> SUFFICES ASSUME \A x \in Threads : Busy(x) => exec[x[1]][x[2]].task \in Tasks,
                        NEW w \in Workers, NEW i \in 1..Slots, At(w, i) # "idle"
                 PROVE  TaskOf(w, i) \in Tasks
      BY DEF ExecsTyped
    <2> DEFINE x == <<w, i>>
    <2>1. x \in Threads /\ x[1] = w /\ x[2] = i
      BY <1>1
    <2>2. Busy(x) => exec[x[1]][x[2]].task \in Tasks
      BY <2>1
    <2> HIDE DEF x
    <2>3. QED
      BY <2>1, <2>2 DEF Busy, At, TaskOf
  <1>4. ExecsTyped => \A x \in Threads : Busy(x) => exec[x[1]][x[2]].task \in Tasks
    BY <1>2, Zenon DEF Busy, ExecsTyped, At, TaskOf
  <1>5. ASSUME Alone, NEW x \in Threads, NEW y \in Threads, Busy(x), Busy(y), x # y
        PROVE  exec[x[1]][x[2]].task # exec[y[1]][y[2]].task
    BY <1>2, <1>5, Zenon DEF Alone, Busy, At, TaskOf
  <1>6. QED
    BY <1>3, <1>4, <1>5, Zenon DEF SingleExecutor

\* What the statements of a worker make of a row.
LEMMA RowTypes ==
    ASSUME NEW r \in RowType, NEW w \in Workers
    PROVE  /\ \A result \in Results : Marked(r, result) \in RowType
           /\ Renewed(r, w) \in RowType
           /\ Ended(r, "canceled") \in RowType
           /\ [Ended(r, "deleted") EXCEPT !.url = FALSE] \in RowType
           /\ [r EXCEPT !.status = "running", !.owner = w, !.lease = Lease + 1] \in RowType
           /\ [r EXCEPT !.owner = NoWorker] \in RowType
           /\ [NoRow EXCEPT !.status = "pending"] \in RowType
  <1>1. ASSUME NEW s \in Statuses PROVE Ended(r, s) \in RowType
    BY Numbers DEF RowType, Ended
  <1>2. ASSUME NEW q \in RowType, NEW b \in BOOLEAN
        PROVE  [q EXCEPT !.url = b] \in RowType /\ [q EXCEPT !.job = b] \in RowType
    BY DEF RowType
  <1>3. ASSUME NEW result \in Results PROVE Written(r, result) \in RowType
    <2>1. {"failed", "completed"} \subseteq Statuses
      BY DEF Statuses
    <2>2. QED
      BY <1>1, <1>2, <2>1 DEF Written, Results
  <1>4. \A result \in Results : Marked(r, result) \in RowType
    BY <1>3 DEF Marked
  <1>5. Renewed(r, w) \in RowType
    BY Numbers DEF Renewed, RowType
  <1>6. /\ [r EXCEPT !.status = "running", !.owner = w, !.lease = Lease + 1] \in RowType
        /\ [r EXCEPT !.owner = NoWorker] \in RowType
    BY Numbers DEF RowType, Statuses
  <1>7. [NoRow EXCEPT !.status = "pending"] \in RowType
    BY Numbers DEF RowType, Statuses, NoRow
  <1>8. {"canceled", "deleted"} \subseteq Statuses
    BY DEF Statuses
  <1>9. /\ Ended(r, "canceled") \in RowType
        /\ [Ended(r, "deleted") EXCEPT !.url = FALSE] \in RowType
    BY <1>1, <1>2, <1>8
  <1>10. QED
    BY <1>4, <1>5, <1>6, <1>7, <1>9

\* They leave whom the row covers covered, ...
LEMMA MarkedCovers ==
    ASSUME NEW r \in RowType, NEW result \in Results, NEW w, NEW e, NEW f, Covered(r, w, e, f)
    PROVE  Covered(Marked(r, result), w, e, f)
  BY DEF Covered, Marked, Written, Ended, Results, RowType

(* A renewed lease covers a whole poll. *)
LEMMA RenewedCovers ==
    ASSUME NEW r \in RowType, NEW v \in Workers, NEW w \in Workers, NEW e \in ExecType,
           NEW f \in 0..MaxFaults, Covered(r, w, e, f)
    PROVE  Covered(Renewed(r, v), w, e, f)
  <1>1. Lost(e, f) \in Nat
    BY DEF Lost
  <1>2. Slack(Lost(e, f)) \in Nat /\ e.due \in Nat /\ r.lease \in 0..(Lease + 1)
    BY <1>1, SlackSteps DEF ExecType, RowType
  <1>3. QED
    BY <1>2, Numbers DEF Covered, Renewed, RowType

\* ... and a fault takes one renewal of the slack away.
LEMMA FaultCovers ==
    ASSUME NEW r \in RowType, NEW w, NEW e \in ExecType, NEW f \in 0..MaxFaults,
           f < MaxFaults, Covered(r, w, e, f)
    PROVE  Covered(r, w, e, f + 1)
  <1>1. Lost(e, f + 1) \in Nat /\ Lost(e, f) = Lost(e, f + 1) + 1
    BY DEF Lost
  <1>2. Slack(Lost(e, f)) = Slack(Lost(e, f + 1)) + PollGap /\ Slack(Lost(e, f + 1)) \in Nat
    BY <1>1, SlackSteps
  <1>3. r.lease \in Nat /\ e.due \in Nat
    BY DEF RowType, ExecType
  <1>4. QED
    BY <1>2, <1>3 DEF Covered

-----------------------------------------------------------------------------
(* Types                                                                   *)

\* The goroutine that takes a step, as the record it becomes.
LEMMA ExecTypes ==
    ASSUME NEW e \in ExecType
    PROVE  /\ IdleExec \in ExecType
           /\ \A t \in Tasks : [task |-> t, at |-> "create", due |-> CreateMax,
                                left |-> 0] \in ExecType
           /\ [e EXCEPT !.at = "wait", !.due = PollGap, !.left = MaxDuration + 1] \in ExecType
           /\ [e EXCEPT !.at = "renew"] \in ExecType
           /\ [e EXCEPT !.at = "ask", !.due = PollGap] \in ExecType
           /\ [e EXCEPT !.at = "wait"] \in ExecType
           /\ [e EXCEPT !.due = Less(@), !.left = Less(@)] \in ExecType
  <1>1. /\ 0 \in 0..(CreateMax + PollGap) /\ PollGap \in 0..(CreateMax + PollGap)
        /\ CreateMax \in 0..(CreateMax + PollGap)
        /\ 0 \in 0..(MaxDuration + 1) /\ MaxDuration + 1 \in 0..(MaxDuration + 1)
    BY Numbers
  <1>2. ASSUME NEW n \in Nat, NEW k \in 0..n PROVE Less(k) \in 0..n
    BY DEF Less
  <1>3. Less(e.due) \in 0..(CreateMax + PollGap) /\ Less(e.left) \in 0..(MaxDuration + 1)
    BY <1>2, Numbers DEF ExecType
  <1>4. QED
    BY <1>1, <1>3 DEF ExecType, IdleExec

\* The parts of the type invariant.
RowsTyped == row \in [Tasks -> RowType]
BatchTyped == batch \in [Workers -> SUBSET Tasks]
ThreadsTyped == exec \in [Workers -> [1..Slots -> ExecType]] /\ ExecsTyped
RestTyped == state \in [Workers -> {"up", "stopping"}] /\ faults \in 0..MaxFaults

(* The type invariant, one part per group of variables. *)
LEMMA TypeParts == TypeOK <=> RowsTyped /\ BatchTyped /\ ThreadsTyped /\ RestTyped
  BY ThreadForms, Zenon DEF TypeOK, RowsTyped, BatchTyped, ThreadsTyped, RestTyped

(* The same of the next state. *)
LEMMA TypePartsNext == TypeOK' <=> RowsTyped' /\ BatchTyped' /\ ThreadsTyped' /\ RestTyped'
  BY TypeParts, PTL

\* A goroutine that becomes e, idle or at work on a task, is well typed.
LEMMA BecomesTyped ==
    ASSUME ThreadsTyped, NEW w \in Workers, NEW i \in 1..Slots, NEW e \in ExecType,
           e.at # "idle" => e.task \in Tasks, Becomes(w, i, e)
    PROVE  ThreadsTyped'
  <1>1. exec' \in [Workers -> [1..Slots -> ExecType]]
    BY DEF ThreadsTyped, Becomes
  <1>2. ASSUME NEW v \in Workers, NEW j \in 1..Slots
        PROVE  exec'[v][j] = IF v = w /\ j = i THEN e ELSE exec[v][j]
    BY DEF ThreadsTyped, Becomes
  <1>3. QED
    BY <1>1, <1>2 DEF ThreadsTyped, ExecsTyped, At, TaskOf

\* A statement keeps the rows and the count of faults well typed.
LEMMA EffectTyped ==
    ASSUME RowsTyped, faults \in 0..MaxFaults, NEW t \in Tasks, NEW r \in RowType,
           Effect(t, r)
    PROVE  RowsTyped' /\ faults' \in 0..MaxFaults /\ faults' \in {faults, faults + 1}
  BY DEF RowsTyped, Effect

(* The initial state is well typed. *)
LEMMA InitTypes == Init => TypeOK
  <1> SUFFICES ASSUME Init PROVE TypeOK
    OBVIOUS
  <1> USE DEF Init
  <1>1. NoRow \in RowType
    BY Numbers DEF RowType, Statuses, NoRow
  <1>2. IdleExec \in ExecType
    BY Numbers DEF IdleExec, ExecType
  <1>3. RowsTyped /\ BatchTyped
    BY <1>1 DEF RowsTyped, BatchTyped
  <1>4. ThreadsTyped
    BY <1>2 DEF ThreadsTyped, ExecsTyped, At, TaskOf, IdleExec
  <1>5. RestTyped
    BY DEF RestTyped
  <1>6. QED
    BY <1>3, <1>4, <1>5, TypeParts

\* The steps of users.
LEMMA UserTypes == ASSUME TypeOK, UserStep PROVE TypeOK'
  <1>1. RowsTyped /\ BatchTyped /\ ThreadsTyped /\ RestTyped
    BY TypeParts
  <1>2. UNCHANGED <<batch, exec, state, faults>>
    BY DEF UserStep, Create, Cancel, Delete, Retry
  <1>3. BatchTyped' /\ ThreadsTyped' /\ RestTyped'
    BY <1>1, <1>2 DEF BatchTyped, ThreadsTyped, RestTyped, ExecsTyped, At, TaskOf
  <1>4. ASSUME NEW t \in Tasks, NEW r \in RowType, row' = [row EXCEPT ![t] = r]
        PROVE  RowsTyped'
    BY <1>1, <1>4 DEF RowsTyped
  <1>5. PICK t \in Tasks : Create(t) \/ Cancel(t) \/ Delete(t)
    BY DEF UserStep, Retry
  <1>6. ASSUME NEW r \in RowType
        PROVE  /\ Ended(r, "canceled") \in RowType
               /\ [Ended(r, "deleted") EXCEPT !.url = FALSE] \in RowType
    BY Numbers DEF RowType, Statuses, Ended
  <1>7. [NoRow EXCEPT !.status = "pending"] \in RowType
    BY Numbers DEF RowType, Statuses, NoRow
  <1>8. row[t] \in RowType
    BY <1>1 DEF RowsTyped
  <1>9. RowsTyped'
    BY <1>4, <1>5, <1>6, <1>7, <1>8 DEF Create, Cancel, Delete
  <1>10. QED
    BY <1>3, <1>9, TypePartsNext

\* The steps of the scan loop.
LEMMA ScanTypes == ASSUME TypeOK, NEW w \in Workers, ScanStep(w) PROVE TypeOK'
  <1>1. RowsTyped /\ BatchTyped /\ ThreadsTyped /\ RestTyped
    BY TypeParts
  <1>2. CASE Scan(w) \/ ScanGivesUp(w)
    <2>1. UNCHANGED <<row, exec, state, faults>>
      BY <1>2 DEF Scan, ScanGivesUp
    <2>2. BatchTyped'
      BY <1>1, <1>2 DEF BatchTyped, Scan, ScanGivesUp
    <2>3. RowsTyped' /\ ThreadsTyped' /\ RestTyped'
      BY <1>1, <2>1 DEF RowsTyped, ThreadsTyped, RestTyped, ExecsTyped, At, TaskOf
    <2>4. QED
      BY <2>2, <2>3, TypePartsNext
  <1>3. ASSUME NEW t \in Tasks, NEW i \in 1..Slots, Claim(w, t, i) PROVE TypeOK'
    <2> DEFINE e == [task |-> t, at |-> "create", due |-> CreateMax, left |-> 0]
    <2>1. row[t] \in RowType /\ exec[w][i] \in ExecType
      BY <1>1 DEF RowsTyped, ThreadsTyped
    <2>2. e \in ExecType /\ (e.at # "idle" => e.task \in Tasks)
      BY <2>1, ExecTypes
    <2>3. [row[t] EXCEPT !.status = "running", !.owner = w, !.lease = Lease + 1] \in RowType
      BY <2>1, RowTypes
    <2>4. RowsTyped'
      BY <1>1, <1>3, <2>3 DEF RowsTyped, Claim
    <2>5. BatchTyped'
      BY <1>1, <1>3 DEF BatchTyped, Claim
    <2>6. RestTyped'
      BY <1>1, <1>3 DEF RestTyped, Claim
    <2>7. Becomes(w, i, e) \/ UNCHANGED exec
      BY <1>3 DEF Claim
    <2> HIDE DEF e
    <2>8. ThreadsTyped'
      BY <1>1, <2>2, <2>7, BecomesTyped DEF ThreadsTyped, ExecsTyped, At, TaskOf
    <2>9. QED
      BY <2>4, <2>5, <2>6, <2>8, TypePartsNext
  <1>4. QED
    BY <1>2, <1>3 DEF ScanStep

\* The steps of a goroutine: whatever its statement does, rows and goroutine
\* stay well typed.
LEMMA ExecStepTypes ==
    ASSUME TypeOK, NEW w \in Workers, NEW i \in 1..Slots, ExecStep(w, i)
    PROVE  TypeOK'
  <1> DEFINE e == exec[w][i]
             t == TaskOf(w, i)
  <1>1. RowsTyped /\ BatchTyped /\ ThreadsTyped /\ RestTyped
    BY TypeParts
  <1>2. e \in ExecType /\ faults \in 0..MaxFaults /\ e.at # "idle"
    BY <1>1 DEF ThreadsTyped, RestTyped, ExecStep, CreateReturns, GetFails, PollCheck,
                PollStops, PollRenew, PollAsk
  <1>3. t \in Tasks /\ row[t] \in RowType /\ e.task = t
    BY <1>1, <1>2 DEF ThreadsTyped, ExecsTyped, RowsTyped, At, TaskOf
  <1>4. ASSUME NEW q \in ExecType, q.at # "idle" => q.task \in Tasks, Becomes(w, i, q)
        PROVE  ThreadsTyped'
    BY <1>1, <1>4, BecomesTyped
  <1>5. IdleExec \in ExecType /\ IdleExec.at = "idle"
    BY <1>2, ExecTypes DEF IdleExec
  <1>6. Ends(w, i) => ThreadsTyped'
    BY <1>4, <1>5, Zenon DEF Ends
  <1>7. ASSUME NEW r \in RowType, Effect(t, r), UNCHANGED <<batch, state>>
        PROVE  RowsTyped' /\ BatchTyped' /\ RestTyped'
    BY <1>1, <1>2, <1>3, <1>7, EffectTyped DEF BatchTyped, RestTyped
  <1>8. ASSUME UNCHANGED <<row, batch, state>>, faults' \in 0..MaxFaults
        PROVE  RowsTyped' /\ BatchTyped' /\ RestTyped'
    BY <1>1, <1>8 DEF RowsTyped, BatchTyped, RestTyped
  <1>9. \A result \in Results : Marked(row[t], result) \in RowType
    BY <1>3, RowTypes
  <1>10. CASE CreateReturns(w, i)
    <2>1. PICK result \in Results :
              /\ Effect(t, Marked(row[t], result)) /\ UNCHANGED <<batch, state>>
              /\ \/ Becomes(w, i, [e EXCEPT !.at = "wait", !.due = PollGap,
                                            !.left = MaxDuration + 1])
                 \/ Ends(w, i)
      BY <1>3, <1>10 DEF CreateReturns
    <2> DEFINE q == [e EXCEPT !.at = "wait", !.due = PollGap, !.left = MaxDuration + 1]
    <2>2. q \in ExecType /\ q.task = t
      BY <1>2, <1>3, ExecTypes DEF ExecType
    <2> HIDE DEF q, e, t
    <2>3. ThreadsTyped'
      BY <1>3, <1>4, <1>6, <2>1, <2>2 DEF q
    <2>4. QED
      BY <1>7, <1>9, <2>1, <2>3, TypePartsNext
  <1>11. CASE GetFails(w, i) \/ PollStops(w, i)
    <2>1. Ends(w, i) /\ UNCHANGED <<row, batch, state, faults>>
      BY <1>11 DEF GetFails, PollStops
    <2>2. QED
      BY <1>2, <1>6, <1>8, <2>1, TypePartsNext
  <1>12. CASE PollCheck(w, i)
    <2> DEFINE q == [e EXCEPT !.at = "renew"]
    <2>1. UNCHANGED <<row, batch, state>> /\ faults' \in 0..MaxFaults
      BY <1>2, <1>12 DEF PollCheck
    <2>2. Ends(w, i) \/ Becomes(w, i, q)
      BY <1>12 DEF PollCheck
    <2>3. q \in ExecType /\ q.task = t
      BY <1>2, <1>3, ExecTypes DEF ExecType
    <2> HIDE DEF q, e, t
    <2>4. ThreadsTyped'
      BY <1>3, <1>4, <1>6, <2>2, <2>3
    <2>5. QED
      BY <1>8, <2>1, <2>4, TypePartsNext
  <1>13. CASE PollRenew(w, i)
    <2> DEFINE q == [e EXCEPT !.at = "ask", !.due = PollGap]
    <2>1. PICK r \in RowType : Effect(t, r)
      <3>1. Renewed(row[t], w) \in RowType /\ Marked(row[t], "failed") \in RowType
        BY <1>3, <1>9, RowTypes DEF Results
      <3>2. QED
        BY <1>3, <1>13, <3>1 DEF PollRenew
    <2>2. UNCHANGED <<batch, state>> /\ (Ends(w, i) \/ Becomes(w, i, q))
      BY <1>13 DEF PollRenew
    <2>3. q \in ExecType /\ q.task = t
      BY <1>2, <1>3, ExecTypes DEF ExecType
    <2> HIDE DEF q, e, t
    <2>4. ThreadsTyped'
      BY <1>3, <1>4, <1>6, <2>2, <2>3
    <2>5. QED
      BY <1>7, <2>1, <2>2, <2>4, TypePartsNext
  <1>14. CASE PollAsk(w, i)
    <2> DEFINE q == [e EXCEPT !.at = "wait"]
    <2>1. PICK result \in Results : Effect(t, Marked(row[t], result))
      BY <1>3, <1>14 DEF PollAsk
    <2>2. UNCHANGED <<batch, state>> /\ (Ends(w, i) \/ Becomes(w, i, q))
      BY <1>14 DEF PollAsk
    <2>3. q \in ExecType /\ q.task = t
      BY <1>2, <1>3, ExecTypes DEF ExecType
    <2> HIDE DEF q, e, t
    <2>4. ThreadsTyped'
      BY <1>3, <1>4, <1>6, <2>2, <2>3
    <2>5. QED
      BY <1>7, <1>9, <2>1, <2>2, <2>4, TypePartsNext
  <1>15. QED
    BY <1>10, <1>11, <1>12, <1>13, <1>14 DEF ExecStep

\* Shutdown, restart and the passing of time.
LEMMA OtherTypes ==
    ASSUME TypeOK, Tick \/ \E w \in Workers : Stop(w) \/ Restart(w)
    PROVE  TypeOK'
  <1>1. RowsTyped /\ BatchTyped /\ ThreadsTyped /\ RestTyped
    BY TypeParts
  <1>2. ASSUME NEW w \in Workers, Stop(w) PROVE TypeOK'
    <2>1. RowsTyped' /\ BatchTyped' /\ ThreadsTyped'
      BY <1>1, <1>2 DEF Stop, RowsTyped, BatchTyped, ThreadsTyped, ExecsTyped, At, TaskOf
    <2>2. RestTyped'
      BY <1>1, <1>2 DEF Stop, RestTyped
    <2>3. QED
      BY <2>1, <2>2, TypePartsNext
  <1>3. ASSUME NEW w \in Workers, Restart(w) PROVE TypeOK'
    <2>1. ASSUME NEW t \in Tasks PROVE [row[t] EXCEPT !.owner = NoWorker] \in RowType
      BY <1>1 DEF RowsTyped, RowType
    <2>2. RowsTyped'
      BY <1>1, <1>3, <2>1 DEF Restart, RowsTyped
    <2>3. IdleExec \in ExecType /\ IdleExec.at = "idle"
      BY Numbers DEF IdleExec, ExecType
    <2>4. exec' = [exec EXCEPT ![w] = [i \in 1..Slots |-> IdleExec]]
      BY <1>3 DEF Restart
    <2>5. exec' \in [Workers -> [1..Slots -> ExecType]]
      BY <1>1, <2>3, <2>4 DEF ThreadsTyped
    <2>6. ExecsTyped'
      BY <1>1, <2>3, <2>4 DEF ThreadsTyped, ExecsTyped, At, TaskOf
    <2>7. BatchTyped' /\ RestTyped'
      BY <1>1, <1>3 DEF Restart, BatchTyped, RestTyped
    <2>8. QED
      BY <2>2, <2>5, <2>6, <2>7, TypePartsNext DEF ThreadsTyped
  <1>4. CASE Tick
    <2>1. ASSUME NEW r \in RowType PROVE [r EXCEPT !.lease = Less(@)] \in RowType
      BY Numbers DEF RowType, Less
    <2>2. RowsTyped'
      BY <1>1, <1>4, <2>1 DEF Tick, RowsTyped
    <2>3. ASSUME NEW w \in Workers, NEW i \in 1..Slots
          PROVE  /\ exec[w][i] \in ExecType
                 /\ [exec[w][i] EXCEPT !.due = Less(@), !.left = Less(@)] \in ExecType
      BY <1>1, ExecTypes DEF ThreadsTyped
    <2>4. exec' = [w \in Workers |-> [i \in 1..Slots |->
                     [exec[w][i] EXCEPT !.due = Less(@), !.left = Less(@)]]]
      BY <1>4 DEF Tick
    <2>5. exec' \in [Workers -> [1..Slots -> ExecType]]
      BY <2>3, <2>4
    <2>6. ASSUME NEW w \in Workers, NEW i \in 1..Slots
          PROVE  exec'[w][i].at = exec[w][i].at /\ exec'[w][i].task = exec[w][i].task
      BY <2>3, <2>4 DEF ExecType
    <2>7. ExecsTyped'
      BY <1>1, <2>6 DEF ThreadsTyped, ExecsTyped, At, TaskOf
    <2>8. BatchTyped' /\ RestTyped'
      BY <1>1, <1>4 DEF Tick, BatchTyped, RestTyped
    <2>9. QED
      BY <2>2, <2>5, <2>7, <2>8, TypePartsNext DEF ThreadsTyped
  <1>5. QED
    BY <1>2, <1>3, <1>4

(* A step that changes nothing keeps the types. *)
LEMMA StutterTypes == ASSUME TypeOK, UNCHANGED vars PROVE TypeOK'
  <1>1. RowsTyped /\ BatchTyped /\ ThreadsTyped /\ RestTyped
    BY TypeParts
  <1>2. RowsTyped' /\ BatchTyped' /\ ThreadsTyped' /\ RestTyped'
    BY <1>1 DEF vars, RowsTyped, BatchTyped, ThreadsTyped, RestTyped, ExecsTyped, At, TaskOf
  <1>3. QED
    BY <1>2, TypePartsNext

(* Every step keeps the types. *)
LEMMA NextTypes == TypeOK /\ [Next]_vars => TypeOK'
  BY UserTypes, ScanTypes, ExecStepTypes, OtherTypes, StutterTypes DEF Next

\* Every reachable state is well typed, and a goroutine at work has a task.
THEOREM TypeCorrect == Spec => []TypeOK
  <1>1. Init => TypeOK
    BY InitTypes
  <1>2. TypeOK /\ [Next]_vars => TypeOK'
    BY NextTypes
  <1>3. QED
    BY <1>1, <1>2, PTL DEF Spec

-----------------------------------------------------------------------------
(* The user's view                                                         *)

\* View v becomes v2 by the end of the task.
Finishes(v, v2) ==
    /\ v.status = "running"
    /\ \/ v2 = [status |-> "completed", url |-> TRUE]
       \/ v2 = [v EXCEPT !.status = "failed"]

\* One row becomes r: the view of that task becomes what r shows.
LEMMA RowShown ==
    ASSUME RowsTyped, NEW t \in Tasks, NEW r, row' = [row EXCEPT ![t] = r]
    PROVE  /\ Seen' = [Seen EXCEPT ![t] = SeenRow(r)]
           /\ SeenRow(r) = SeenRow(row[t]) => UNCHANGED Seen
  <1>1. Seen' = [u \in Tasks |-> SeenRow(row'[u])]
    BY DEF Seen
  <1>2. ASSUME NEW u \in Tasks PROVE row'[u] = IF u = t THEN r ELSE row[u]
    BY DEF RowsTyped
  <1>3. ASSUME NEW u \in Tasks
        PROVE  SeenRow(row'[u]) = IF u = t THEN SeenRow(r) ELSE SeenRow(row[u])
    <2>1. CASE u = t
      BY <1>2, <2>1
    <2>2. CASE u # t
      BY <1>2, <2>2
    <2>3. QED
      BY <2>1, <2>2
  <1>4. Seen' = [u \in Tasks |-> IF u = t THEN SeenRow(r) ELSE SeenRow(row[u])]
    BY <1>1, <1>3
  <1>5. QED
    BY <1>4 DEF Seen

\* The rows that a statement can make, and what they show.
LEMMA RowsShow ==
    ASSUME NEW r \in RowType, NEW w \in Workers
    PROVE  /\ SeenRow(Ended(r, "canceled")) = [SeenRow(r) EXCEPT !.status = "canceled"]
           /\ SeenRow([Ended(r, "deleted") EXCEPT !.url = FALSE])
                 = [status |-> "deleted", url |-> FALSE]
           /\ SeenRow([NoRow EXCEPT !.status = "pending"]) = [status |-> "pending", url |-> FALSE]
           /\ SeenRow([r EXCEPT !.status = "running", !.owner = w, !.lease = Lease + 1])
                 = [SeenRow(r) EXCEPT !.status = "running"]
           /\ SeenRow(Renewed(r, w)) = SeenRow(r)
           /\ SeenRow([r EXCEPT !.owner = NoWorker]) = SeenRow(r)
           /\ SeenRow([r EXCEPT !.lease = Less(@)]) = SeenRow(r)
           /\ SeenRow(r).status = r.status /\ SeenRow(r).url = r.url
  BY DEF RowType, SeenRow, Ended, NoRow, Renewed

(* A conditional UPDATE of a goroutine shows as the end of a task in the user's view, or as nothing. *)
LEMMA MarkedShows ==
    ASSUME NEW r \in RowType, NEW result \in Results
    PROVE  \/ SeenRow(Marked(r, result)) = SeenRow(r)
           \/ Finishes(SeenRow(r), SeenRow(Marked(r, result)))
  <1>1. CASE r.status # "running" \/ result \in {"progress", "started"}
    BY <1>1 DEF RowType, SeenRow, Marked, Written
  <1>2. CASE r.status = "running" /\ result = "completed"
    <2>1. Marked(r, result) = [Ended(r, "completed") EXCEPT !.url = TRUE]
      BY <1>2 DEF Marked, Written
    <2>2. SeenRow(Marked(r, result)) = [status |-> "completed", url |-> TRUE]
      BY <2>1 DEF RowType, SeenRow, Ended
    <2>3. SeenRow(r).status = "running" /\ SeenRow(r) = [status |-> "running", url |-> r.url]
      BY <1>2 DEF SeenRow
    <2>4. QED
      BY <2>2, <2>3 DEF Finishes
  <1>3. CASE r.status = "running" /\ result = "failed"
    <2>1. Marked(r, result) = Ended(r, "failed")
      BY <1>3 DEF Marked, Written
    <2>2. SeenRow(Marked(r, result)) = [status |-> "failed", url |-> r.url]
      BY <2>1 DEF RowType, SeenRow, Ended
    <2>3. QED
      BY <1>3, <2>2 DEF Finishes, SeenRow
  <1>4. QED
    BY <1>1, <1>2, <1>3 DEF Results

\* A result that is written finishes a running task in the view, or leaves it.
LEMMA EffectShown ==
    ASSUME RowsTyped, NEW t \in Tasks, NEW r, Effect(t, r),
           SeenRow(r) = SeenRow(row[t]) \/ Finishes(SeenRow(row[t]), SeenRow(r))
    PROVE  Life!Finish(t) \/ UNCHANGED Seen
  <1>1. Seen[t] = SeenRow(row[t]) /\ SeenRow(row[t]).status = row[t].status
    BY DEF Seen, SeenRow
  <1>2. CASE UNCHANGED row
    BY <1>2 DEF Seen
  <1>3. CASE row' = [row EXCEPT ![t] = r] /\ SeenRow(r) = SeenRow(row[t])
    BY <1>3, RowShown
  <1>4. CASE row' = [row EXCEPT ![t] = r] /\ SeenRow(r) # SeenRow(row[t])
    <2>1. Seen' = [Seen EXCEPT ![t] = SeenRow(r)]
      BY <1>4, RowShown
    <2>2. Life!Finish(t)
      BY <1>1, <1>4, <2>1 DEF Finishes, Life!Finish, Life!Becomes
    <2>3. QED
      BY <2>2
  <1>5. QED
    BY <1>2, <1>3, <1>4 DEF Effect

(* Every step of a goroutine shows as a step of the user's view, or as none. *)
LEMMA ExecShown ==
    ASSUME TypeOK, NEW w \in Workers, NEW i \in 1..Slots, ExecStep(w, i)
    PROVE  Life!LifeNext \/ UNCHANGED Seen
  <1>1. RowsTyped /\ ThreadsTyped
    BY TypeParts
  <1>2. At(w, i) # "idle"
    BY DEF At, ExecStep, CreateReturns, GetFails, PollCheck, PollStops, PollRenew, PollAsk
  <1>3. PICK t \in Tasks : t = exec[w][i].task /\ row[t] \in RowType
    BY <1>1, <1>2 DEF ThreadsTyped, ExecsTyped, RowsTyped, TaskOf
  <1>4. CASE GetFails(w, i) \/ PollCheck(w, i) \/ PollStops(w, i)
    BY <1>4 DEF GetFails, PollCheck, PollStops, Seen
  <1>5. CASE CreateReturns(w, i) \/ PollRenew(w, i) \/ PollAsk(w, i)
    <2>1. \/ \E result \in Results : Effect(t, Marked(row[t], result))
          \/ Effect(t, Renewed(row[t], w))
      BY <1>3, <1>5 DEF CreateReturns, PollRenew, PollAsk, Results
    <2>2. SeenRow(Renewed(row[t], w)) = SeenRow(row[t])
      BY <1>3, RowsShow
    <2>3. CASE Effect(t, Renewed(row[t], w))
      BY <1>1, <1>3, <2>2, <2>3, EffectShown DEF Life!LifeNext
    <2>4. ASSUME NEW result \in Results, Effect(t, Marked(row[t], result))
          PROVE  Life!Finish(t) \/ UNCHANGED Seen
      <3>1. \/ SeenRow(Marked(row[t], result)) = SeenRow(row[t])
            \/ Finishes(SeenRow(row[t]), SeenRow(Marked(row[t], result)))
        BY <1>3, MarkedShows
      <3>2. QED
        BY <1>1, <1>3, <2>4, <3>1, EffectShown
    <2>5. QED
      BY <1>3, <2>1, <2>3, <2>4 DEF Life!LifeNext
  <1>6. QED
    BY <1>4, <1>5 DEF ExecStep

(* So does a claim, whether the row is still claimable or not. *)
LEMMA ClaimShown ==
    ASSUME TypeOK, NEW w \in Workers, NEW t \in Tasks, NEW i \in 1..Slots, Claim(w, t, i)
    PROVE  Life!LifeNext \/ UNCHANGED Seen
  <1> DEFINE r == [row[t] EXCEPT !.status = "running", !.owner = w, !.lease = Lease + 1]
  <1>1. RowsTyped /\ row[t] \in RowType
    BY TypeParts DEF RowsTyped
  <1>2. CASE UNCHANGED row
    BY <1>2 DEF Seen
  <1>3. CASE Claimable(row[t]) /\ row' = [row EXCEPT ![t] = r]
    <2>1. SeenRow(r) = [SeenRow(row[t]) EXCEPT !.status = "running"]
      BY <1>1, RowsShow
    <2> HIDE DEF r
    <2>2. Seen' = [Seen EXCEPT ![t] = SeenRow(r)]
      BY <1>1, <1>3, RowShown
    <2>3. Seen[t] = SeenRow(row[t]) /\ Seen[t].status = row[t].status
      BY DEF Seen, SeenRow
    <2>4. CASE row[t].status = "pending"
      BY <2>1, <2>2, <2>3, <2>4 DEF Life!LifeNext, Life!Take, Life!Becomes
    <2>5. CASE row[t].status = "running"
      <3>1. SeenRow(r) = SeenRow(row[t])
        BY <2>1, <2>5 DEF SeenRow
      <3>2. QED
        BY <1>1, <1>3, <3>1, RowShown
    <2>6. QED
      BY <1>3, <2>4, <2>5 DEF Claimable
  <1>4. QED
    BY <1>2, <1>3 DEF Claim

(* The user's own operations are steps of it. *)
LEMMA UserShown ==
    ASSUME TypeOK, UserStep PROVE Life!LifeNext
  <1>1. PICK t \in Tasks : Create(t) \/ Cancel(t) \/ Delete(t)
    BY DEF UserStep, Retry
  <1>2. RowsTyped /\ row[t] \in RowType
    BY TypeParts DEF RowsTyped
  <1>3. Seen[t] = SeenRow(row[t]) /\ Seen[t].status = row[t].status
    BY DEF Seen, SeenRow
  <1>4. CASE Create(t)
    <2>1. Seen' = [Seen EXCEPT ![t] = SeenRow([NoRow EXCEPT !.status = "pending"])]
      BY <1>2, <1>4, RowShown DEF Create
    <2>2. SeenRow([NoRow EXCEPT !.status = "pending"]) = [status |-> "pending", url |-> FALSE]
      BY DEF SeenRow, NoRow
    <2>3. Life!Submit(t)
      BY <1>3, <1>4, <2>1, <2>2 DEF Create, Life!Submit, Life!Becomes
    <2>4. QED
      BY <2>3 DEF Life!LifeNext
  <1>5. CASE Cancel(t)
    <2>1. Seen' = [Seen EXCEPT ![t] = SeenRow(Ended(row[t], "canceled"))]
      BY <1>2, <1>5, RowShown DEF Cancel
    <2>2. SeenRow(Ended(row[t], "canceled")) = [SeenRow(row[t]) EXCEPT !.status = "canceled"]
      BY <1>2 DEF SeenRow, Ended, RowType
    <2>3. Life!CancelTask(t)
      BY <1>3, <1>5, <2>1, <2>2 DEF Cancel, Live, Life!CancelTask, Life!Shown, Life!Becomes
    <2>4. QED
      BY <2>3 DEF Life!LifeNext
  <1>6. CASE Delete(t)
    <2> DEFINE r == [Ended(row[t], "deleted") EXCEPT !.url = FALSE]
    <2>1. Seen' = [Seen EXCEPT ![t] = SeenRow(r)]
      BY <1>2, <1>6, RowShown DEF Delete
    <2>2. SeenRow(r) = [status |-> "deleted", url |-> FALSE]
      BY <1>2 DEF SeenRow, Ended, RowType
    <2> HIDE DEF r
    <2>3. Life!Remove(t)
      BY <1>3, <1>6, <2>1, <2>2 DEF Delete, Live, Life!Remove, Life!Shown, Life!Becomes
    <2>4. QED
      BY <2>3 DEF Life!LifeNext
  <1>7. QED
    BY <1>1, <1>4, <1>5, <1>6

\* The steps that leave status and video of every row alone.
LEMMA QuietShown ==
    ASSUME TypeOK, NEW w \in Workers,
           Scan(w) \/ ScanGivesUp(w) \/ Stop(w) \/ Restart(w) \/ Tick \/ UNCHANGED vars
    PROVE  UNCHANGED Seen
  <1>1. RowsTyped
    BY TypeParts
  <1>2. ASSUME NEW t \in Tasks PROVE SeenRow(row'[t]) = SeenRow(row[t])
    <2>1. row[t] \in RowType
      BY <1>1 DEF RowsTyped
    <2>2. row'[t] \in {row[t], [row[t] EXCEPT !.owner = NoWorker],
                       [row[t] EXCEPT !.lease = Less(@)]}
      BY DEF Scan, ScanGivesUp, Stop, Restart, Tick, vars
    <2>3. QED
      BY <2>1, <2>2, RowsShow
  <1>3. QED
    BY <1>2 DEF Seen

\* The queue implements the user's view, whatever processes do and however
\* long they are suspended: no result is lost or changed, nothing canceled
\* comes back.
THEOREM ImplementsLifeCorrect == Spec => ImplementsLife
  <1>1. Init => Life!LifeInit
    BY DEF Init, Life!LifeInit, NoRow, Seen, SeenRow
  <1>2. TypeOK /\ [Next]_vars => [Life!LifeNext]_Seen
    <2> SUFFICES ASSUME TypeOK, [Next]_vars PROVE Life!LifeNext \/ UNCHANGED Seen
      OBVIOUS
    <2>1. ASSUME NEW w \in Workers, ScanStep(w) PROVE Life!LifeNext \/ UNCHANGED Seen
      BY <2>1, ClaimShown, QuietShown DEF ScanStep
    <2>2. CASE Tick \/ UNCHANGED vars
      <3>1. ASSUME NEW t \in Tasks PROVE SeenRow(row'[t]) = SeenRow(row[t])
        <4>1. row[t] \in RowType
          BY TypeParts DEF RowsTyped
        <4>2. row'[t] \in {row[t], [row[t] EXCEPT !.lease = Less(@)]}
          BY <2>2 DEF Tick, vars
        <4>3. QED
          BY <4>1, <4>2 DEF SeenRow, RowType
      <3>2. QED
        BY <3>1 DEF Seen
    <2>3. QED
      BY <2>1, <2>2, ExecShown, UserShown, QuietShown DEF Next
  <1>3. QED
    BY <1>1, <1>2, TypeCorrect, PTL DEF Spec, ImplementsLife, Life!LifeSpec, Seen, SeenRow

-----------------------------------------------------------------------------
(* Why a lease keeps a video task to one goroutine: a goroutine at work on *)
(* a running task owns the row, and the lease outlives its wait and all    *)
(* the renewals that can still be lost.  The clock waits for late          *)
(* goroutines (Punctual).                                                  *)

-----------------------------------------------------------------------------
(* What a step does to a covered goroutine                                 *)

(* The slack grows with the number of renewals it allows for. *)
LEMMA SlackMonotone ==
    ASSUME NEW m \in Nat, NEW n \in Nat, m <= n PROVE Slack(m) <= Slack(n)
  <1>1. PollGap \in Nat
    BY Numbers
  <1>2. n - m \in Nat /\ n = m + (n - m)
    OBVIOUS
  <1>3. ASSUME NEW k \in Nat PROVE (m + k) * PollGap = m * PollGap + k * PollGap /\ k * PollGap >= 0
    BY <1>1
  <1>4. QED
    BY <1>1, <1>2, <1>3 DEF Slack

\* A fresh lease covers a goroutine that enters Create or waits for a poll.
LEMMA FreshLease ==
    ASSUME NEW f \in 0..MaxFaults
    PROVE  /\ Lease + 1 > CreateMax + Slack(MaxFaults - f + 1)
           /\ Lease + 1 > PollGap + Slack(MaxFaults - f)
  <1>1. CreateMax + Slack(MaxFaults + 1) <= Lease
    BY DEF Slack, VideoAssumption
  <1>2. /\ MaxFaults - f + 1 \in Nat /\ MaxFaults - f + 1 <= MaxFaults + 1
        /\ MaxFaults - f \in Nat /\ MaxFaults + 1 \in Nat
    OBVIOUS
  <1>3. Slack(MaxFaults - f + 1) <= Slack(MaxFaults + 1)
    BY <1>2, SlackMonotone
  <1>4. Slack(MaxFaults - f + 1) = Slack(MaxFaults - f) + PollGap
    BY <1>2, SlackSteps
  <1>5. /\ Slack(MaxFaults - f + 1) \in Nat /\ Slack(MaxFaults - f) \in Nat
        /\ Slack(MaxFaults + 1) \in Nat
    BY <1>2, SlackSteps
  <1>6. QED
    BY <1>1, <1>3, <1>4, <1>5, Numbers

\* A statement that keeps what its row covers keeps what every row covers.
LEMMA EffectCovers ==
    ASSUME RowsTyped, faults \in 0..MaxFaults,
           NEW t \in Tasks, NEW r, Effect(t, r),
           NEW u \in Tasks, NEW w \in Workers, NEW e \in ExecType,
           Covered(row[t], w, e, faults) => Covered(r, w, e, faults),
           Covered(row[u], w, e, faults)
    PROVE  Covered(row'[u], w, e, faults')
  <1>1. CASE row' = [row EXCEPT ![t] = r] /\ UNCHANGED faults
    BY <1>1 DEF RowsTyped
  <1>2. CASE faults < MaxFaults /\ faults' = faults + 1 /\ UNCHANGED row
    BY <1>2, FaultCovers DEF RowsTyped
  <1>3. QED
    BY <1>1, <1>2 DEF Effect

\* The goroutine goes from Create to its poll loop, or on in the loop.
LEMMA OnwardCovers ==
    ASSUME NEW r \in RowType, NEW w \in Workers, NEW e \in ExecType,
           NEW f \in 0..MaxFaults, Covered(r, w, e, f)
    PROVE  /\ e.at = "create" =>
                Covered(r, w, [e EXCEPT !.at = "wait", !.due = PollGap,
                                        !.left = MaxDuration + 1], f)
           /\ e.at # "create" => /\ Covered(r, w, [e EXCEPT !.at = "renew"], f)
                                 /\ Covered(r, w, [e EXCEPT !.at = "wait"], f)
  <1>1. MaxFaults - f \in Nat
    OBVIOUS
  <1>2. /\ Slack(MaxFaults - f + 1) = Slack(MaxFaults - f) + PollGap
        /\ Slack(MaxFaults - f) \in Nat
    BY <1>1, SlackSteps
  <1>3. e.due \in Nat /\ r.lease \in Nat
    BY Numbers DEF ExecType, RowType
  <1>4. QED
    BY <1>2, <1>3, Numbers DEF Covered, Lost, ExecType

\* The renewal of a poll round covers the next wait, done or lost.
LEMMA RenewalCovers ==
    ASSUME RowsTyped, faults \in 0..MaxFaults,
           NEW t \in Tasks, NEW w \in Workers, NEW e \in ExecType, e.at = "renew",
           Covered(row[t], w, e, faults), Effect(t, Renewed(row[t], w))
    PROVE  Covered(row'[t], w, [e EXCEPT !.at = "ask", !.due = PollGap], faults')
  <1> DEFINE q == [e EXCEPT !.at = "ask", !.due = PollGap]
  <1>1. row[t] \in RowType /\ q.at = "ask" /\ q.due = PollGap
    BY DEF RowsTyped, ExecType
  <1> HIDE DEF q
  <1>2. CASE row' = [row EXCEPT ![t] = Renewed(row[t], w)] /\ UNCHANGED faults
    <2>1. row'[t] = Renewed(row[t], w)
      BY <1>2 DEF RowsTyped
    <2>2. Lease + 1 > PollGap + Slack(MaxFaults - faults)
      BY FreshLease
    <2>3. Renewed(row[t], w).status = row[t].status
      BY <1>1 DEF Renewed, RowType
    <2>4. ASSUME row[t].status = "running"
          PROVE  Renewed(row[t], w).owner = w /\ Renewed(row[t], w).lease = Lease + 1
      BY <1>1, <2>4 DEF Renewed, RowType, Covered
    <2>5. QED
      BY <1>1, <1>2, <2>1, <2>2, <2>3, <2>4 DEF Covered, Lost
  <1>3. CASE faults < MaxFaults /\ faults' = faults + 1 /\ UNCHANGED row
    <2>1. MaxFaults - faults' \in Nat /\ MaxFaults - faults = (MaxFaults - faults') + 1
      BY <1>3
    <2>2. /\ Slack(MaxFaults - faults) = Slack(MaxFaults - faults') + PollGap
          /\ Slack(MaxFaults - faults') \in Nat
      BY <2>1, SlackSteps
    <2>3. e.due \in Nat /\ row[t].lease \in Nat
      BY <1>1, Numbers DEF ExecType, RowType
    <2>4. QED
      BY <1>1, <1>3, <2>2, <2>3, Numbers DEF Covered, Lost
  <1>4. QED
    BY <1>2, <1>3 DEF Effect, q

-----------------------------------------------------------------------------
(* The invariant, step by step                                             *)

\* Goroutines that go on with the task they had stay alone on it.
LEMMA StillAlone ==
    ASSUME Alone,
           \A w \in Workers, i \in 1..Slots : At(w, i)' # "idle" =>
               At(w, i) # "idle" /\ TaskOf(w, i)' = TaskOf(w, i)
    PROVE  Alone'
  BY DEF Alone, At, TaskOf

\* One goroutine takes a step; the others stay as they are.
LEMMA OthersStay ==
    ASSUME ThreadsTyped, NEW w \in Workers, NEW i \in 1..Slots, NEW e, Becomes(w, i, e)
    PROVE  \A v \in Workers, j \in 1..Slots :
               exec'[v][j] = IF v = w /\ j = i THEN e ELSE exec[v][j]
  BY DEF ThreadsTyped, Becomes

\* A statement of a goroutine on its task, which keeps what the row covers:
\* then the goroutine ends, or goes on covered.
LEMMA StatementStep ==
    ASSUME TypeOK, LeaseInv, NEW w \in Workers, NEW i \in 1..Slots, At(w, i) # "idle",
           NEW r, Effect(TaskOf(w, i), r),
           \A v \in Workers, q \in ExecType :
               Covered(row[TaskOf(w, i)], v, q, faults) => Covered(r, v, q, faults),
           NEW e \in ExecType, Becomes(w, i, e),
           e.at # "idle" =>
               e.task = TaskOf(w, i) /\ Covered(row'[TaskOf(w, i)], w, e, faults')
    PROVE  LeaseInv'
  <1>1. RowsTyped /\ ThreadsTyped /\ faults \in 0..MaxFaults
    BY TypeParts DEF RestTyped
  <1>2. \A v \in Workers, j \in 1..Slots :
            exec'[v][j] = IF v = w /\ j = i THEN e ELSE exec[v][j]
    BY <1>1, OthersStay
  <1>3. ASSUME NEW v \in Workers, NEW j \in 1..Slots
        PROVE  exec[v][j] \in ExecType /\ (At(v, j) # "idle" => TaskOf(v, j) \in Tasks)
    BY <1>1 DEF ThreadsTyped, ExecsTyped
  <1>4. ASSUME NEW v \in Workers, NEW j \in 1..Slots, At(v, j)' # "idle"
        PROVE  /\ At(v, j) # "idle" /\ TaskOf(v, j)' = TaskOf(v, j)
               /\ Covered(row'[TaskOf(v, j)], v, exec'[v][j], faults')
    <2>1. CASE v = w /\ j = i
      BY <1>2, <1>4, <2>1 DEF At, TaskOf
    <2>2. CASE ~(v = w /\ j = i)
      <3>1. exec'[v][j] = exec[v][j] /\ At(v, j) # "idle" /\ TaskOf(v, j)' = TaskOf(v, j)
        BY <1>2, <1>4, <2>2 DEF At, TaskOf
      <3>2. Covered(row[TaskOf(v, j)], v, exec[v][j], faults)
        BY <3>1 DEF LeaseInv, LeasesCover
      <3>3. Covered(row'[TaskOf(v, j)], v, exec[v][j], faults')
        BY <1>1, <1>3, <3>1, <3>2, EffectCovers
      <3>4. QED
        BY <3>1, <3>3
    <2>3. QED
      BY <2>1, <2>2
  <1>5. LeasesCover'
    BY <1>4 DEF LeasesCover
  <1>6. Alone'
    BY <1>4, StillAlone DEF LeaseInv
  <1>7. QED
    BY <1>5, <1>6 DEF LeaseInv

\* A goroutine at work: its record, its task and its cover.
LEMMA AtWork ==
    ASSUME TypeOK, LeaseInv, NEW w \in Workers, NEW i \in 1..Slots, At(w, i) # "idle"
    PROVE  /\ exec[w][i] \in ExecType /\ TaskOf(w, i) \in Tasks
           /\ row[TaskOf(w, i)] \in RowType /\ faults \in 0..MaxFaults
           /\ Covered(row[TaskOf(w, i)], w, exec[w][i], faults)
  <1>1. RowsTyped /\ ThreadsTyped /\ RestTyped
    BY TypeParts
  <1>2. QED
    BY <1>1 DEF RowsTyped, ThreadsTyped, RestTyped, ExecsTyped, LeaseInv, LeasesCover

\* Marked and Renewed keep what the row of the goroutine covers.
LEMMA StatementsCover ==
    ASSUME NEW r \in RowType, NEW w \in Workers, NEW f \in 0..MaxFaults
    PROVE  /\ \A result \in Results, v \in Workers, q \in ExecType :
                  Covered(r, v, q, f) => Covered(Marked(r, result), v, q, f)
           /\ \A v \in Workers, q \in ExecType :
                  Covered(r, v, q, f) => Covered(Renewed(r, w), v, q, f)
           /\ \A v \in Workers, q \in ExecType : Covered(r, v, q, f) => Covered(r, v, q, f)
  BY MarkedCovers, RenewedCovers

(* The record of a slot without a task. *)
LEMMA IdleType == IdleExec \in ExecType /\ IdleExec.at = "idle"
  BY Numbers DEF IdleExec, ExecType

(* The upstream's answer to Create keeps the lease invariant, whether the goroutine waits or ends. *)
LEMMA CreateReturnsKeeps ==
    ASSUME TypeOK, LeaseInv, NEW w \in Workers, NEW i \in 1..Slots, CreateReturns(w, i)
    PROVE  LeaseInv'
  <1> DEFINE e == exec[w][i]
             t == TaskOf(w, i)
             q == [e EXCEPT !.at = "wait", !.due = PollGap, !.left = MaxDuration + 1]
  <1>1. At(w, i) = "create" /\ e.at = "create" /\ e.task = t
    BY DEF CreateReturns, At, TaskOf
  <1>2. /\ e \in ExecType /\ t \in Tasks /\ row[t] \in RowType /\ faults \in 0..MaxFaults
        /\ Covered(row[t], w, e, faults)
    BY <1>1, AtWork
  <1>3. PICK result \in Results : /\ Effect(t, Marked(row[t], result))
                                  /\ Becomes(w, i, q) \/ Becomes(w, i, IdleExec)
    BY <1>1 DEF CreateReturns, Ends
  <1>4. q \in ExecType /\ q.task = t
    BY <1>1, <1>2, ExecTypes DEF ExecType
  <1>5. Covered(row[t], w, q, faults)
    BY <1>1, <1>2, OnwardCovers
  <1>6. RowsTyped
    BY TypeParts
  <1> HIDE DEF e, t, q
  <1>7. \A v \in Workers, p \in ExecType :
            Covered(row[t], v, p, faults) => Covered(Marked(row[t], result), v, p, faults)
    BY <1>2, <1>3, StatementsCover
  <1>8. Covered(row'[t], w, q, faults')
    BY <1>2, <1>3, <1>4, <1>5, <1>6, <1>7, EffectCovers
  <1>9. At(w, i) # "idle"
    BY <1>1
  <1>10. CASE Becomes(w, i, q)
    BY <1>3, <1>4, <1>7, <1>8, <1>9, <1>10, StatementStep DEF t
  <1>11. CASE Becomes(w, i, IdleExec)
    BY <1>3, <1>7, <1>9, <1>11, IdleType, StatementStep DEF t
  <1>12. QED
    BY <1>3, <1>10, <1>11

(* A poll's answer keeps it, whether the goroutine waits or ends. *)
LEMMA PollAskKeeps ==
    ASSUME TypeOK, LeaseInv, NEW w \in Workers, NEW i \in 1..Slots, PollAsk(w, i)
    PROVE  LeaseInv'
  <1> DEFINE e == exec[w][i]
             t == TaskOf(w, i)
             q == [e EXCEPT !.at = "wait"]
  <1>1. At(w, i) = "ask" /\ e.at = "ask" /\ e.task = t
    BY DEF PollAsk, At, TaskOf
  <1>2. /\ e \in ExecType /\ t \in Tasks /\ row[t] \in RowType /\ faults \in 0..MaxFaults
        /\ Covered(row[t], w, e, faults)
    BY <1>1, AtWork
  <1>3. PICK result \in Results : /\ Effect(t, Marked(row[t], result))
                                  /\ Becomes(w, i, q) \/ Becomes(w, i, IdleExec)
    BY <1>1 DEF PollAsk, Ends
  <1>4. q \in ExecType /\ q.task = t
    BY <1>1, <1>2, ExecTypes DEF ExecType
  <1>5. Covered(row[t], w, q, faults)
    BY <1>1, <1>2, OnwardCovers
  <1>6. RowsTyped
    BY TypeParts
  <1> HIDE DEF e, t, q
  <1>7. \A v \in Workers, p \in ExecType :
            Covered(row[t], v, p, faults) => Covered(Marked(row[t], result), v, p, faults)
    BY <1>2, <1>3, StatementsCover
  <1>8. Covered(row'[t], w, q, faults')
    BY <1>2, <1>3, <1>4, <1>5, <1>6, <1>7, EffectCovers
  <1>9. At(w, i) # "idle"
    BY <1>1
  <1>10. CASE Becomes(w, i, q)
    BY <1>3, <1>4, <1>7, <1>8, <1>9, <1>10, StatementStep DEF t
  <1>11. CASE Becomes(w, i, IdleExec)
    BY <1>3, <1>7, <1>9, <1>11, IdleType, StatementStep DEF t
  <1>12. QED
    BY <1>3, <1>10, <1>11

(* A renewal keeps it, and so does the end of the task at its deadline. *)
LEMMA PollRenewKeeps ==
    ASSUME TypeOK, LeaseInv, NEW w \in Workers, NEW i \in 1..Slots, PollRenew(w, i)
    PROVE  LeaseInv'
  <1> DEFINE e == exec[w][i]
             t == TaskOf(w, i)
             q == [e EXCEPT !.at = "ask", !.due = PollGap]
  <1>1. At(w, i) = "renew" /\ e.at = "renew" /\ e.task = t
    BY DEF PollRenew, At, TaskOf
  <1>2. /\ e \in ExecType /\ t \in Tasks /\ row[t] \in RowType /\ faults \in 0..MaxFaults
        /\ Covered(row[t], w, e, faults)
    BY <1>1, AtWork
  <1>3. \/ Effect(t, Marked(row[t], "failed")) /\ Becomes(w, i, IdleExec)
        \/ Effect(t, Renewed(row[t], w)) /\ Becomes(w, i, q)
    BY <1>1 DEF PollRenew, Ends
  <1>4. q \in ExecType /\ q.task = t
    BY <1>1, <1>2, ExecTypes DEF ExecType
  <1>5. RowsTyped
    BY TypeParts
  <1>6. Effect(t, Renewed(row[t], w)) => Covered(row'[t], w, q, faults')
    BY <1>1, <1>2, <1>5, RenewalCovers
  <1> HIDE DEF e, t, q
  <1>7. "failed" \in Results
    BY DEF Results
  <1>8. \A v \in Workers, p \in ExecType : Covered(row[t], v, p, faults) =>
            Covered(Marked(row[t], "failed"), v, p, faults)
    BY <1>2, <1>7, StatementsCover
  <1>9. \A v \in Workers, p \in ExecType : Covered(row[t], v, p, faults) =>
            Covered(Renewed(row[t], w), v, p, faults)
    BY <1>2, StatementsCover
  <1>10. At(w, i) # "idle"
    BY <1>1
  <1>11. CASE Effect(t, Marked(row[t], "failed")) /\ Becomes(w, i, IdleExec)
    BY <1>8, <1>10, <1>11, IdleType, StatementStep DEF t
  <1>12. CASE Effect(t, Renewed(row[t], w)) /\ Becomes(w, i, q)
    BY <1>4, <1>6, <1>9, <1>10, <1>12, StatementStep DEF t
  <1>13. QED
    BY <1>3, <1>11, <1>12

\* A goroutine that only reads: it ends, or goes on.
LEMMA ReadKeeps ==
    ASSUME TypeOK, LeaseInv, NEW w \in Workers, NEW i \in 1..Slots,
           GetFails(w, i) \/ PollStops(w, i) \/ PollCheck(w, i)
    PROVE  LeaseInv'
  <1> DEFINE e == exec[w][i]
             t == TaskOf(w, i)
             q == [e EXCEPT !.at = "renew"]
  <1>1. At(w, i) # "idle" /\ e.at = At(w, i) /\ e.task = t
    BY DEF GetFails, PollStops, PollCheck, At, TaskOf
  <1>2. /\ e \in ExecType /\ t \in Tasks /\ row[t] \in RowType /\ faults \in 0..MaxFaults
        /\ Covered(row[t], w, e, faults)
    BY <1>1, AtWork
  <1>3. RowsTyped
    BY TypeParts
  <1>4. row' = row /\ (faults' = faults \/ (faults < MaxFaults /\ faults' = faults + 1))
    BY DEF GetFails, PollStops, PollCheck
  <1>5. Effect(t, row[t])
    BY <1>2, <1>3, <1>4 DEF Effect, RowsTyped
  <1>6. Becomes(w, i, IdleExec) \/ (e.at = "wait" /\ Becomes(w, i, q))
    BY DEF GetFails, PollStops, PollCheck, Ends
  <1>7. q \in ExecType /\ q.task = t
    BY <1>1, <1>2, ExecTypes DEF ExecType
  <1>8. e.at = "wait" => Covered(row[t], w, q, faults)
    BY <1>2, OnwardCovers
  <1> HIDE DEF e, t, q
  <1>9. e.at = "wait" => Covered(row'[t], w, q, faults')
    BY <1>2, <1>3, <1>5, <1>7, <1>8, EffectCovers
  <1>10. CASE Becomes(w, i, IdleExec)
    BY <1>1, <1>5, <1>10, IdleType, StatementStep DEF t
  <1>11. CASE e.at = "wait" /\ Becomes(w, i, q)
    BY <1>1, <1>5, <1>7, <1>9, <1>11, StatementStep DEF t
  <1>12. QED
    BY <1>6, <1>10, <1>11

\* The scan loop: a row that somebody may claim covers no goroutine.
LEMMA ScanKeeps ==
    ASSUME TypeOK, LeaseInv, NEW w \in Workers, ScanStep(w)
    PROVE  LeaseInv'
  <1>1. RowsTyped /\ ThreadsTyped /\ faults \in 0..MaxFaults
    BY TypeParts DEF RestTyped
  <1>2. CASE Scan(w) \/ ScanGivesUp(w)
    BY <1>2 DEF Scan, ScanGivesUp, LeaseInv, LeasesCover, Alone, At, TaskOf
  <1>3. ASSUME NEW t \in Tasks, NEW i \in 1..Slots, Claim(w, t, i) PROVE LeaseInv'
    <2> DEFINE q == [task |-> t, at |-> "create", due |-> CreateMax, left |-> 0]
               r == [row[t] EXCEPT !.status = "running", !.owner = w, !.lease = Lease + 1]
    <2>1. CASE ~Claimable(row[t]) /\ UNCHANGED <<row, exec, faults>>
      BY <2>1 DEF LeaseInv, LeasesCover, Alone, At, TaskOf
    <2>2. CASE Claimable(row[t]) /\ row' = [row EXCEPT ![t] = r]
      <3>1. row[t] \in RowType /\ exec[w][i] \in ExecType
        BY <1>1 DEF RowsTyped, ThreadsTyped
      <3>2. ASSUME NEW v \in Workers, NEW j \in 1..Slots, At(v, j) # "idle"
            PROVE  /\ exec[v][j] \in ExecType /\ TaskOf(v, j) \in Tasks
                   /\ Covered(row[TaskOf(v, j)], v, exec[v][j], faults)
        BY <3>2, AtWork
      <3>3. ASSUME NEW v \in Workers, NEW j \in 1..Slots, At(v, j) # "idle"
            PROVE  TaskOf(v, j) # t
        <4>1. Lost(exec[v][j], faults) \in Nat
          BY <1>1 DEF Lost
        <4>2. Slack(Lost(exec[v][j], faults)) \in Nat
          BY <4>1, SlackSteps
        <4>3. exec[v][j].due \in Nat /\ row[t].lease \in Nat
          BY <3>1, <3>2, <3>3, Numbers DEF ExecType, RowType
        <4>4. QED
          BY <2>2, <3>2, <3>3, <4>2, <4>3 DEF Covered, Claimable
      <3>4. ASSUME NEW v \in Workers, NEW j \in 1..Slots, At(v, j) # "idle"
            PROVE  row'[TaskOf(v, j)] = row[TaskOf(v, j)]
        BY <1>1, <2>2, <3>3, <3>4 DEF RowsTyped
      <3>5. CASE UNCHANGED exec /\ faults < MaxFaults /\ faults' = faults + 1
        <4>1. ASSUME NEW v \in Workers, NEW j \in 1..Slots, At(v, j) # "idle"
              PROVE  Covered(row'[TaskOf(v, j)], v, exec[v][j], faults')
          <5>1. row[TaskOf(v, j)] \in RowType
            BY <1>1, <3>2, <4>1 DEF RowsTyped
          <5>2. QED
            BY <1>1, <3>2, <3>4, <3>5, <4>1, <5>1, FaultCovers
        <4>2. QED
          BY <3>5, <4>1 DEF LeaseInv, LeasesCover, Alone, At, TaskOf
      <3>6. CASE Becomes(w, i, q) /\ UNCHANGED faults
        <4>1. \A v \in Workers, j \in 1..Slots :
                  exec'[v][j] = IF v = w /\ j = i THEN q ELSE exec[v][j]
          BY <1>1, <3>6, OthersStay
        <4>2. q.task = t /\ q.at = "create" /\ q.due = CreateMax
          OBVIOUS
        <4>3. r.status = "running" /\ r.owner = w /\ r.lease = Lease + 1 /\ row'[t] = r
          BY <1>1, <2>2, <3>1 DEF RowsTyped, RowType
        <4> HIDE DEF q, r
        <4>4. Lease + 1 > CreateMax + Slack(MaxFaults - faults + 1)
          BY <1>1, FreshLease
        <4>5. Covered(row'[t], w, q, faults)
          BY <4>2, <4>3, <4>4 DEF Covered, Lost
        <4>6. LeasesCover'
          BY <3>2, <3>4, <3>6, <4>1, <4>2, <4>5 DEF LeasesCover, At, TaskOf
        <4>7. Alone'
          <5> SUFFICES ASSUME NEW u \in Workers, NEW v \in Workers,
                              NEW j \in 1..Slots, NEW k \in 1..Slots,
                              At(u, j)' # "idle", At(v, k)' # "idle",
                              TaskOf(u, j)' = TaskOf(v, k)'
                       PROVE  u = v /\ j = k
            BY DEF Alone, At, TaskOf
          <5>1. CASE u = w /\ j = i
            BY <3>3, <4>1, <4>2, <5>1 DEF At, TaskOf
          <5>2. CASE v = w /\ k = i
            BY <3>3, <4>1, <4>2, <5>2 DEF At, TaskOf
          <5>3. CASE ~(u = w /\ j = i) /\ ~(v = w /\ k = i)
            BY <4>1, <5>3 DEF LeaseInv, Alone, At, TaskOf
          <5>4. QED
            BY <5>1, <5>2, <5>3
        <4>8. QED
          BY <4>6, <4>7 DEF LeaseInv
      <3>7. QED
        BY <1>3, <2>2, <3>5, <3>6 DEF Claim
    <2>3. QED
      BY <1>3, <2>1, <2>2 DEF Claim
  <1>4. QED
    BY <1>2, <1>3 DEF ScanStep

(* The user's operations only end leases: the owner stays, no goroutine is told, and a row that ended is covered. *)
LEMMA UserKeeps == ASSUME TypeOK, LeaseInv, UserStep PROVE LeaseInv'
  <1>1. RowsTyped
    BY TypeParts
  <1>2. PICK t \in Tasks : Create(t) \/ Cancel(t) \/ Delete(t)
    BY DEF UserStep, Retry
  <1>3. UNCHANGED <<exec, faults>>
    BY <1>2 DEF Create, Cancel, Delete
  <1>4. ASSUME NEW u \in Tasks, NEW w \in Workers, NEW e, Covered(row[u], w, e, faults)
        PROVE  Covered(row'[u], w, e, faults)
    <2>1. CASE u # t
      BY <1>1, <1>2, <1>4, <2>1 DEF RowsTyped, Create, Cancel, Delete
    <2>2. CASE u = t
      <3>1. ~Create(t)
        BY <1>4, <2>2 DEF Covered, Create
      <3>2. row[t] \in RowType
        BY <1>1 DEF RowsTyped
      <3>3. row'[t] \in {Ended(row[t], "canceled"), [Ended(row[t], "deleted") EXCEPT !.url = FALSE]}
        BY <1>1, <1>2, <3>1 DEF RowsTyped, Cancel, Delete
      <3>4. /\ Ended(row[t], "canceled").status = "canceled"
            /\ [Ended(row[t], "deleted") EXCEPT !.url = FALSE].status = "deleted"
        BY <3>2 DEF RowType, Ended
      <3>5. QED
        BY <2>2, <3>3, <3>4 DEF Covered
    <2>3. QED
      BY <2>1, <2>2
  <1>5. ASSUME NEW w \in Workers, NEW i \in 1..Slots, At(w, i) # "idle"
        PROVE  Covered(row'[TaskOf(w, i)], w, exec[w][i], faults)
    BY <1>4, <1>5, AtWork
  <1>6. QED
    BY <1>3, <1>5 DEF LeaseInv, LeasesCover, Alone, At, TaskOf

(* A shutdown signal leaves rows and goroutines alone and uses up a fault. *)
LEMMA StopKeeps == ASSUME TypeOK, LeaseInv, NEW w \in Workers, Stop(w) PROVE LeaseInv'
  <1>1. ASSUME NEW v \in Workers, NEW i \in 1..Slots, At(v, i) # "idle"
        PROVE  Covered(row[TaskOf(v, i)], v, exec[v][i], faults + 1)
    BY <1>1, AtWork, FaultCovers DEF Stop
  <1>2. UNCHANGED <<row, exec>> /\ faults' = faults + 1
    BY DEF Stop
  <1>3. QED
    BY <1>1, <1>2 DEF LeaseInv, LeasesCover, Alone, At, TaskOf

(* A process that starts again has idle slots, and its old rows belong to nobody. *)
LEMMA RestartKeeps == ASSUME TypeOK, LeaseInv, NEW w \in Workers, Restart(w) PROVE LeaseInv'
  <1>1. RowsTyped /\ ThreadsTyped
    BY TypeParts
  <1>2. exec' = [exec EXCEPT ![w] = [i \in 1..Slots |-> IdleExec]]
    BY DEF Restart
  <1>3. ASSUME NEW v \in Workers, NEW i \in 1..Slots, At(v, i)' # "idle"
        PROVE  v # w /\ exec'[v][i] = exec[v][i] /\ At(v, i) # "idle" /\ TaskOf(v, i)' = TaskOf(v, i)
    <2>1. v # w
      BY <1>1, <1>2, <1>3, IdleType DEF ThreadsTyped, At
    <2>2. exec'[v][i] = exec[v][i]
      BY <1>1, <1>2, <2>1 DEF ThreadsTyped
    <2>3. QED
      BY <1>3, <2>1, <2>2 DEF At, TaskOf
  <1>4. ASSUME NEW v \in Workers, NEW i \in 1..Slots, At(v, i)' # "idle"
        PROVE  Covered(row'[TaskOf(v, i)], v, exec[v][i], faults')
    <2> DEFINE t == TaskOf(v, i)
    <2>1. /\ t \in Tasks /\ row[t] \in RowType /\ exec[v][i] \in ExecType
          /\ faults \in 0..MaxFaults /\ Covered(row[t], v, exec[v][i], faults)
      BY <1>3, <1>4, AtWork
    <2>2. Covered(row[t], v, exec[v][i], faults')
      BY <2>1, FaultCovers DEF Restart
    <2>3. row'[t] = IF row[t].owner = w THEN [row[t] EXCEPT !.owner = NoWorker] ELSE row[t]
      BY <2>1 DEF Restart
    <2>4. v # w
      BY <1>3, <1>4
    <2> HIDE DEF t
    <2>5. QED
      BY <2>1, <2>2, <2>3, <2>4 DEF Covered, RowType, t
  <1>5. LeasesCover'
    BY <1>3, <1>4 DEF LeasesCover
  <1>6. Alone'
    BY <1>3, StillAlone DEF LeaseInv
  <1>7. QED
    BY <1>5, <1>6 DEF LeaseInv

(* The passing of time leaves the place and the task of a goroutine alone. *)
LEMMA TickFields ==
    ASSUME NEW q \in ExecType
    PROVE  LET p == [q EXCEPT !.due = Less(@), !.left = Less(@)]
           IN p.at = q.at /\ p.task = q.task /\ p.due = Less(q.due) /\ q.due \in Nat
  BY Numbers DEF ExecType

\* While the clock waits for every goroutine, lease and wait shrink together.
LEMMA TickKeeps == ASSUME Punctual, TypeOK, LeaseInv, Tick PROVE LeaseInv'
  <1>1. RowsTyped /\ ThreadsTyped
    BY TypeParts
  <1>2. ASSUME NEW w \in Workers, NEW i \in 1..Slots
        PROVE  /\ exec[w][i] \in ExecType
               /\ exec'[w][i] = [exec[w][i] EXCEPT !.due = Less(@), !.left = Less(@)]
    BY <1>1 DEF ThreadsTyped, Tick
  <1>3. ASSUME NEW w \in Workers, NEW i \in 1..Slots
        PROVE  /\ exec'[w][i].at = exec[w][i].at /\ exec'[w][i].task = exec[w][i].task
               /\ exec'[w][i].due = Less(exec[w][i].due)
    BY <1>2, TickFields
  <1>4. ASSUME NEW w \in Workers, NEW i \in 1..Slots, At(w, i) # "idle"
        PROVE  Covered(row'[TaskOf(w, i)], w, exec'[w][i], faults)
    <2> DEFINE t == TaskOf(w, i)
    <2>1. /\ t \in Tasks /\ row[t] \in RowType /\ faults \in 0..MaxFaults
          /\ Covered(row[t], w, exec[w][i], faults)
      BY <1>4, AtWork
    <2>2. exec[w][i].due > 0
      <3>1. <<w, i>> \in Threads /\ Busy(<<w, i>>)
        BY <1>4 DEF Threads, Busy, At
      <3>2. exec[<<w, i>>[1]][<<w, i>>[2]].due > 0
        BY <3>1 DEF Tick
      <3>3. QED
        BY <3>2
    <2>3. row'[t] = [row[t] EXCEPT !.lease = Less(@)]
      BY <2>1 DEF Tick
    <2>4. /\ row'[t].status = row[t].status /\ row'[t].owner = row[t].owner
          /\ row'[t].lease = Less(row[t].lease)
      BY <2>1, <2>3 DEF RowType
    <2>5. Lost(exec'[w][i], faults) = Lost(exec[w][i], faults)
      BY <1>3 DEF Lost
    <2>6. Lost(exec[w][i], faults) \in Nat
      BY <2>1 DEF Lost
    <2>7. Slack(Lost(exec[w][i], faults)) \in Nat
      BY <2>6, SlackSteps
    <2>8. exec[w][i].due \in Nat /\ row[t].lease \in Nat
      <3>1. exec[w][i].due \in Nat
        BY <1>2, TickFields
      <3>2. row[t].lease \in 0..(Lease + 1)
        BY <2>1 DEF RowType
      <3>3. QED
        BY <3>1, <3>2, Numbers
    <2> HIDE DEF t
    <2>9. Less(exec[w][i].due) = exec[w][i].due - 1
      BY <2>2, <2>8 DEF Less
    <2>10. ASSUME row[t].lease > exec[w][i].due + Slack(Lost(exec[w][i], faults))
           PROVE  Less(row[t].lease) > Less(exec[w][i].due) + Slack(Lost(exec[w][i], faults))
      BY <2>7, <2>8, <2>9, <2>10 DEF Less
    <2>11. QED
      BY <1>3, <2>1, <2>4, <2>5, <2>10 DEF Covered, t
  <1>5. faults' = faults
    BY DEF Tick
  <1>6. LeasesCover'
    BY <1>3, <1>4, <1>5 DEF LeasesCover, At, TaskOf
  <1>7. Alone'
    BY <1>3, StillAlone DEF LeaseInv, At, TaskOf
  <1>8. QED
    BY <1>6, <1>7 DEF LeaseInv

-----------------------------------------------------------------------------
(* Theorems                                                                *)

(* Nothing is leased initially. *)
LEMMA InitLease == Init => LeaseInv
  BY DEF Init, LeaseInv, LeasesCover, Alone, At, IdleExec

(* The lease invariant is inductive when no process is suspended. *)
LEMMA NextLease == Punctual /\ TypeOK /\ LeaseInv /\ [Next]_vars => LeaseInv'
  <1> SUFFICES ASSUME Punctual, TypeOK, LeaseInv, [Next]_vars PROVE LeaseInv'
    OBVIOUS
  <1>1. CASE UNCHANGED vars
    BY <1>1 DEF vars, LeaseInv, LeasesCover, Alone, At, TaskOf
  <1>2. ASSUME NEW w \in Workers, NEW i \in 1..Slots, ExecStep(w, i) PROVE LeaseInv'
    BY <1>2, CreateReturnsKeeps, PollAskKeeps, PollRenewKeeps, ReadKeeps DEF ExecStep
  <1>3. QED
    BY <1>1, <1>2, UserKeeps, ScanKeeps, StopKeeps, RestartKeeps, TickKeeps DEF Next

\* No two goroutines run the same task, if no process is suspended beyond the
\* times of its calls.
THEOREM SingleExecutorCorrect == ASSUME Punctual PROVE Spec => []SingleExecutor
  <1>1. Init => TypeOK /\ LeaseInv
    BY InitTypes, InitLease
  <1>2. TypeOK /\ LeaseInv /\ [Next]_vars => (TypeOK /\ LeaseInv)'
    BY NextTypes, NextLease
  <1>3. LeaseInv => SingleExecutor
    BY ThreadForms DEF LeaseInv
  <1>4. QED
    BY <1>1, <1>2, <1>3, PTL DEF Spec

\* The status of a row after Marked and Renewed.
LEMMA MarkedStatus ==
    ASSUME NEW r \in RowType, NEW w \in Workers
    PROVE  /\ Marked(r, "progress").status = r.status
           /\ r.status = "running" => Marked(r, "started").status = "running"
           /\ Renewed(r, w).status = r.status
  BY DEF RowType, Marked, Written, Renewed

\* A task is ended by one goroutine that is at work on it, and that ends.
LEMMA EndedByExec ==
    ASSUME TypeOK, NEW w \in Workers, NEW i \in 1..Slots, ExecStep(w, i), NEW t \in Tasks,
           row[t].status = "running", row'[t].status \in {"completed", "failed"}
    PROVE  At(w, i) # "idle" /\ TaskOf(w, i) = t /\ Ends(w, i)
  <1>1. RowsTyped /\ row[t] \in RowType
    BY TypeParts DEF RowsTyped
  <1>2. row' # row
    OBVIOUS
  <1>3. ASSUME NEW u, NEW r, Effect(u, r) PROVE u = t /\ row'[t] = r
    BY <1>1, <1>2, <1>3 DEF Effect, RowsTyped
  <1>4. CASE CreateReturns(w, i)
    <2>1. PICK result \in Results \ {"progress"} :
              /\ Effect(exec[w][i].task, Marked(row[exec[w][i].task], result))
              /\ result # "started" => Ends(w, i)
      BY <1>4 DEF CreateReturns
    <2>2. exec[w][i].task = t /\ row'[t] = Marked(row[exec[w][i].task], result)
      BY <1>3, <2>1
    <2>3. result # "started"
      BY <1>1, <2>2, MarkedStatus
    <2>4. QED
      BY <1>4, <2>1, <2>2, <2>3 DEF CreateReturns, At, TaskOf
  <1>5. CASE PollAsk(w, i)
    <2>1. PICK result \in Results :
              /\ Effect(exec[w][i].task, Marked(row[exec[w][i].task], result))
              /\ result # "progress" => Ends(w, i)
      BY <1>5 DEF PollAsk
    <2>2. exec[w][i].task = t /\ row'[t] = Marked(row[exec[w][i].task], result)
      BY <1>3, <2>1
    <2>3. result # "progress"
      BY <1>1, <2>2, MarkedStatus
    <2>4. QED
      BY <1>5, <2>1, <2>2, <2>3 DEF PollAsk, At, TaskOf
  <1>6. CASE PollRenew(w, i)
    <2>1. CASE Effect(exec[w][i].task, Renewed(row[exec[w][i].task], w))
      <3>1. exec[w][i].task = t /\ row'[t] = Renewed(row[exec[w][i].task], w)
        BY <1>3, <2>1
      <3>2. QED
        BY <1>1, <3>1, MarkedStatus
    <2>2. CASE Effect(exec[w][i].task, Marked(row[exec[w][i].task], "failed")) /\ Ends(w, i)
      <3>1. exec[w][i].task = t
        BY <1>3, <2>2
      <3>2. QED
        BY <1>6, <2>2, <3>1 DEF PollRenew, At, TaskOf
    <2>3. QED
      BY <1>6, <2>1, <2>2 DEF PollRenew
  <1>7. CASE GetFails(w, i) \/ PollCheck(w, i) \/ PollStops(w, i)
    BY <1>2, <1>7 DEF GetFails, PollCheck, PollStops
  <1>8. QED
    BY <1>4, <1>5, <1>6, <1>7 DEF ExecStep

\* No step but a goroutine's ends a task.
LEMMA EndedOnlyByExec ==
    ASSUME TypeOK, [Next]_vars, NEW t \in Tasks,
           row[t].status = "running", row'[t].status \in {"completed", "failed"}
    PROVE  \E w \in Workers, i \in 1..Slots : ExecStep(w, i)
  <1>1. RowsTyped /\ row[t] \in RowType
    BY TypeParts DEF RowsTyped
  <1>2. ASSUME UserStep PROVE FALSE
    <2>1. PICK u \in Tasks : Create(u) \/ Cancel(u) \/ Delete(u)
      BY <1>2 DEF UserStep, Retry
    <2>2. row'[t] \in {row[t], Ended(row[t], "canceled"),
                       [Ended(row[t], "deleted") EXCEPT !.url = FALSE]}
      BY <1>1, <2>1 DEF RowsTyped, Create, Cancel, Delete
    <2>3. /\ Ended(row[t], "canceled").status = "canceled"
          /\ [Ended(row[t], "deleted") EXCEPT !.url = FALSE].status = "deleted"
      BY <1>1 DEF RowType, Ended
    <2>4. QED
      BY <2>2, <2>3
  <1>3. ASSUME NEW w \in Workers, ScanStep(w) \/ Stop(w) \/ Restart(w) \/ Tick \/ UNCHANGED vars
        PROVE  FALSE
    <2>1. row'[t] \in {row[t], [row[t] EXCEPT !.owner = NoWorker],
                       [row[t] EXCEPT !.lease = Less(@)],
                       [row[t] EXCEPT !.status = "running", !.owner = w, !.lease = Lease + 1]}
      BY <1>1, <1>3 DEF RowsTyped, ScanStep, Scan, ScanGivesUp, Claim, Stop, Restart, Tick, vars
    <2>2. /\ [row[t] EXCEPT !.owner = NoWorker].status = "running"
          /\ [row[t] EXCEPT !.lease = Less(@)].status = "running"
          /\ [row[t] EXCEPT !.status = "running", !.owner = w, !.lease = Lease + 1].status
                = "running"
      BY <1>1 DEF RowType
    <2>3. QED
      BY <2>1, <2>2
  <1>4. CASE Tick \/ UNCHANGED vars
    <2>1. row'[t] \in {row[t], [row[t] EXCEPT !.lease = Less(@)]}
      BY <1>4 DEF Tick, vars
    <2>2. [row[t] EXCEPT !.lease = Less(@)].status = "running"
      BY <1>1 DEF RowType
    <2>3. QED
      BY <2>1, <2>2
  <1>5. QED
    BY <1>2, <1>3, <1>4 DEF Next

\* The goroutine that ends a task is one of the worker that holds its lease.
THEOREM OwnerFinishesCorrect == ASSUME Punctual PROVE Spec => OwnerFinishes
  <1> DEFINE Ending(t) == row[t].status = "running" /\ row'[t].status \in {"completed", "failed"}
             ByOwner(t) == /\ row[t].owner \in Workers
                           /\ \E i \in 1..Slots : /\ exec[row[t].owner][i].task = t
                                                  /\ exec'[row[t].owner][i].task = NoTask
  <1>1. Init => TypeOK /\ LeaseInv
    BY InitTypes, InitLease
  <1>2. TypeOK /\ LeaseInv /\ [Next]_vars => (TypeOK /\ LeaseInv)'
    BY NextTypes, NextLease
  <1>3. TypeOK /\ LeaseInv /\ [Next]_vars => \A t \in Tasks : Ending(t) => ByOwner(t)
    <2> SUFFICES ASSUME TypeOK, LeaseInv, [Next]_vars, NEW t \in Tasks, Ending(t)
                 PROVE  ByOwner(t)
      OBVIOUS
    <2>1. PICK w \in Workers, i \in 1..Slots : ExecStep(w, i)
      BY EndedOnlyByExec
    <2>2. At(w, i) # "idle" /\ TaskOf(w, i) = t /\ Ends(w, i)
      BY <2>1, EndedByExec
    <2>3. row[t].owner = w
      BY <2>2, AtWork DEF Covered
    <2>4. exec'[w][i].task = NoTask
      BY <2>2, TypeParts DEF ThreadsTyped, Ends, Becomes, IdleExec
    <2>5. QED
      BY <2>2, <2>3, <2>4 DEF TaskOf
  <1>4. TypeOK /\ LeaseInv /\ [Next]_vars => [\A t \in Tasks : Ending(t) => ByOwner(t)]_vars
    BY <1>3
  <1> QED
    BY <1>1, <1>2, <1>4, PTL DEF Spec, OwnerFinishes
=============================================================================
