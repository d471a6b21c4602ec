------------------------------ MODULE VideoTasks ------------------------------
(***************************************************************************)
(* The queue of asynchronous video tasks: the video_tasks table            *)
(* (services/video_task_service.go), the workers that scan it, claim a     *)
(* task with a lease and run it (services/video_task_worker.go), and the   *)
(* users who submit, cancel, retry and delete (handler/video_task_handler  *)
(* .go).  Every instance of the gateway runs one worker; all of them work  *)
(* on the same table, whose conditional UPDATEs are the only coordination. *)
(*                                                                         *)
(* Time is discrete.  A lease and a deadline are kept as the ticks they    *)
(* have left, so that time needs no bound.  A step that must be over       *)
(* within some time (the HTTP timeouts of Create and Poll, the ticker of   *)
(* the poll loop) holds the clock back while Punctual.                     *)
(***************************************************************************)
EXTENDS Integers, FiniteSets

CONSTANTS
    Tasks,       \* ids of tasks
    Workers,     \* instances of the gateway
    NoWorker,    \* an owner that no living worker has
    NoTask,      \* the task of an idle goroutine
    Slots,       \* concurrency: goroutines of one worker
    Lease,       \* leaseTTL
    CreateMax,   \* longest Create call
    PollGap,     \* longest time between two renewals of a poll loop
    MaxDuration, \* maxDuration of a poll loop
    MaxFaults,   \* bound on crashes, shutdowns and failed statements
    Punctual     \* no process is suspended beyond these times

ASSUME VideoAssumption ==
    /\ NoWorker \notin Workers /\ NoTask \notin Tasks
    /\ Slots \in Nat \ {0}
    /\ {Lease, CreateMax, PollGap, MaxDuration} \subseteq Nat \ {0}
    /\ MaxFaults \in Nat
    /\ Punctual \in BOOLEAN
    /\ CreateMax + (MaxFaults + 1) * PollGap <= Lease

VARIABLES
    row,     \* the rows of video_tasks
    batch,   \* what each worker's scan found and has not tried yet
    exec,    \* the goroutines of each worker
    state,   \* each worker: "up", or "stopping" once stopCh is closed
    faults   \* how many faults there were

vars == <<row, batch, exec, state, faults>>

Threads == Workers \X (1..Slots)

-----------------------------------------------------------------------------
(* The table                                                               *)

\* "deleted": gorm's soft delete hides the row from every statement.
Statuses ==
    {"absent", "pending", "running", "completed", "failed", "canceled", "deleted"}

\* lease: ticks until lease_expires < now holds, 0 when it does; job: whether
\* upstream_task_id is set.
RowType == [status : Statuses, owner : Workers \cup {NoWorker},
            lease : 0..(Lease + 1), job : BOOLEAN, url : BOOLEAN]
NoRow == [status |-> "absent", owner |-> NoWorker, lease |-> 0, job |-> FALSE,
          url |-> FALSE]

Live(r) == r.status \notin {"absent", "deleted"}

\* Mutant: a running task is claimable whatever its lease.
ClaimableAlways(r) == r.status \in {"pending", "running"}

\* Mutant: an expired lease is not looked for.
ClaimablePending(r) == r.status = "pending"

\* What FindClaimable returns and Claim takes.
Claimable(r) == \/ r.status = "pending"
                \/ r.status = "running" /\ r.lease = 0

\* No statement reads these columns of a row that is not running.
Ended(r, status) ==
    [r EXCEPT !.status = status, !.owner = NoWorker, !.lease = 0, !.job = FALSE]

Results == {"completed", "failed", "started", "progress"}
Written(r, result) ==
    CASE result = "progress"  -> r
      [] result = "started"   -> [r EXCEPT !.job = TRUE]
      [] result = "failed"    -> Ended(r, "failed")
      [] result = "completed" -> [Ended(r, "completed") EXCEPT !.url = TRUE]

\* Mutant: the result is written whatever the status.
MarkedAlways(r, result) == IF Live(r) THEN Written(r, result) ELSE r

\* MarkCompleted, MarkFailed and UpdateProgress touch a running row only.
Marked(r, result) == IF r.status = "running" THEN Written(r, result) ELSE r

\* Mutant: the lease is never renewed.
RenewedNever(r, w) == r

\* Mutant: the lease is prolonged, not counted from now.
RenewedAdds(r, w) ==
    IF r.status = "running" /\ r.owner = w THEN [r EXCEPT !.lease = @ + Lease + 1] ELSE r

\* RenewLease.
Renewed(r, w) ==
    IF r.status = "running" /\ r.owner = w THEN [r EXCEPT !.lease = Lease + 1] ELSE r

-----------------------------------------------------------------------------
(* Users                                                                   *)

Create(t) ==
    /\ row[t].status = "absent"
    /\ row' = [row EXCEPT ![t] = [NoRow EXCEPT !.status = "pending"]]
    /\ UNCHANGED <<batch, exec, state, faults>>

\* Retry clones a failed or canceled task into a new row.
Retry(s, t) == row[s].status \in {"failed", "canceled"} /\ Create(t)

\* Cancel has no condition on the status.
Cancel(t) ==
    /\ Live(row[t])
    /\ row' = [row EXCEPT ![t] = Ended(@, "canceled")]
    /\ UNCHANGED <<batch, exec, state, faults>>

Delete(t) ==
    /\ Live(row[t])
    /\ row' = [row EXCEPT ![t] = [Ended(@, "deleted") EXCEPT !.url = FALSE]]
    /\ UNCHANGED <<batch, exec, state, faults>>

-----------------------------------------------------------------------------
(* The scan loop of a worker                                               *)

\* due: ticks within which the goroutine takes its next step; left: ticks
\* until the deadline of its poll loop.
ExecType == [task : Tasks \cup {NoTask},
             at : {"idle", "create", "wait", "renew", "ask"},
             due : 0..(CreateMax + PollGap), left : 0..(MaxDuration + 1)]
IdleExec == [task |-> NoTask, at |-> "idle", due |-> 0, left |-> 0]

Busy(x) == exec[x[1]][x[2]].at # "idle"
Becomes(w, i, e) == exec' = [exec EXCEPT ![w] = [@ EXCEPT ![i] = e]]

\* processOnce begins: FindClaimable returns as many as there are slots.  It
\* may still begin when stopCh is closed: select takes either ready channel.
Scan(w) ==
    /\ batch[w] = {}
    /\ LET found == {t \in Tasks : Claimable(row[t])}
       IN \E ids \in SUBSET found :
              /\ ids # {}
              /\ \/ ids = found /\ Cardinality(found) <= Slots
                 \/ Cardinality(ids) = Slots
              /\ batch' = [batch EXCEPT ![w] = ids]
    /\ UNCHANGED <<row, exec, state, faults>>

\* No free slot: the rest of the batch is left to the next scan.
ScanGivesUp(w) ==
    /\ batch[w] # {}
    /\ \A i \in 1..Slots : Busy(<<w, i>>)
    /\ batch' = [batch EXCEPT ![w] = {}]
    /\ UNCHANGED <<row, exec, state, faults>>

\* Claim: one conditional UPDATE; on success a goroutine runs execute in the
\* free slot, whose Get finds the row unless it is deleted first.  When the
\* answer to the UPDATE is lost, the row is claimed and nobody runs it.
Claim(w, t, i) ==
    /\ t \in batch[w] /\ ~Busy(<<w, i>>)
    /\ batch' = [batch EXCEPT ![w] = @ \ {t}]
    /\ \/ /\ ~Claimable(row[t]) /\ UNCHANGED <<row, exec, faults>>
       \/ /\ Claimable(row[t])
          /\ row' = [row EXCEPT ![t] = [@ EXCEPT !.status = "running",
                                            !.owner = w, !.lease = Lease + 1]]
          /\ \/ /\ Becomes(w, i, [task |-> t, at |-> "create",
                                   due |-> CreateMax, left |-> 0])
                /\ UNCHANGED faults
             \/ /\ faults < MaxFaults /\ faults' = faults + 1 /\ UNCHANGED exec
    /\ UNCHANGED state

-----------------------------------------------------------------------------
(* The goroutine that runs a task                                          *)

Ends(w, i) == Becomes(w, i, IdleExec)

\* A statement takes effect, or fails; its error is ignored.
Effect(t, r) ==
    \/ row' = [row EXCEPT ![t] = r] /\ UNCHANGED faults
    \/ faults < MaxFaults /\ faults' = faults + 1 /\ UNCHANGED row

\* Create returns an error, a failure, a video, or a job to poll.  (One
\* without an id is polled like one whose UpdateProgress failed.)
CreateReturns(w, i) ==
    LET e == exec[w][i]
    IN /\ e.at = "create"
       /\ \E result \in Results \ {"progress"} :
              /\ Effect(e.task, Marked(row[e.task], result))
              /\ IF result = "started"
                 THEN Becomes(w, i, [e EXCEPT !.at = "wait", !.due = PollGap,
                                              !.left = MaxDuration + 1])
                 ELSE Ends(w, i)
       /\ UNCHANGED <<batch, state>>

\* The task was deleted before Get: the goroutine returns.
GetFails(w, i) ==
    /\ exec[w][i].at = "create" /\ row[exec[w][i].task].status = "deleted"
    /\ Ends(w, i)
    /\ UNCHANGED <<row, batch, state, faults>>

\* A round of pollUntilDone: IsCanceled, which says no when it cannot read.
PollCheck(w, i) ==
    LET e == exec[w][i]
    IN /\ e.at = "wait"
       /\ \/ /\ row[e.task].status = "canceled"
             /\ Ends(w, i) /\ UNCHANGED faults
          \/ /\ row[e.task].status # "canceled"
             /\ Becomes(w, i, [e EXCEPT !.at = "renew"]) /\ UNCHANGED faults
          \/ /\ faults < MaxFaults /\ faults' = faults + 1
             /\ Becomes(w, i, [e EXCEPT !.at = "renew"])
       /\ UNCHANGED <<row, batch, state>>

\* stopCh is closed: the loop returns and leaves its task to the lease.
PollStops(w, i) ==
    /\ exec[w][i].at = "wait" /\ state[w] = "stopping"
    /\ Ends(w, i)
    /\ UNCHANGED <<row, batch, state, faults>>

\* Past the deadline the task fails; before it the lease is renewed.
PollRenew(w, i) ==
    LET e == exec[w][i]
    IN /\ e.at = "renew"
       /\ IF e.left = 0
          THEN Effect(e.task, Marked(row[e.task], "failed")) /\ Ends(w, i)
          ELSE /\ Effect(e.task, Renewed(row[e.task], w))
               /\ Becomes(w, i, [e EXCEPT !.at = "ask", !.due = PollGap])
       /\ UNCHANGED <<batch, state>>

\* Poll answers: an error and "in progress" lead to the next round.
PollAsk(w, i) ==
    LET e == exec[w][i]
    IN /\ e.at = "ask"
       /\ \E result \in Results \ {"started"} :
              /\ Effect(e.task, Marked(row[e.task], result))
              /\ IF result = "progress" THEN Becomes(w, i, [e EXCEPT !.at = "wait"])
                 ELSE Ends(w, i)
       /\ UNCHANGED <<batch, state>>

-----------------------------------------------------------------------------
(* Shutdown, crash, time                                                   *)

\* Stop closes stopCh: the scan loop and the poll loops return when they see it.
Stop(w) ==
    /\ state[w] = "up" /\ faults < MaxFaults /\ faults' = faults + 1
    /\ state' = [state EXCEPT ![w] = "stopping"]
    /\ UNCHANGED <<row, batch, exec>>

\* The process ends, by itself or because it waited long enough for Stop, and
\* starts again with a new owner id: its rows belong to nobody any more.
Restart(w) ==
    /\ \/ state[w] = "stopping" /\ UNCHANGED faults
       \/ state[w] = "up" /\ faults < MaxFaults /\ faults' = faults + 1
    /\ state' = [state EXCEPT ![w] = "up"]
    /\ batch' = [batch EXCEPT ![w] = {}]
    /\ exec' = [exec EXCEPT ![w] = [i \in 1..Slots |-> IdleExec]]
    /\ row' = [t \in Tasks |-> IF row[t].owner = w
                               THEN [row[t] EXCEPT !.owner = NoWorker] ELSE row[t]]

Less(n) == IF n = 0 THEN 0 ELSE n - 1

\* Time passes, but while Punctual not beyond what a goroutine may take.
Tick ==
    /\ Punctual => \A x \in Threads : Busy(x) => exec[x[1]][x[2]].due > 0
    /\ row' = [t \in Tasks |-> [row[t] EXCEPT !.lease = Less(@)]]
    /\ exec' = [w \in Workers |-> [i \in 1..Slots |->
                  [exec[w][i] EXCEPT !.due = Less(@), !.left = Less(@)]]]
    /\ UNCHANGED <<batch, state, faults>>

-----------------------------------------------------------------------------
Init ==
    /\ row = [t \in Tasks |-> NoRow]
    /\ batch = [w \in Workers |-> {}]
    /\ exec = [w \in Workers |-> [i \in 1..Slots |-> IdleExec]]
    /\ state = [w \in Workers |-> "up"]
    /\ faults = 0

ExecStep(w, i) == \/ CreateReturns(w, i) \/ GetFails(w, i) \/ PollCheck(w, i)
                  \/ PollStops(w, i) \/ PollRenew(w, i) \/ PollAsk(w, i)
ScanStep(w) == \/ Scan(w) \/ ScanGivesUp(w)
               \/ \E t \in Tasks, i \in 1..Slots : Claim(w, t, i)
UserStep == \E t \in Tasks : Create(t) \/ Cancel(t) \/ Delete(t) \/ \E s \in Tasks : Retry(s, t)

Next ==
    \/ UserStep
    \/ \E w \in Workers : \/ ScanStep(w) \/ Stop(w) \/ Restart(w)
                          \/ \E i \in 1..Slots : ExecStep(w, i)
    \/ Tick

Spec == Init /\ [][Next]_vars

\* The loops of a living process go on, a process that was stopped is started
\* again, and time passes.  Users do nothing they do not want to.
Fairness ==
    /\ \A w \in Workers : /\ WF_vars(ScanStep(w))
                          /\ WF_vars(Restart(w) /\ state[w] = "stopping")
                          /\ \A i \in 1..Slots : WF_vars(ExecStep(w, i))
    /\ WF_vars(Tick)
FairSpec == Spec /\ Fairness

-----------------------------------------------------------------------------
(* Properties                                                              *)

TypeOK ==
    /\ row \in [Tasks -> RowType]
    /\ batch \in [Workers -> SUBSET Tasks]
    /\ exec \in [Workers -> [1..Slots -> ExecType]]
    /\ \A x \in Threads : Busy(x) => exec[x[1]][x[2]].task \in Tasks
    /\ state \in [Workers -> {"up", "stopping"}]
    /\ faults \in 0..MaxFaults

\* No two goroutines, of one worker or of two, run the same task, even while
\* workers crash, tasks are cancelled and renewals fail: a lease outlives every
\* wait of the goroutine that holds it (video_task_service.go:105).
SingleExecutor ==
    \A x, y \in Threads : Busy(x) /\ Busy(y) /\ x # y =>
        exec[x[1]][x[2]].task # exec[y[1]][y[2]].task

\* The result of a task is written by the goroutine of the worker that holds
\* its lease, though MarkCompleted and MarkFailed do not ask for the owner
\* (video_task_service.go:141, 155).
OwnerFinishes ==
    [][\A t \in Tasks :
          row[t].status = "running" /\ row'[t].status \in {"completed", "failed"} =>
             /\ row[t].owner \in Workers
             /\ \E i \in 1..Slots : /\ exec[row[t].owner][i].task = t
                                    /\ exec'[row[t].owner][i].task = NoTask]_vars

\* The user's view: no statement of a worker brings back what was canceled,
\* takes a video away or changes a result (video_task_service.go:127, 139).
SeenRow(r) == [status |-> r.status, url |-> r.url]
Seen == [t \in Tasks |-> SeenRow(row[t])]
Life == INSTANCE VideoLife WITH life <- Seen
ImplementsLife == Life!LifeSpec

\* A task whose upstream job is known is not submitted to the upstream again,
\* which would be charged twice (models/types.go:396).  It is: a goroutine
\* that takes a task over starts with Create whatever upstream_task_id says.
SubmittedOnce ==
    [][\A w \in Workers, i \in 1..Slots :
          exec[w][i].at = "idle" /\ exec'[w][i].at = "create" =>
             ~row[exec'[w][i].task].job]_vars

\* Every task that is submitted ends, is canceled or deleted: a task whose
\* worker crashed is claimed again, and one that its upstream never answers
\* fails at the deadline.
EveryTaskEnds ==
    \A t \in Tasks : row[t].status = "pending" ~>
        row[t].status \in {"completed", "failed", "canceled", "deleted"}
=============================================================================
