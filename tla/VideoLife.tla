------------------------------ MODULE VideoLife ------------------------------
(***************************************************************************)
(* What a user may rely on for a video task, whatever the workers do: a    *)
(* task that was taken keeps running until it ends, a result is final, and *)
(* a canceled task is never brought back.  VideoTasks implements it.       *)
(***************************************************************************)
CONSTANTS Tasks

VARIABLE life  \* what the user sees of each task

\* A task as the queue shows it: its status, and whether it has a video.
View == [status : {"absent", "pending", "running", "completed", "failed", "canceled",
                   "deleted"},
         url : BOOLEAN]

Shown(t) == life[t].status \notin {"absent", "deleted"}
Becomes(t, v) == life' = [life EXCEPT ![t] = v]

Submit(t) ==
    /\ life[t].status = "absent"
    /\ Becomes(t, [status |-> "pending", url |-> FALSE])

Take(t) ==
    /\ life[t].status = "pending"
    /\ Becomes(t, [life[t] EXCEPT !.status = "running"])

Finish(t) ==
    /\ life[t].status = "running"
    /\ \/ Becomes(t, [status |-> "completed", url |-> TRUE])
       \/ Becomes(t, [life[t] EXCEPT !.status = "failed"])

\* The user may cancel a task at any time, also one that has ended.
CancelTask(t) == Shown(t) /\ Becomes(t, [life[t] EXCEPT !.status = "canceled"])

Remove(t) == Shown(t) /\ Becomes(t, [status |-> "deleted", url |-> FALSE])

LifeInit ==
    life = [t \in Tasks |-> [status |-> "absent", url |-> FALSE]]
LifeNext ==
    \E t \in Tasks : Submit(t) \/ Take(t) \/ Finish(t) \/ CancelTask(t) \/ Remove(t)
LifeSpec == LifeInit /\ [][LifeNext]_life
=============================================================================
