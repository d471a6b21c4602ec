------------------------------ MODULE Services ------------------------------
(* The services around the request path, each a module of its own. They share no variable,
   so a behaviour of the whole is an interleaving of behaviours of its parts, and no
   property below speaks of two of them: one part moves in a behaviour, the rest stay as
   they began. *)
EXTENDS RequestLog, MeshJoin, TaskSlot, CacheSync, RateLedger, CronCheck, GroupAdmin,
        AliasAdmin, RouterEngine, Backup, StreamRelay, KeyMigration

VARIABLE focus    \* the part that moves

Part == {"logs", "joins", "tasks", "caches", "limits", "checks", "groups", "aliases",
         "routes", "backups", "streams", "migration"}

vars == <<logVars, joinVars, taskVars, cacheVars, rateVars, cronVars, groupVars, aliasVars,
          routerVars, backupVars, streamVars, migrationVars, focus>>

\* The parts that rest begin in one way of those that they may begin in.
ServicesInit ==
    /\ focus \in Part
    /\ LogInit /\ JoinInit /\ TaskInit /\ CacheInit /\ RateInit /\ CronInit /\ GroupInit
    /\ AliasInit /\ RouterInit /\ BackupInit /\ StreamInit /\ MigrationInit
    /\ focus # "logs" => direct
    /\ focus # "tasks" => inMemory
    /\ focus # "caches" => running = CHOOSE on \in Running : TRUE
    /\ focus # "aliases" => aliasId = 0
    /\ focus # "streams" => way = CHOOSE w \in Way : TRUE
    /\ focus # "migration" => secret = NoSecret /\ DOMAIN keyRows = {}

LogMove ==
    /\ focus = "logs" /\ LogNext
    /\ UNCHANGED <<joinVars, taskVars, cacheVars, rateVars, cronVars, groupVars,
                   aliasVars, routerVars, backupVars, streamVars, migrationVars, focus>>

JoinMove ==
    /\ focus = "joins" /\ JoinNext
    /\ UNCHANGED <<logVars, taskVars, cacheVars, rateVars, cronVars, groupVars,
                   aliasVars, routerVars, backupVars, streamVars, migrationVars, focus>>

TaskMove ==
    /\ focus = "tasks" /\ TaskNext
    /\ UNCHANGED <<logVars, joinVars, cacheVars, rateVars, cronVars, groupVars,
                   aliasVars, routerVars, backupVars, streamVars, migrationVars, focus>>

CacheMove ==
    /\ focus = "caches" /\ CacheNext
    /\ UNCHANGED <<logVars, joinVars, taskVars, rateVars, cronVars, groupVars,
                   aliasVars, routerVars, backupVars, streamVars, migrationVars, focus>>

RateMove ==
    /\ focus = "limits" /\ RateNext
    /\ UNCHANGED <<logVars, joinVars, taskVars, cacheVars, cronVars, groupVars,
                   aliasVars, routerVars, backupVars, streamVars, migrationVars, focus>>

CronMove ==
    /\ focus = "checks" /\ CronNext
    /\ UNCHANGED <<logVars, joinVars, taskVars, cacheVars, rateVars, groupVars,
                   aliasVars, routerVars, backupVars, streamVars, migrationVars, focus>>

GroupMove ==
    /\ focus = "groups" /\ GroupNext
    /\ UNCHANGED <<logVars, joinVars, taskVars, cacheVars, rateVars, cronVars,
                   aliasVars, routerVars, backupVars, streamVars, migrationVars, focus>>

AliasMove ==
    /\ focus = "aliases" /\ AliasNext
    /\ UNCHANGED <<logVars, joinVars, taskVars, cacheVars, rateVars, cronVars,
                   groupVars, routerVars, backupVars, streamVars, migrationVars, focus>>

RouterMove ==
    /\ focus = "routes" /\ RouterNext
    /\ UNCHANGED <<logVars, joinVars, taskVars, cacheVars, rateVars, cronVars,
                   groupVars, aliasVars, backupVars, streamVars, migrationVars, focus>>

BackupMove ==
    /\ focus = "backups" /\ BackupNext
    /\ UNCHANGED <<logVars, joinVars, taskVars, cacheVars, rateVars, cronVars,
                   groupVars, aliasVars, routerVars, streamVars, migrationVars, focus>>

StreamMove ==
    /\ focus = "streams" /\ StreamNext
    /\ UNCHANGED <<logVars, joinVars, taskVars, cacheVars, rateVars, cronVars,
                   groupVars, aliasVars, routerVars, backupVars, migrationVars, focus>>

MigrationMove ==
    /\ focus = "migration" /\ MigrationNext
    /\ UNCHANGED <<logVars, joinVars, taskVars, cacheVars, rateVars, cronVars,
                   groupVars, aliasVars, routerVars, backupVars, streamVars, focus>>

ServicesNext ==
    \/ LogMove \/ JoinMove \/ TaskMove \/ CacheMove \/ RateMove \/ CronMove
    \/ GroupMove \/ AliasMove \/ RouterMove \/ BackupMove \/ StreamMove \/ MigrationMove

\* An instance flushes at every tick and goes on with a flush it has begun; of the tasks
\* that have a process some goes on, and the time to live of a status passes
\* (request_log_service.go, task_service.go).
ServicesFairness ==
    /\ \A i \in Flusher : WF_logVars(focus = "logs" /\ (FlushStarts(i) \/ FlushSteps(i)))
    /\ WF_taskVars(focus = "tasks" /\ \E t \in Task : TaskSteps(t))
    /\ WF_taskVars(focus = "tasks" /\ SlotExpires)

Spec == ServicesInit /\ [][ServicesNext]_vars /\ ServicesFairness

--------------------------------------------------------------------------
(* Properties *)

\* Every variable of the part that moves has its type; the others stay as they began.
ServicesTypeOK ==
    CASE focus = "logs" -> LogTypeOK
      [] focus = "joins" -> JoinTypeOK
      [] focus = "tasks" -> TaskTypeOK
      [] focus = "caches" -> CacheTypeOK
      [] focus = "limits" -> RateTypeOK
      [] focus = "checks" -> CronTypeOK
      [] focus = "groups" -> GroupTypeOK
      [] focus = "aliases" -> AliasTypeOK
      [] focus = "routes" -> RouterTypeOK
      [] focus = "backups" -> BackupTypeOK
      [] focus = "streams" -> StreamTypeOK
      [] focus = "migration" -> MigrationTypeOK

\* What administrators do to groups and to aliases at the same time keeps both sound.
AdminSound == GroupsSound /\ AliasesSound

=============================================================================
