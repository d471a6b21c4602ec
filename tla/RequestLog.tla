----------------------------- MODULE RequestLog -----------------------------
(* The buffer of request logs, services/request_log_service.go. Record puts the body of
   a log into the store and its name into a set of pending logs; the instances flush the
   set to the database in batches, rows and statistics in one transaction. With the
   interval set to 0 a log is written at once. *)
EXTENDS Naturals, FiniteSets

CONSTANTS Log,           \* logs, one per request
          Business,      \* those that count in the hourly statistics (not retries, not tests)
          Flusher,       \* instances that flush the shared store
          BatchSize,     \* 200 in the code
          Patience,      \* failed flushes after which a body has outlived its time, 5 in the code
          MaxLogFaults, MaxModeChanges, MaxLogCrashes   \* bounds

ASSUME RequestLogAssumption ==
    /\ Business \subseteq Log
    /\ BatchSize \in Nat \ {0} /\ Patience \in Nat \ {0}

VARIABLES recorded,  \* per log: "no", "body" between the two writes of Record, "yes", "failed"
          bodies,    \* logs whose body is in the store
          pending,   \* logs in the set of pending logs
          flushAt,     \* per instance: where its flush is
          popped,    \* per instance: the names it took from the set
          loaded,    \* per instance: those among them whose body it read
          rows,      \* per log: rows in request_logs
          hourly,    \* the counters of group_hourly_stats, summed
          missed,    \* per log: failed flushes that it waited through
          dropped,   \* logs a flush let go: unread, not put back, or in its hands at a crash
          direct,    \* the interval is 0
          logFaults, modeChanges, logCrashes

logVars == <<recorded, bodies, pending, flushAt, popped, loaded, rows, hourly, missed, dropped,
             direct, logFaults, modeChanges, logCrashes>>
logStore == <<bodies, pending>>
logTables == <<rows, hourly>>
flushing == <<flushAt, popped, loaded>>
logBounds == <<direct, logFaults, modeChanges, logCrashes>>

LogTypeOK ==
    /\ recorded \in [Log -> {"no", "body", "yes", "failed"}]
    /\ bodies \subseteq Log /\ pending \subseteq Log
    /\ flushAt \in [Flusher -> {"idle", "pop", "load", "write", "readd", "delete"}]
    /\ popped \in [Flusher -> SUBSET Log]
    /\ \A i \in Flusher : loaded[i] \subseteq popped[i] /\ Cardinality(popped[i]) <= BatchSize
    /\ rows \in [Log -> Nat] /\ hourly \in Nat /\ missed \in [Log -> 0 .. Patience]
    /\ dropped \subseteq Log /\ direct \in BOOLEAN

LogInit ==
    /\ recorded = [l \in Log |-> "no"]
    /\ bodies = {} /\ pending = {}
    /\ flushAt = [i \in Flusher |-> "idle"]
    /\ popped = [i \in Flusher |-> {}] /\ loaded = popped
    /\ rows = [l \in Log |-> 0] /\ hourly = 0
    /\ missed = [l \in Log |-> 0] /\ dropped = {}
    /\ direct \in BOOLEAN
    /\ logFaults = 0 /\ modeChanges = 0 /\ logCrashes = 0

LogFault == logFaults < MaxLogFaults /\ logFaults' = logFaults + 1
            /\ UNCHANGED <<direct, modeChanges, logCrashes>>

\* writeLogsToDB: one transaction for the rows and the counters.
Written(logs) ==
    /\ rows' = [l \in Log |-> IF l \in logs THEN rows[l] + 1 ELSE rows[l]]
    /\ hourly' = hourly + Cardinality(logs \cap Business)

--------------------------------------------------------------------------
(* Record *)

RecordDirect(l) ==
    /\ recorded[l] = "no" /\ direct
    /\ \/ /\ recorded' = [recorded EXCEPT ![l] = "yes"]
          /\ Written({l})
          /\ UNCHANGED logBounds
       \/ /\ recorded' = [recorded EXCEPT ![l] = "failed"]
          /\ LogFault
          /\ UNCHANGED logTables
    /\ UNCHANGED <<logStore, flushing, missed, dropped>>

RecordBody(l) ==
    /\ recorded[l] = "no" /\ ~direct
    /\ \/ /\ recorded' = [recorded EXCEPT ![l] = "body"]
          /\ bodies' = bodies \cup {l}
          /\ UNCHANGED logBounds
       \/ /\ recorded' = [recorded EXCEPT ![l] = "failed"]
          /\ LogFault
          /\ UNCHANGED bodies
    /\ UNCHANGED <<pending, flushing, logTables, missed, dropped>>

RecordPending(l) ==
    /\ recorded[l] = "body"
    /\ \/ /\ recorded' = [recorded EXCEPT ![l] = "yes"]
          /\ pending' = pending \cup {l}
          /\ UNCHANGED logBounds
       \/ /\ recorded' = [recorded EXCEPT ![l] = "failed"]
          /\ LogFault
          /\ UNCHANGED pending
    /\ UNCHANGED <<bodies, flushing, logTables, missed, dropped>>

--------------------------------------------------------------------------
(* flush, at the start, at every tick of the interval and at the stop of an instance *)

FlushStarts(i) ==
    /\ flushAt[i] = "idle" /\ ~direct
    /\ flushAt' = [flushAt EXCEPT ![i] = "pop"]
    /\ UNCHANGED <<recorded, logStore, popped, loaded, logTables, missed, dropped, logBounds>>

\* Mutant: the names are read and stay in the set.
Taken_Stays(S) == pending
Taken(S) == pending \ S

\* SPopN takes some names, as many as a batch holds. The flush ends when there are none, or
\* when they cannot be taken.
FlushPops(i) ==
    /\ flushAt[i] = "pop"
    /\ \/ /\ (pending = {} /\ UNCHANGED logBounds) \/ LogFault
          /\ flushAt' = [flushAt EXCEPT ![i] = "idle"]
          /\ popped' = [popped EXCEPT ![i] = {}]
          /\ UNCHANGED pending
       \/ \E S \in SUBSET pending \ {{}} :
            /\ Cardinality(S) = IF Cardinality(pending) < BatchSize
                                THEN Cardinality(pending) ELSE BatchSize
            /\ pending' = Taken(S)
            /\ popped' = [popped EXCEPT ![i] = S]
            /\ flushAt' = [flushAt EXCEPT ![i] = "load"]
            /\ UNCHANGED logBounds
    /\ loaded' = [loaded EXCEPT ![i] = {}]
    /\ UNCHANGED <<recorded, bodies, logTables, missed, dropped>>

\* The bodies are fetched; one that cannot be read is passed over like one that is gone. A
\* batch without any goes on with the next.
FlushLoads(i) ==
    /\ flushAt[i] = "load"
    /\ \E unread \in SUBSET (popped[i] \cap bodies) :
         /\ loaded' = [loaded EXCEPT ![i] = (popped[i] \cap bodies) \ unread]
         /\ flushAt' = [flushAt EXCEPT ![i] = IF popped[i] \cap bodies = unread THEN "pop" ELSE "write"]
         /\ dropped' = dropped \cup unread
         /\ IF unread = {} THEN UNCHANGED logBounds ELSE LogFault
    /\ UNCHANGED <<recorded, logStore, popped, logTables, missed>>

FlushWrites(i) ==
    /\ flushAt[i] = "write"
    /\ \/ /\ Written(loaded[i])
          /\ flushAt' = [flushAt EXCEPT ![i] = "delete"]
          /\ UNCHANGED <<missed, logBounds>>
       \/ /\ flushAt' = [flushAt EXCEPT ![i] = "readd"]
          /\ missed' = [l \in Log |-> IF l \in popped[i] /\ missed[l] < Patience
                                      THEN missed[l] + 1 ELSE missed[l]]
          /\ LogFault
          /\ UNCHANGED logTables
    /\ UNCHANGED <<recorded, logStore, popped, loaded, dropped>>

\* Mutant: a batch that failed is not put back.
PutBack_Nothing(i) == pending
PutBack(i) == pending \cup popped[i]

FlushReadds(i) ==
    /\ flushAt[i] = "readd"
    /\ flushAt' = [flushAt EXCEPT ![i] = "idle"]
    /\ \/ pending' = PutBack(i) /\ UNCHANGED <<dropped, logBounds>>
       \/ dropped' = dropped \cup popped[i] /\ LogFault /\ UNCHANGED pending
    /\ UNCHANGED <<recorded, bodies, popped, loaded, logTables, missed>>

\* Bodies that are not deleted disappear when their time is over.
FlushDeletes(i) ==
    /\ flushAt[i] = "delete"
    /\ flushAt' = [flushAt EXCEPT ![i] = "pop"]
    /\ \/ bodies' = bodies \ loaded[i] /\ UNCHANGED logBounds
       \/ LogFault /\ UNCHANGED bodies
    /\ UNCHANGED <<recorded, pending, popped, loaded, logTables, missed, dropped>>

--------------------------------------------------------------------------

\* The time of a body is over: it waited through failed flushes, or nobody flushes it.
BodyExpires(l) ==
    /\ l \in bodies /\ recorded[l] # "body"
    /\ missed[l] >= Patience \/ (l \notin pending /\ \A i \in Flusher : l \notin popped[i]) \/ direct
    /\ bodies' = bodies \ {l}
    /\ UNCHANGED <<recorded, pending, flushing, logTables, missed, dropped, logBounds>>

SetInterval ==
    /\ modeChanges < MaxModeChanges
    /\ modeChanges' = modeChanges + 1
    /\ direct' = ~direct
    /\ UNCHANGED <<recorded, logStore, flushing, logTables, missed, dropped, logFaults, logCrashes>>

\* An instance dies; another flush begins when it is back.
FlusherCrashes(i) ==
    /\ logCrashes < MaxLogCrashes
    /\ flushAt[i] # "idle"
    /\ logCrashes' = logCrashes + 1
    /\ dropped' = dropped \cup popped[i]
    /\ flushAt' = [flushAt EXCEPT ![i] = "idle"]
    /\ popped' = [popped EXCEPT ![i] = {}]
    /\ loaded' = [loaded EXCEPT ![i] = {}]
    /\ UNCHANGED <<recorded, logStore, logTables, missed, direct, logFaults, modeChanges>>

FlushSteps(i) ==
    FlushPops(i) \/ FlushLoads(i) \/ FlushWrites(i) \/ FlushReadds(i) \/ FlushDeletes(i)

LogNext ==
    \/ \E l \in Log : RecordDirect(l) \/ RecordBody(l) \/ RecordPending(l) \/ BodyExpires(l)
    \/ \E i \in Flusher : FlushStarts(i) \/ FlushSteps(i) \/ FlusherCrashes(i)
    \/ SetInterval

--------------------------------------------------------------------------
(* Properties *)

\* Whatever two instances flush at the same time, fails and is flushed again, a log is one
\* row at most and the hourly counters are those of the rows (SPopN, writeLogsToDB).
LogsCountedOnce ==
    /\ \A l \in Log : rows[l] <= 1
    /\ hourly = Cardinality({l \in Business : rows[l] = 1})

\* In the end every log that was recorded is in the database, however flushes and their
\* failures overlap; excepted are the very logs that a flush dropped or whose body outlived
\* its time, and those a switched-off buffer leaves behind (flush).
LogsAreWritten ==
    <>[](\A l \in Log : recorded[l] = "yes" =>
            rows[l] = 1 \/ l \in dropped \/ missed[l] = Patience \/ direct)
=============================================================================
