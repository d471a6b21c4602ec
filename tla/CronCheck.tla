----------------------------- MODULE CronCheck -----------------------------
(* The periodic check of invalid keys, keypool/cron_checker.go: at every tick the master
   probes the invalid keys of a group whose last validation is older than its interval,
   except those that still back off after several failed probes. What it remembers of a
   key lives in memory and survives everything but a restart and a successful probe. *)
EXTENDS Naturals

CONSTANTS CronKey,    \* keys of one group
          Hour,       \* ticks of an hour
          Interval,   \* ticks of key_validation_interval_minutes
          MaxCronFaults, MaxRestores   \* bounds: failed queries, keys restored by hand

ASSUME CronAssumption == Hour \in Nat \ {0} /\ Interval \in Nat /\ MaxCronFaults \in Nat

VARIABLES broken,      \* per key: whether the database has it as invalid
          works,       \* per key: whether its upstream would accept it
          failedProbes,\* per key: consecutive failed probes, 0 without an entry
          sinceProbe,  \* per key: ticks since the last failed probe of its entry
          sinceCheck,  \* ticks since last_validated_at of the group
          ready,       \* per key: ticks for which it has been invalid and accepted
          due,         \* the check of this tick is still to be made
          cronFaults, restores

cronVars == <<broken, works, failedProbes, sinceProbe, sinceCheck, ready, due, cronFaults, restores>>

Grace == 3
\* Mutant: the exponent is not limited, only the delay.
Backoff_Long(n) == LET d == 2 ^ (n - Grace) * Hour IN IF d > 24 * Hour THEN 24 * Hour ELSE d
Backoff(n) == LET exponent == IF n - Grace > 4 THEN 4 ELSE n - Grace
                  delay == 2 ^ exponent * Hour
              IN  IF delay > 24 * Hour THEN 24 * Hour ELSE delay

Longest == 24 * Hour + Interval + MaxCronFaults + 2   \* bound of the clocks
Later(n) == IF n < Longest THEN n + 1 ELSE n
MostProbes == Grace + 6                               \* bound of the counted failures

CronTypeOK ==
    /\ broken \in [CronKey -> BOOLEAN] /\ works \in [CronKey -> BOOLEAN]
    /\ failedProbes \in [CronKey -> 0 .. MostProbes]
    /\ sinceProbe \in [CronKey -> 0 .. Longest] /\ ready \in [CronKey -> 0 .. Longest]
    /\ sinceCheck \in 0 .. Longest /\ due \in BOOLEAN

CronInit ==
    /\ broken = [k \in CronKey |-> FALSE]
    /\ works = [k \in CronKey |-> TRUE]
    /\ failedProbes = [k \in CronKey |-> 0]
    /\ sinceProbe = [k \in CronKey |-> 0] /\ ready = sinceProbe
    /\ sinceCheck = Longest
    /\ due = TRUE
    /\ cronFaults = 0 /\ restores = 0

\* shouldSkipByBackoff
Skipped(k) == failedProbes[k] >= Grace /\ sinceProbe[k] < Backoff(failedProbes[k])

Candidates == {k \in CronKey : broken[k] /\ ~Skipped(k)}

--------------------------------------------------------------------------

TimePasses ==
    /\ ~due /\ due' = TRUE
    /\ sinceCheck' = Later(sinceCheck)
    /\ sinceProbe' = [k \in CronKey |-> Later(sinceProbe[k])]
    /\ ready' = [k \in CronKey |-> IF broken[k] /\ works[k] THEN Later(ready[k]) ELSE 0]
    /\ UNCHANGED <<broken, works, failedProbes, cronFaults, restores>>

CheckDue == sinceCheck > Interval

NothingDue ==
    /\ due /\ ~CheckDue
    /\ due' = FALSE
    /\ UNCHANGED <<broken, works, failedProbes, sinceProbe, sinceCheck, ready, cronFaults, restores>>

\* validateGroupKeys: a probed key that its upstream accepts is active again.
Validates ==
    /\ due /\ CheckDue
    /\ due' = FALSE
    /\ broken' = [k \in CronKey |-> broken[k] /\ ~(k \in Candidates /\ works[k])]
    /\ failedProbes' = [k \in CronKey |->
            IF k \notin Candidates THEN failedProbes[k]
            ELSE IF works[k] THEN 0
            ELSE IF failedProbes[k] < MostProbes THEN failedProbes[k] + 1 ELSE MostProbes]
    /\ sinceProbe' = [k \in CronKey |-> IF k \in Candidates THEN 0 ELSE sinceProbe[k]]
    /\ ready' = [k \in CronKey |-> IF broken'[k] THEN ready[k] ELSE 0]
    /\ sinceCheck' = 0
    /\ UNCHANGED <<works, cronFaults, restores>>

\* The groups or the keys cannot be read: the next tick tries again.
QueryFails ==
    /\ due /\ cronFaults < MaxCronFaults
    /\ cronFaults' = cronFaults + 1
    /\ due' = FALSE
    /\ UNCHANGED <<broken, works, failedProbes, sinceProbe, sinceCheck, ready, restores>>

--------------------------------------------------------------------------

UpstreamChanges(k) ==
    /\ works' = [works EXCEPT ![k] = ~@]
    /\ ready' = [ready EXCEPT ![k] = 0]
    /\ UNCHANGED <<broken, failedProbes, sinceProbe, sinceCheck, due, cronFaults, restores>>

\* Requests of clients fail with the key until it is taken out (keypool/provider.go).
KeyBreaks(k) ==
    /\ ~broken[k] /\ ~works[k]
    /\ broken' = [broken EXCEPT ![k] = TRUE]
    /\ UNCHANGED <<works, failedProbes, sinceProbe, sinceCheck, ready, due, cronFaults, restores>>

\* An administrator restores the key; the entry of the checker stays as it is.
RestoredByHand(k) ==
    /\ broken[k] /\ restores < MaxRestores
    /\ restores' = restores + 1
    /\ broken' = [broken EXCEPT ![k] = FALSE]
    /\ ready' = [ready EXCEPT ![k] = 0]
    /\ UNCHANGED <<works, failedProbes, sinceProbe, sinceCheck, due, cronFaults>>

\* The memory of the checker is lost, and Start checks at once.
CheckerRestarts ==
    /\ failedProbes' = [k \in CronKey |-> 0]
    /\ due' = TRUE
    /\ UNCHANGED <<broken, works, sinceProbe, sinceCheck, ready, cronFaults, restores>>

CronNext ==
    \/ TimePasses \/ NothingDue \/ Validates \/ QueryFails \/ CheckerRestarts
    \/ \E k \in CronKey : UpstreamChanges(k) \/ KeyBreaks(k) \/ RestoredByHand(k)

--------------------------------------------------------------------------
(* Properties *)

\* However often a key failed before, and whatever the checker still remembers of it: a key
\* that its upstream accepts is out of use for sixteen hours and one interval at most, and
\* a tick for every query that failed (shouldSkipByBackoff, recordBackoffResult).
WorkingKeyReturns ==
    \A k \in CronKey : broken[k] /\ works[k] =>
        ready[k] <= 16 * Hour + Interval + cronFaults
=============================================================================
