----------------------------- MODULE RateLedger -----------------------------
(* The limits per minute and per day of a key, ratelimit/ledger.go, as SelectKey of
   keypool/provider.go uses them: a request looks at the counters of a key (Allow) and adds
   itself (Record) in separate calls of the store, each in the window of its own moment. *)
EXTENDS Naturals, FiniteSets

CONSTANTS Asker,        \* requests at the same time
          LimitedKey,   \* keys of the group
          RPM, RPD,     \* limits; 0 is none
          MaxMinutes, MaxLedgerFaults, MaxCool, MaxAsks   \* bounds

ASSUME RateLedgerAssumption == RPM \in Nat /\ RPD \in Nat /\ IsFiniteSet(Asker)

VARIABLES minute, day,   \* per key: the counters of this minute and of this day
          lentMinute, lentDay,   \* per key: requests that Allow let pass, by the window of Record
          cooled,        \* keys with a cooldown mark
          ask,           \* per request: step, key, keys seen, cooled key remembered
          asks, minutes, ledgerFaults, cools

rateVars == <<minute, day, lentMinute, lentDay, cooled, ask, asks, minutes, ledgerFaults,
              cools>>

Counters == [LimitedKey -> Nat]
NoKey == "none"
Idle == [at |-> "idle", key |-> NoKey, seen |-> {}, fallback |-> NoKey]

RateTypeOK ==
    /\ minute \in Counters /\ day \in Counters /\ lentMinute \in Counters /\ lentDay \in Counters
    /\ cooled \subseteq LimitedKey
    /\ \A a \in Asker : /\ ask[a].at \in {"idle", "rotate", "day", "minute+", "day+"}
                        /\ ask[a].seen \subseteq LimitedKey
                        /\ ask[a].key \in LimitedKey \cup {NoKey}
                        /\ ask[a].fallback \in ask[a].seen \cup {NoKey}

RateInit ==
    /\ minute = [k \in LimitedKey |-> 0] /\ day = minute
    /\ lentMinute = minute /\ lentDay = minute
    /\ cooled = {}
    /\ ask = [a \in Asker |-> Idle]
    /\ asks = 0 /\ minutes = 0 /\ ledgerFaults = 0 /\ cools = 0

AskGoes(a, now) == ask' = [ask EXCEPT ![a] = now]
LedgerFault == ledgerFaults < MaxLedgerFaults /\ ledgerFaults' = ledgerFaults + 1
Add(counter, k) == [counter EXCEPT ![k] = @ + 1]

\* Mutant: the limit itself is still below the limit.
Spent_TooLate(n, limit) == limit > 0 /\ n > limit
Spent(n, limit) == limit > 0 /\ n >= limit

Asks(a) ==
    /\ ask[a].at = "idle" /\ a = CHOOSE b \in Asker : ask[b].at = "idle"
    /\ asks < MaxAsks
    /\ asks' = asks + 1
    /\ AskGoes(a, [Idle EXCEPT !.at = "rotate"])
    /\ UNCHANGED <<minute, day, lentMinute, lentDay, cooled, minutes, ledgerFaults, cools>>

\* The next key: a cooled one is remembered; then the counter of the minute decides. A
\* counter that cannot be read lets the request pass.
Rotates(a) ==
    /\ ask[a].at = "rotate"
    /\ \E k \in LimitedKey \ ask[a].seen :
         LET next == [ask[a] EXCEPT !.seen = @ \cup {k}] IN
         \/ /\ k \in cooled
            /\ AskGoes(a, [next EXCEPT !.fallback = IF @ = NoKey THEN k ELSE @])
            /\ UNCHANGED ledgerFaults
         \/ /\ k \notin cooled
            /\ \/ /\ AskGoes(a, IF Spent(minute[k], RPM) THEN next
                                ELSE [next EXCEPT !.at = "day", !.key = k])
                  /\ UNCHANGED ledgerFaults
               \/ /\ AskGoes(a, [next EXCEPT !.at = "minute+", !.key = k])
                  /\ LedgerFault
    /\ UNCHANGED <<minute, day, lentMinute, lentDay, cooled, asks, minutes, cools>>

ReadsDay(a) ==
    /\ ask[a].at = "day"
    /\ \/ /\ AskGoes(a, IF Spent(day[ask[a].key], RPD) THEN [ask[a] EXCEPT !.at = "rotate"]
                        ELSE [ask[a] EXCEPT !.at = "minute+"])
          /\ UNCHANGED ledgerFaults
       \/ AskGoes(a, [ask[a] EXCEPT !.at = "minute+"]) /\ LedgerFault
    /\ UNCHANGED <<minute, day, lentMinute, lentDay, cooled, asks, minutes, cools>>

\* No key passed: the first cooled one is lent, whatever its counters say, or none.
Exhausted(a) ==
    /\ ask[a].at = "rotate" /\ ask[a].seen = LimitedKey
    /\ AskGoes(a, IF ask[a].fallback = NoKey THEN Idle
                  ELSE [ask[a] EXCEPT !.at = "minute+", !.key = ask[a].fallback])
    /\ UNCHANGED <<minute, day, lentMinute, lentDay, cooled, asks, minutes, ledgerFaults, cools>>

Passed(a) == ask[a].key # ask[a].fallback

\* Record stops at the first counter that cannot be raised; the key is lent all the same.
RecordsMinute(a) ==
    /\ ask[a].at = "minute+"
    /\ lentMinute' = IF Passed(a) THEN Add(lentMinute, ask[a].key) ELSE lentMinute
    /\ \/ /\ minute' = IF RPM > 0 THEN Add(minute, ask[a].key) ELSE minute
          /\ AskGoes(a, [ask[a] EXCEPT !.at = "day+"])
          /\ UNCHANGED <<lentDay, ledgerFaults>>
       \/ /\ LedgerFault
          /\ lentDay' = IF Passed(a) THEN Add(lentDay, ask[a].key) ELSE lentDay
          /\ AskGoes(a, Idle)
          /\ UNCHANGED minute
    /\ UNCHANGED <<day, cooled, asks, minutes, cools>>

RecordsDay(a) ==
    /\ ask[a].at = "day+"
    /\ lentDay' = IF Passed(a) THEN Add(lentDay, ask[a].key) ELSE lentDay
    /\ \/ /\ day' = IF RPD > 0 THEN Add(day, ask[a].key) ELSE day
          /\ UNCHANGED ledgerFaults
       \/ LedgerFault /\ UNCHANGED day
    /\ AskGoes(a, Idle)
    /\ UNCHANGED <<minute, lentMinute, cooled, asks, minutes, cools>>

\* The counters of another minute have other names; some minutes begin a day.
MinutePasses ==
    /\ minutes < MaxMinutes
    /\ minutes' = minutes + 1
    /\ minute' = [k \in LimitedKey |-> 0] /\ lentMinute' = minute'
    /\ \/ UNCHANGED <<day, lentDay>>
       \/ day' = minute' /\ lentDay' = minute'
    /\ UNCHANGED <<cooled, ask, asks, ledgerFaults, cools>>

CoolDownChanges(k) ==
    /\ \/ k \notin cooled /\ cools < MaxCool /\ cools' = cools + 1 /\ cooled' = cooled \cup {k}
       \/ k \in cooled /\ cooled' = cooled \ {k} /\ UNCHANGED cools
    /\ UNCHANGED <<minute, day, lentMinute, lentDay, ask, asks, minutes, ledgerFaults>>

RateNext ==
    \/ \E a \in Asker : \/ Asks(a) \/ Rotates(a) \/ ReadsDay(a) \/ Exhausted(a)
                        \/ RecordsMinute(a) \/ RecordsDay(a)
    \/ MinutePasses
    \/ \E k \in LimitedKey : CoolDownChanges(k)

--------------------------------------------------------------------------
(* Properties *)

\* Requests that look at the same time may all pass: within a window a key is lent beyond
\* its limit, but never by more than the others under way and the calls of the store that
\* failed; a key that is lent as the cooled fallback is outside of this (Allow, Record).
OvershootBounded ==
    LET bound(limit) == limit + Cardinality(Asker) - 1 + ledgerFaults IN
    \A k \in LimitedKey : /\ RPM > 0 => lentMinute[k] <= bound(RPM)
                          /\ RPD > 0 => lentDay[k] <= bound(RPD)
=============================================================================
