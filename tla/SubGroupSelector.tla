-------------------------- MODULE SubGroupSelector --------------------------
(***************************************************************************)
(* The selector of one aggregate group: smooth weighted round robin over   *)
(* its sub-groups, priority tiers, latency-adjusted weights and a circuit   *)
(* breaker per sub-group (services/subgroup_manager.go,                     *)
(* failover/cooldown.go).                                                   *)
(*                                                                         *)
(* A selection holds selector.mu while it loops; `sel` is that selection   *)
(* and its holder, so sel = Nobody says that the mutex is free.  Keys are   *)
(* not under this mutex: they come and go while a selection loops.  The     *)
(* clock is read under it, once per selection, so a cooldown is kept as the *)
(* time it has left and time passes only while the mutex is free.           *)
(***************************************************************************)
EXTENDS Integers, FiniteSets, FiniteSetsExt, Functions

CONSTANTS
    SubGroups,          \* positions of the sub-groups in selector.subGroups
    Callers,            \* requests that may ask for a selection
    Configs,            \* configurations: weight and priority of each sub-group,
                        \* where a smaller priority is served first
    Latencies,          \* response times that RecordLatency is given
    ServerBase, ServerMax,              \* breaker ladder for 5xx errors
    TransientDefault, TransientMax,     \* cooldown of a rate limit, and its cap
    ExhaustedDefault, PaymentCooldown,  \* cooldown of a daily limit, of a 402
    RetryAfters,        \* values of the Retry-After header; 0 when there is none
    MaxHits             \* failures after which the ladder rises no more (4)

\* GroupManager loads only the rows with weight > 0 (group_manager.go:54).
ASSUME SelectorAssumption ==
    /\ SubGroups \subseteq Nat \ {0} /\ IsFiniteSet(SubGroups) /\ SubGroups # {}
    /\ Configs \subseteq [weight : [SubGroups -> Nat \ {0}],
                          priority : [SubGroups -> Nat \ {0}]]
    /\ Latencies \subseteq Nat \ {0}
    /\ {ServerBase, ServerMax, TransientDefault, TransientMax,
        ExhaustedDefault, PaymentCooldown} \subseteq Nat \ {0}
    /\ RetryAfters \subseteq Nat
    /\ MaxHits \in 0..4

VARIABLES
    config,     \* the configuration that the selector was built from
    current,    \* item.currentWeight
    breaker,    \* item.consecutiveFailures (up to MaxHits) and what is left of
                \* its cooldown
    latency,    \* item.latencyEWMA (0: no sample yet)
    keys,       \* sub-groups whose list of active keys is not empty
    sel         \* the selection in progress

selectorVars == <<config, current, breaker, latency, keys, sel>>

NONE == 0       \* no sub-group: the empty name
NoTier == -1    \* noEligibleTier
Nobody == [by |-> NONE, looping |-> FALSE]
Closed == [failures |-> 0, left |-> 0]

-----------------------------------------------------------------------------
(***************************************************************************)
(* The failures of an upstream call, by what the two classifiers make of   *)
(* them: a bad request, a rejected key, a rate limit, a daily limit, an     *)
(* unpaid account, a failing or unreachable server.                        *)
(***************************************************************************)
Failures == {"request", "key", "rate", "daily", "payment", "server"}

Min2(a, b) == IF a < b THEN a ELSE b

\* Duration of the cooldown that follows a failure (Classify, then Decide).
Cooldown(failure, retryAfter, hits) ==
    CASE failure = "rate"    -> IF retryAfter > 0 THEN Min2(retryAfter, TransientMax)
                                                  ELSE TransientDefault
      [] failure = "daily"   -> IF retryAfter > 0 THEN retryAfter ELSE ExhaustedDefault
      [] failure = "payment" -> PaymentCooldown
      [] failure = "server"  -> Min2(ServerBase * 2 ^ Min2(hits, MaxHits), ServerMax)
      [] OTHER               -> 0

Escalates(failure) == failure = "server"

-----------------------------------------------------------------------------
(* Weights *)

Weight == config.weight
Priority == config.priority

Sampled == {i \in SubGroups : latency[i] > 0}

\* The slower sub-groups lose weight against the fastest: scale in [0.3, 1].
EffectiveWeight(i) ==
    IF Sampled = {} \/ latency[i] = 0 THEN Weight[i]
    ELSE LET base == Min({latency[j] : j \in Sampled})
             scaled == IF 10 * base < 3 * latency[i] THEN (3 * Weight[i]) \div 10
                                                     ELSE (Weight[i] * base) \div latency[i]
         IN  IF scaled < 1 THEN 1 ELSE scaled

TotalWeight == SumFunction([i \in SubGroups |-> EffectiveWeight(i)])

Bumped == [i \in SubGroups |-> current[i] + EffectiveWeight(i)]

\* Order in which the scan of selectByWeight prefers i to j.
Heavier(w, i, j) ==
    \/ w[i] > w[j]
    \/ w[i] = w[j] /\ Priority[i] < Priority[j]
    \/ w[i] = w[j] /\ Priority[i] = Priority[j] /\ i < j

SelectByWeight ==
    CHOOSE i \in SubGroups : \A j \in SubGroups \ {i} : Heavier(Bumped, i, j)

Charged(i) == [Bumped EXCEPT ![i] = @ - TotalWeight]

-----------------------------------------------------------------------------
(* Selection *)

Cooling(i) == breaker[i].left > 0

Tiered == \E i, j \in SubGroups : Priority[i] # Priority[j]

\* bestEligibleTier over the sub-groups that the caller may use.
BestTier(fit) ==
    LET eligible == {i \in fit \cap keys : ~ Cooling(i)}
    IN  IF eligible = {} THEN NoTier ELSE Min({Priority[i] : i \in eligible})

\* selectAmong(pred): `fit` is the set of sub-groups that satisfy pred.
StartSelect(r, fit) ==
    /\ sel = Nobody
    /\ IF Cardinality(SubGroups) = 1
       THEN sel' = [by |-> r, looping |-> FALSE, fit |-> fit, tier |-> NoTier,
                    visited |-> SubGroups, best |-> NONE, steady |-> TRUE,
                    answer |-> IF fit \cap keys = {} THEN NONE
                               ELSE CHOOSE i \in fit \cap keys : TRUE]
       ELSE sel' = [by |-> r, looping |-> TRUE, fit |-> fit,
                    tier |-> IF Tiered THEN BestTier(fit) ELSE NoTier,
                    visited |-> {}, best |-> NONE, steady |-> TRUE, answer |-> NONE]
    /\ UNCHANGED <<config, current, breaker, latency, keys>>

\* Mutant: the tiers are forgotten in the loop.
PassedAnyTier(i) == i \in sel.fit /\ i \in keys

\* Tests of the loop body that skip an item for good.
Passed(i) ==
    /\ i \in sel.fit
    /\ Tiered => Priority[i] = sel.tier
    /\ i \in keys

\* Mutant: the last to recover is remembered.
LaterOne(i, j) == j = NONE \/ breaker[i].left > breaker[j].left

Earlier(i, j) == j = NONE \/ breaker[i].left < breaker[j].left

\* Mutant: an item is marked as visited only once it has passed the tests.
SelectStepMarksLate ==
    /\ sel.looping
    /\ LET i       == SelectByWeight
           fresh   == i \notin sel.visited /\ Passed(i)
           visited == IF fresh THEN sel.visited \cup {i} ELSE sel.visited
       IN  /\ current' = Charged(i)
           /\ sel' = IF fresh /\ ~ Cooling(i)
                     THEN [sel EXCEPT !.looping = FALSE, !.visited = visited, !.answer = i]
                     ELSE [sel EXCEPT !.looping = visited # SubGroups, !.visited = visited]
    /\ UNCHANGED <<config, breaker, latency, keys>>

\* One turn of the loop: the item is charged even when it was visited before.
SelectStep ==
    /\ sel.looping
    /\ LET i       == SelectByWeight
           fresh   == i \notin sel.visited /\ Passed(i)
           visited == sel.visited \cup {i}
           best    == IF fresh /\ Cooling(i) /\ Earlier(i, sel.best)
                      THEN i ELSE sel.best
       IN  /\ current' = Charged(i)
           /\ sel' = IF fresh /\ ~ Cooling(i)
                     THEN [sel EXCEPT !.looping = FALSE, !.visited = visited, !.answer = i]
                     ELSE [sel EXCEPT !.looping = visited # SubGroups,
                                      !.visited = visited, !.best = best,
                                      !.answer = IF visited = SubGroups THEN best ELSE NONE]
    /\ UNCHANGED <<config, breaker, latency, keys>>

\* The caller takes the answer and the mutex is released.
Answered(r) == sel # Nobody /\ sel.by = r /\ ~ sel.looping
Release == sel' = Nobody

-----------------------------------------------------------------------------
(* Feedback, under the same mutex *)

Succeeded(i) == [breaker EXCEPT ![i] = Closed]

Failed(i, failure, retryAfter) ==
    LET pause == Cooldown(failure, retryAfter, breaker[i].failures)
    IN  [breaker EXCEPT
            ![i].failures = IF Escalates(failure) THEN Min2(@ + 1, MaxHits) ELSE @,
            ![i].left     = IF pause > 0 THEN pause ELSE @]

\* Mutant: the samples add up.
LatencySum(i, d) == {latency[i] + d}

\* RecordLatency: the average moves towards the sample, by an amount that the
\* model leaves open among Latencies.
LatencyAfter(i, d) ==
    IF latency[i] = 0 THEN {d}
    ELSE {l \in Latencies : \/ latency[i] <= l /\ l <= d
                            \/ d <= l /\ l <= latency[i]}

\* RebuildSelectors after a reload of the groups: every item starts afresh, with
\* the weights and priorities that were read.
\* A selection in progress works on the selector it began with, which nobody
\* else can see any more; it counts as made before the rebuild.
Rebuild ==
    /\ sel = Nobody
    /\ config' \in Configs
    /\ current' = [i \in SubGroups |-> 0]
    /\ breaker' = [i \in SubGroups |-> Closed]
    /\ latency' = [i \in SubGroups |-> 0]
    /\ UNCHANGED <<keys, sel>>

\* Another request, a validation or an administrator empties or refills a list
\* of active keys.
KeysChange ==
    /\ \E i \in SubGroups : keys' = IF i \in keys THEN keys \ {i} ELSE keys \cup {i}
    /\ sel' = IF sel = Nobody THEN sel ELSE [sel EXCEPT !.steady = FALSE]
    /\ UNCHANGED <<config, current, breaker, latency>>

Tick ==
    /\ sel = Nobody
    /\ breaker' = [i \in SubGroups |->
                      [breaker[i] EXCEPT !.left = IF @ > 0 THEN @ - 1 ELSE 0]]
    /\ UNCHANGED <<config, current, latency, keys, sel>>

SelectorInit ==
    /\ config \in Configs
    /\ current = [i \in SubGroups |-> 0]
    /\ breaker = [i \in SubGroups |-> Closed]
    /\ latency = [i \in SubGroups |-> 0]
    /\ keys \in SUBSET SubGroups
    /\ sel = Nobody

Selections ==
    [by : Callers, looping : BOOLEAN, fit : SUBSET SubGroups, 
     tier : Int, visited : SUBSET SubGroups, best : SubGroups \cup {NONE},
     steady : BOOLEAN, answer : SubGroups \cup {NONE}]

SelectorTypes ==
    /\ config \in Configs
    /\ DOMAIN current = SubGroups
    /\ breaker \in [SubGroups -> [failures : 0..MaxHits, left : Nat]]
    /\ latency \in [SubGroups -> Latencies \cup {0}]
    /\ keys \subseteq SubGroups
    /\ sel \in Selections \cup {Nobody}
=============================================================================
