---------------------------- MODULE RouterEngine ----------------------------
(* The routing of a request to a group by its model, router_engine/middleware.go and
   selector.go: candidates of an alias or of an exact name are filtered by keys, exposure
   and cooldown in queries of their own, smooth weighted round robin picks one, and the
   turns of a session stick to it. The round robin's state is read and written under a
   lock each, not under one; sampled weights are a choice. *)
EXTENDS Naturals, Integers, FiniteSets, FiniteSetsExt, Functions

CONSTANTS Cand,             \* candidates, numbered by weight, priority and id (less)
          Asked,            \* models that requests name; "auto" stands for the smart path
          AliasPool, ExactPool,   \* per model: candidates of the alias rows, of the groups
          TierPool,         \* per tier "simple", "complex": candidates of the reserved alias
          Call,             \* requests at the same time
          Weights,          \* effective weights that sampling may return
          MaxTurns, MaxChurn      \* bounds: requests, changes around them

ASSUME RouterAssumption ==
    /\ Cand \subseteq Nat \ {0} /\ IsFiniteSet(Cand)
    /\ Weights \subseteq Nat \ {0} /\ "auto" \notin Asked
    /\ AliasPool \in [Asked -> SUBSET Cand] /\ ExactPool \in [Asked -> SUBSET Cand]
    /\ TierPool \in [{"simple", "complex"} -> SUBSET Cand]

Model == Asked \cup {"auto"}
PoolName == {<<"alias", m>> : m \in Asked} \cup {<<"exact", m>> : m \in Asked}
              \cup {<<"alias", t>> : t \in {"simple", "complex"}}
NoCand == 0

VARIABLES keysOf,    \* per candidate: its group's keys: "active", "invalid" or "removed"
          exposed,   \* candidates that exposed_models and blocked_models let through
          cooling,   \* candidates in a cooldown
          smart,     \* Settings.Enabled
          current,   \* per pool: the weights of the last round, [pool size, value per rank]
          sticky,    \* per model: the candidate the session sticks to (one session)
          call,      \* per request: how far it is
          turns,     \* per model: candidates of the session's turns since it was disturbed
          turnCount, churn

routerVars == <<keysOf, exposed, cooling, smart, current, sticky, call, turns, turnCount, churn>>

IdleCall == [at |-> "idle"]
Steps == {"sticky", "pool", "keys", "exposure", "cooldown", "get", "set", "route", "sent"}

RouterTypeOK ==
    /\ keysOf \in [Cand -> {"active", "invalid", "removed"}]
    /\ exposed \subseteq Cand /\ cooling \subseteq Cand /\ smart \in BOOLEAN
    /\ \A n \in PoolName : DOMAIN current[n] \subseteq Nat /\ \A i \in DOMAIN current[n] : current[n][i] \in Int
    /\ sticky \in [Model -> Cand \cup {NoCand}] /\ turns \in [Model -> SUBSET Cand]
    /\ \A r \in Call : call[r] = IdleCall \/
          (call[r].at \in Steps /\ call[r].pool \subseteq Cand /\ call[r].pick \in Cand \cup {NoCand})

RouterInit ==
    /\ keysOf = [c \in Cand |-> "active"]
    /\ exposed = Cand /\ cooling = {} /\ smart = TRUE
    /\ current = [n \in PoolName |-> <<>>]
    /\ sticky = [m \in Model |-> NoCand]
    /\ call = [r \in Call |-> IdleCall]
    /\ turns = [m \in Model |-> {}]
    /\ turnCount = 0 /\ churn = 0

Becomes(r, now) == call' = [call EXCEPT ![r] = now]
Waits(r, step) == call[r].at = step
Unsent(r) == call[r].at \notin {"idle", "sent"}

\* What happens around a session's turns: those under way and before no longer count.
Disturbed(models) ==
    /\ turns' = [m \in Model |-> IF m \in models THEN {} ELSE turns[m]]
    /\ call' = [r \in Call |-> IF Unsent(r) /\ call[r].model \in models
                               THEN [call[r] EXCEPT !.counted = FALSE] ELSE call[r]]

--------------------------------------------------------------------------
(* Middleware *)

\* A request of the session, or of none, names a model. With the smart path off, "auto"
\* does not stick.
Arrive(r, m, multiTurn) ==
    /\ Waits(r, "idle") /\ r = CHOOSE q \in Call : Waits(q, "idle")
    /\ turnCount < MaxTurns
    /\ turnCount' = turnCount + 1
    /\ LET sticks == multiTurn /\ (m # "auto" \/ smart)
           overlaps == {q \in Call : Unsent(q) /\ call[q].model = m}
           others == [q \in Call |-> IF sticks /\ q \in overlaps
                                     THEN [call[q] EXCEPT !.counted = FALSE] ELSE call[q]]
       IN  /\ call' = [others EXCEPT ![r] =
                         [at |-> IF sticks THEN "sticky" ELSE "pool", model |-> m, sticks |-> sticks,
                          pool |-> {}, way |-> <<"alias", "">>, pick |-> NoCand, copy |-> <<>>,
                          counted |-> sticks /\ overlaps = {}]]
           /\ turns' = IF sticks /\ overlaps # {} THEN [turns EXCEPT ![m] = {}] ELSE turns
    /\ UNCHANGED <<keysOf, exposed, cooling, smart, current, sticky, churn>>

\* GetSticky; the candidate passes the same three filters (IsCandidateAlive).
GetSticky(r) ==
    /\ Waits(r, "sticky")
    /\ LET c == sticky[call[r].model] IN
       Becomes(r, IF c = NoCand THEN [call[r] EXCEPT !.at = "pool"]
                  ELSE [call[r] EXCEPT !.at = "keys", !.pool = {c}, !.way = <<"sticky", "">>])
    /\ UNCHANGED <<keysOf, exposed, cooling, smart, current, sticky, turns, turnCount, churn>>

\* PickForAuto: off means the simple tier; the token estimate is a choice.
Tiers(on) == IF on THEN {"simple", "complex"} ELSE {"simple"}

Looks(r, way, pool) == Becomes(r, [call[r] EXCEPT !.at = "keys", !.way = way, !.pool = pool])

PickByAlias(r) ==
    /\ Waits(r, "pool")
    /\ \/ call[r].model # "auto" /\ Looks(r, <<"alias", call[r].model>>, AliasPool[call[r].model])
       \/ /\ call[r].model = "auto"
          /\ \E t \in Tiers(smart) : Looks(r, <<"alias", t>>, TierPool[t])
    /\ UNCHANGED <<keysOf, exposed, cooling, smart, current, sticky, turns, turnCount, churn>>

\* Where a request goes whose pool is empty: from the session to the alias, from the alias
\* to the exact name. From there the engine is done with it: it goes through to the group
\* that it asked for, or the lists of that group refuse it (405).
OutOfCandidates(r) ==
    IF call[r].way[1] = "sticky" THEN [call[r] EXCEPT !.at = "pool"]
    ELSE IF call[r].way[1] = "alias" /\ call[r].model # "auto"
    THEN [call[r] EXCEPT !.at = "keys", !.way = <<"exact", call[r].model>>, !.pool = ExactPool[call[r].model]]
    ELSE IdleCall

Filtered(r, next, S) ==
    Becomes(r, IF S = {} THEN OutOfCandidates(r) ELSE [call[r] EXCEPT !.at = next, !.pool = S])

\* The query counts rows whatever their deleted_at: removed keys were active once. A query
\* that fails lets every candidate through.
filterByActiveKeys(r) ==
    /\ Waits(r, "keys")
    /\ \E S \in {{c \in call[r].pool : keysOf[c] # "invalid"}, call[r].pool} : Filtered(r, "exposure", S)
    /\ UNCHANGED <<keysOf, exposed, cooling, smart, current, sticky, turns, turnCount, churn>>

filterByExposed(r) ==
    /\ Waits(r, "exposure")
    /\ \E S \in {call[r].pool \cap exposed, call[r].pool} : Filtered(r, "cooldown", S)
    /\ UNCHANGED <<keysOf, exposed, cooling, smart, current, sticky, turns, turnCount, churn>>

\* A pool that cools down as a whole is used all the same; a session leaves its candidate.
filterCooldown(r) ==
    /\ Waits(r, "cooldown")
    /\ LET warm == call[r].pool \ cooling
           alive == IF warm = {} THEN call[r].pool ELSE warm IN
       IF call[r].way[1] = "sticky"
       THEN Becomes(r, IF warm = {} THEN OutOfCandidates(r)
                       ELSE [call[r] EXCEPT !.at = "route", !.pick = CHOOSE c \in warm : TRUE, !.pool = {}])
       ELSE Becomes(r, IF Cardinality(alive) = 1
                       THEN [call[r] EXCEPT !.at = "route", !.pick = CHOOSE c \in alive : TRUE, !.pool = {}]
                       ELSE [call[r] EXCEPT !.at = "get", !.pool = alive])
    /\ UNCHANGED <<keysOf, exposed, cooling, smart, current, sticky, turns, turnCount, churn>>

--------------------------------------------------------------------------
(* swrr *)

\* A copy of the pool's state; a pool of another size begins again.
SwrrGet(r) ==
    /\ Waits(r, "get")
    /\ LET n == Cardinality(call[r].pool)
           kept == current[call[r].way] IN
       Becomes(r, [call[r] EXCEPT !.at = "set",
                     !.copy = IF DOMAIN kept = 1 .. n THEN kept ELSE [i \in 1 .. n |-> 0]])
    /\ UNCHANGED <<keysOf, exposed, cooling, smart, current, sticky, turns, turnCount, churn>>

Total(w) == MapThenSumSet(LAMBDA i : w[i], DOMAIN w)
Ranked(pool, i) == CHOOSE c \in pool : Cardinality({d \in pool : d <= c}) = i

\* Mutant: the winner pays its own weight, not that of all.
Payment_Own(w, best) == w[best]
Payment(w, best) == Total(w)

\* A tie goes by the priorities, which do not follow the order of the pool.
SwrrSet(r) ==
    /\ Waits(r, "set")
    /\ \E w \in [DOMAIN call[r].copy -> Weights], best \in DOMAIN call[r].copy :
         LET raised == [i \in DOMAIN w |-> call[r].copy[i] + w[i]]
         IN  /\ \A i \in DOMAIN w : raised[i] <= raised[best]
             /\ current' = [current EXCEPT ![call[r].way] = [raised EXCEPT ![best] = @ - Payment(w, best)]]
             /\ Becomes(r, [call[r] EXCEPT !.at = "route", !.pick = Ranked(call[r].pool, best),
                                           !.pool = {}, !.copy = <<>>])
    /\ UNCHANGED <<keysOf, exposed, cooling, smart, sticky, turns, turnCount, churn>>

--------------------------------------------------------------------------

Healthy(c) == c \in exposed \ cooling /\ keysOf[c] # "invalid"

\* The request is directed to the group and the session sticks, or renews, unless the
\* cache does not know the group any more.
Route(r) ==
    /\ Waits(r, "route")
    /\ LET m == call[r].model  c == call[r].pick IN
       \/ /\ Becomes(r, [call[r] EXCEPT !.at = "sent"])
          /\ sticky' = IF call[r].sticks THEN [sticky EXCEPT ![m] = c] ELSE sticky
          /\ turns' = IF call[r].counted /\ Healthy(c) THEN [turns EXCEPT ![m] = @ \cup {c}] ELSE turns
       \/ /\ keysOf[c] = "removed"
          /\ Becomes(r, IdleCall)
          /\ UNCHANGED <<sticky, turns>>
    /\ UNCHANGED <<keysOf, exposed, cooling, smart, current, turnCount, churn>>

Sticking(c) == {m \in Model : c = sticky[m] \/ c \in turns[m] \/ \E r \in Call : Unsent(r) /\ call[r].model = m}

\* MarkResponse: a success ends the cooldown, an error of the upstream begins one.
MarkResponse(r) ==
    /\ Waits(r, "sent")
    /\ LET c == call[r].pick IN
       \/ /\ cooling' = cooling \ {c}
          /\ Becomes(r, IdleCall) /\ UNCHANGED turns
       \/ /\ cooling' = cooling \cup {c}
          /\ turns' = [m \in Model |-> IF m \in Sticking(c) THEN {} ELSE turns[m]]
          /\ call' = [q \in Call |-> IF q = r THEN IdleCall
                                     ELSE IF Unsent(q) /\ call[q].model \in Sticking(c)
                                     THEN [call[q] EXCEPT !.counted = FALSE] ELSE call[q]]
       \/ Becomes(r, IdleCall) /\ UNCHANGED <<cooling, turns>>
    /\ UNCHANGED <<keysOf, exposed, smart, current, sticky, turnCount, churn>>

CooldownEnds(c) ==
    /\ c \in cooling
    /\ cooling' = cooling \ {c}
    /\ UNCHANGED <<keysOf, exposed, smart, current, sticky, call, turns, turnCount, churn>>

Churns == churn < MaxChurn /\ churn' = churn + 1 /\ UNCHANGED <<cooling, current, turnCount>>

KeysChange(c, k) ==
    /\ Churns /\ keysOf[c] # k
    /\ keysOf' = [keysOf EXCEPT ![c] = k]
    /\ Disturbed(Sticking(c))
    /\ UNCHANGED <<exposed, smart, sticky>>

ExposureChanges(c) ==
    /\ Churns
    /\ exposed' = IF c \in exposed THEN exposed \ {c} ELSE exposed \cup {c}
    /\ Disturbed(Sticking(c))
    /\ UNCHANGED <<keysOf, smart, sticky>>

UpdateSettings ==
    /\ Churns
    /\ smart' = ~smart
    /\ Disturbed({"auto"})
    /\ UNCHANGED <<keysOf, exposed, sticky>>

\* StickyTTL
StickyExpires(m) ==
    /\ Churns /\ sticky[m] # NoCand
    /\ sticky' = [sticky EXCEPT ![m] = NoCand]
    /\ Disturbed({m})
    /\ UNCHANGED <<keysOf, exposed, smart>>

\* The store fails on the session's memory and request r goes on without it.
StickyFails(r, step) ==
    /\ Churns
    /\ LET m == call[r].model IN
         /\ turns' = [turns EXCEPT ![m] = {}]
         /\ call' = [q \in Call |-> IF q = r THEN [call[r] EXCEPT !.at = step, !.counted = FALSE]
                                    ELSE IF Unsent(q) /\ call[q].model = m
                                    THEN [call[q] EXCEPT !.counted = FALSE] ELSE call[q]]
    /\ UNCHANGED <<keysOf, exposed, smart, sticky>>

\* GetSticky finds none.
StickyUnread(r) == Waits(r, "sticky") /\ StickyFails(r, "pool")

\* SetSticky writes nothing, the older memory stays.
StickyUnset(r) == Waits(r, "route") /\ call[r].sticks /\ StickyFails(r, "sent")

RouterNext ==
    \/ \E r \in Call :
         \/ \E m \in Model, multiTurn \in BOOLEAN : Arrive(r, m, multiTurn)
         \/ GetSticky(r) \/ PickByAlias(r) \/ filterByActiveKeys(r) \/ filterByExposed(r)
         \/ filterCooldown(r) \/ SwrrGet(r) \/ SwrrSet(r) \/ Route(r) \/ MarkResponse(r)
         \/ StickyUnread(r) \/ StickyUnset(r)
    \/ \E c \in Cand : \/ CooldownEnds(c) \/ ExposureChanges(c)
                       \/ \E k \in {"active", "invalid", "removed"} : KeysChange(c, k)
    \/ UpdateSettings
    \/ \E m \in Model : StickyExpires(m)

--------------------------------------------------------------------------
(* Properties *)

\* Requests overwrite each other's rounds, weights are sampled anew each time, pools shrink
\* and grow; yet what a round adds it takes away, so that the weights of a pool cancel out.
RoundsCancel == \A n \in PoolName : Total(current[n]) = 0

\* The turns of a session that go to healthy candidates stay with one until it cools down,
\* loses its keys or its exposure, the memory of it expires or cannot be read or written, or
\* two turns overlap, whatever queries fail (SetSticky, IsCandidateAlive).
SessionSticks == \A m \in Model : Cardinality(turns[m]) <= 1

RouterSound == RoundsCancel /\ SessionSticks
=============================================================================
