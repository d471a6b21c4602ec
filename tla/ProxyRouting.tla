---------------------------- MODULE ProxyRouting ----------------------------
(***************************************************************************)
(* Requests of the data plane (proxy/server.go): the choice of a            *)
(* sub-group, the attempts on its keys, the retries within the group and    *)
(* the failover to the next sub-group, with the answer to the client and    *)
(* the request log.  Requests run concurrently and meet in the selector of  *)
(* the aggregate group, which they wait for and report to.                  *)
(*                                                                         *)
(* Key selection is reduced to its outcome: a key is lent when the list of  *)
(* active keys of the group is not empty.                                   *)
(***************************************************************************)
EXTENDS SubGroupSelector, Sequences

CONSTANTS
    Models,         \* models that clients ask for
    Unnamed,        \* the request that names no model
    RealModels,     \* names of models that candidates are sent with
    Serves,         \* models each sub-group is known to serve
    Pool,           \* what the resolver makes of a model: a sequence of candidates
    MaxRetries      \* retries of each sub-group

ASSUME RoutingAssumption ==
    /\ NONE \notin Callers
    /\ Unnamed \notin Models
    /\ Serves \in [SubGroups -> SUBSET Models]
    /\ MaxRetries \in [SubGroups -> Nat]
    /\ Pool \in [Models -> Seq([group : SubGroups, model : RealModels])]

VARIABLE req    \* the requests

routingVars == <<req, selectorVars>>

Bodies == Models \cup {Unnamed} \cup RealModels

Phases == {"new", "choosing", "keying", "sent", "streaming", "done"}

RequestType ==
    [phase : Phases, aggregate : BOOLEAN, routed : BOOLEAN, model : Models \cup {Unnamed},
     cursor : Nat, group : SubGroups \cup {NONE}, body : Bodies, retry : Nat,
     attempted : SUBSET SubGroups, wrote : BOOLEAN, gone : BOOLEAN,
     calls : [SubGroups -> Nat], blamed : SUBSET SubGroups, answers : 0..1, finals : 0..1]

Fresh ==
    [phase |-> "new", aggregate |-> TRUE, routed |-> FALSE, model |-> Unnamed,
     cursor |-> 0, group |-> NONE, body |-> Unnamed, retry |-> 0, attempted |-> {},
     wrote |-> FALSE, gone |-> FALSE,
     calls |-> [i \in SubGroups |-> 0], blamed |-> {}, answers |-> 0, finals |-> 0]

-----------------------------------------------------------------------------
(* Helpers *)

In(r, phase) == req[r].phase = phase

\* Mutant: sub-groups already tried are not excluded.
FitAgain(r) == {i \in SubGroups : req[r].model # Unnamed => req[r].model \in Serves[i]}

\* Sub-groups the selector may give to a request: not tried yet, and known to
\* serve the model when the request names one.
Fit(r) == {i \in SubGroups \ req[r].attempted :
              req[r].model # Unnamed => req[r].model \in Serves[i]}

PoolOf(r) == IF req[r].model = Unnamed THEN <<>> ELSE Pool[req[r].model]

\* Candidates of the pool that nextP4Candidate would still take.
Untried(r, attempted) ==
    {n \in 1..Len(PoolOf(r)) : n >= req[r].cursor /\ PoolOf(r)[n].group \notin attempted}

\* The request goes on with sub-group i: executeRequestWithRetry, retryCount 0.
Enter(q, i, body) == [q EXCEPT !.phase = "keying", !.group = i, !.body = body, !.retry = 0]

\* It ends; the client gets one answer and the log one final record, or not.
\* Nothing else is kept of a request that has ended.
End(q, answers, finals) ==
    [Fresh EXCEPT !.phase = "done", !.gone = q.gone,
                  !.answers = q.answers + answers, !.finals = q.finals + finals]

Become(r, q) == req' = [req EXCEPT ![r] = q]

-----------------------------------------------------------------------------
(* HandleProxy *)

\* A request for the group itself: no pool, no selection, no breaker.
ArriveDirect(r) ==
    /\ In(r, "new")
    /\ \E i \in SubGroups, routed \in BOOLEAN :
          Become(r, [Enter(req[r], i, Unnamed) EXCEPT
                        !.aggregate = FALSE, !.routed = routed])
    /\ UNCHANGED selectorVars

\* A request for the aggregate: the resolver's pool first, else the selector.
ArriveAggregate(r) ==
    /\ In(r, "new")
    /\ \E m \in Models \cup {Unnamed} :
          LET q    == [req[r] EXCEPT !.model = m, !.body = m]
              pool == IF m = Unnamed THEN <<>> ELSE Pool[m]
          IN  IF pool = <<>>
              THEN Become(r, [q EXCEPT !.phase = "choosing"])
              ELSE Become(r, [Enter(q, pool[1].group, pool[1].model) EXCEPT
                                 !.cursor = 2, !.attempted = {pool[1].group}])
    /\ UNCHANGED selectorVars

Choose(r) ==
    /\ In(r, "choosing")
    /\ StartSelect(r, Fit(r))
    /\ UNCHANGED req

\* The answer of the selector.  The first choice fails the request when there
\* is none; a failover then falls back on the failure it came from, which has
\* already been reported to the breaker.
Chosen(r) ==
    /\ In(r, "choosing") /\ Answered(r)
    /\ Become(r, IF sel.answer = NONE
                 THEN End(req[r], 1, IF req[r].attempted = {} THEN 0 ELSE 1)
                 ELSE LET q == Enter(req[r], sel.answer, req[r].body)
                      IN  IF req[r].attempted = {}
                          THEN [q EXCEPT !.attempted = {sel.answer}] ELSE q)
    /\ Release
    /\ UNCHANGED <<config, current, breaker, latency, keys>>

-----------------------------------------------------------------------------
(* executeRequestWithRetry *)

\* SelectKey lends a key and the call goes out.
SendUpstream(r) ==
    /\ In(r, "keying") /\ req[r].group \in keys
    /\ Become(r, [req[r] EXCEPT !.phase = "sent", !.calls[req[r].group] = @ + 1])
    /\ UNCHANGED selectorVars

\* No key: the request ends at once, whatever other sub-groups could do.
NoKey(r) ==
    /\ In(r, "keying") /\ req[r].group \notin keys
    /\ Become(r, End(req[r], 1, 1))
    /\ UNCHANGED selectorVars

\* The upstream address or the body cannot be built; only the second is logged.
Unsendable(r) ==
    /\ In(r, "keying") /\ req[r].group \in keys
    /\ \E finals \in {0, 1} : Become(r, End(req[r], 1, finals))
    /\ UNCHANGED selectorVars

\* Mutant: the headers are passed on before the first chunk is seen.
UpstreamAnswersEarly(r) ==
    /\ In(r, "sent") /\ ~ req[r].gone
    /\ \/ Become(r, [req[r] EXCEPT !.phase = "streaming", !.answers = 1])
       \/ Become(r, End(req[r], 1, 1))
    /\ UNCHANGED selectorVars

\* A success is reported to the breaker as soon as the headers are there, and
\* its latency; if it is a stream, it is read only then.
UpstreamAnswers(r) ==
    /\ In(r, "sent") /\ ~ req[r].gone
    /\ LET i == req[r].group IN
       IF req[r].aggregate
       THEN /\ sel = Nobody
            /\ breaker' = Succeeded(i)
            /\ \E d \in Latencies : \E l \in LatencyAfter(i, d) :
                  latency' = [latency EXCEPT ![i] = l]
       ELSE UNCHANGED <<breaker, latency>>
    /\ \/ Become(r, [req[r] EXCEPT !.phase = "streaming"])
       \/ Become(r, End(req[r], 1, 1))
    /\ UNCHANGED <<config, current, keys, sel>>

\* The first valid chunk passes the headers on; what follows is not retried.
StreamFlows(r) ==
    /\ In(r, "streaming") /\ ~ req[r].gone
    /\ Become(r, [End(req[r], 1, 1) EXCEPT !.wrote = TRUE])
    /\ UNCHANGED selectorVars

\* The client closes the connection.
ClientLeaves(r) ==
    /\ ~ req[r].gone /\ req[r].phase \in {"sent", "streaming"}
    /\ Become(r, [req[r] EXCEPT !.gone = TRUE])
    /\ UNCHANGED selectorVars

\* The call is cancelled with the client: logged as 499, blamed on nobody.
Abandon(r) ==
    /\ In(r, "sent") /\ req[r].gone
    /\ Become(r, End(req[r], 0, 1))
    /\ UNCHANGED selectorVars

-----------------------------------------------------------------------------
(* handleAttemptFailure *)

\* The call fails, or the stream ends, is cut or reports an error before its
\* first valid chunk.  A client that left makes the stream end this way too.
Fails(r, failure) ==
    \/ In(r, "sent") /\ ~ req[r].gone
    \/ In(r, "streaming") /\ (req[r].gone => failure = "server")

Exhausted(r) == req[r].retry >= MaxRetries[req[r].group]

\* A request that no key could serve: not retried when called directly.
FailFast(r, failure) == failure = "request" /\ ~ req[r].aggregate /\ ~ req[r].routed

\* Mutant: the next sub-group is tried before the retries are used.
CanFailoverEarly(r) == req[r].aggregate /\ ~ req[r].wrote

CanFailover(r) == Exhausted(r) /\ req[r].aggregate /\ ~ req[r].wrote

\* UpdateStatus: a failure that counts against the key may take the last key of
\* the group out of rotation.
KeyBlamed(r, failure) ==
    keys' \in {keys} \cup
        (IF failure \in {"key", "payment"} THEN {keys \ {req[r].group}} ELSE {})

\* A selection in progress sees the keys change under it.
Unsettle ==
    sel' = IF sel # Nobody /\ keys' # keys THEN [sel EXCEPT !.steady = FALSE] ELSE sel

Retry(r) ==
    /\ \E failure \in Failures :
          /\ Fails(r, failure) /\ ~ Exhausted(r) /\ ~ FailFast(r, failure)
          /\ KeyBlamed(r, failure)
    /\ Become(r, [req[r] EXCEPT !.phase = "keying", !.retry = @ + 1])
    /\ Unsettle
    /\ UNCHANGED <<config, current, breaker, latency>>

GiveUp(r) ==
    /\ \E failure \in Failures :
          /\ Fails(r, failure) /\ ~ CanFailover(r)
          /\ Exhausted(r) \/ FailFast(r, failure)
          /\ KeyBlamed(r, failure)
    /\ Become(r, End(req[r], 1, 1))
    /\ Unsettle
    /\ UNCHANGED <<config, current, breaker, latency>>

\* The failure is reported to the breaker; the next candidate of the pool, or
\* else the selector, names the next sub-group.
Failover(r) ==
    LET i         == req[r].group
        attempted == req[r].attempted \cup {i}
        untried   == Untried(r, attempted)
        q         == [req[r] EXCEPT !.attempted = attempted, !.blamed = @ \cup {i}]
    IN
    /\ sel = Nobody
    /\ \E failure \in Failures, retryAfter \in RetryAfters :
          /\ Fails(r, failure) /\ CanFailover(r)
          /\ KeyBlamed(r, failure)
          /\ breaker' = Failed(i, failure, retryAfter)
    /\ \/ /\ untried = {}
          /\ Become(r, [q EXCEPT !.phase = "choosing", !.cursor = Len(PoolOf(r)) + 1])
       \/ \E n \in untried :
             /\ \A k \in untried : n <= k
             /\ Become(r, [Enter(q, PoolOf(r)[n].group, PoolOf(r)[n].model) EXCEPT
                              !.cursor = n + 1])
    /\ UNCHANGED <<config, current, latency, sel>>

-----------------------------------------------------------------------------

Init ==
    /\ SelectorInit
    /\ req = [r \in Callers |-> Fresh]

Step(r) ==
    \/ Choose(r) \/ Chosen(r)
    \/ SendUpstream(r) \/ NoKey(r) \/ Unsendable(r)
    \/ UpstreamAnswers(r) \/ StreamFlows(r) \/ Abandon(r)
    \/ Retry(r) \/ GiveUp(r) \/ Failover(r)

Looping == SelectStep /\ UNCHANGED req

Outside == (Rebuild \/ KeysChange \/ Tick) /\ UNCHANGED req

\* The place of a request that has ended is taken by another one.
Leave(r) ==
    /\ In(r, "done")
    /\ Become(r, Fresh)
    /\ UNCHANGED selectorVars

Next ==
    \/ \E r \in Callers : ArriveDirect(r) \/ ArriveAggregate(r) \/ ClientLeaves(r) \/ Leave(r)
    \/ \E r \in Callers : Step(r)
    \/ Looping
    \/ Outside

Spec == Init /\ [][Next]_routingVars

\* A request is a goroutine that the scheduler keeps running; its upstream calls
\* end by RequestTimeout, its streams by the header-hold timeout.  One that waits for
\* the selector's mutex gets it however many others come and go: a Go mutex is handed
\* to whoever has waited for a millisecond.
FairSpec == Spec /\ WF_routingVars(Looping) /\ \A r \in Callers : SF_routingVars(Step(r))

-----------------------------------------------------------------------------
(* Properties *)

\* Types of the requests and of the selector.
TypeOK ==
    /\ SelectorTypes
    /\ req \in [Callers -> RequestType]

\* Smooth weighted round robin: what the items are given in a turn is taken from
\* the chosen one, so the current weights always cancel out, whatever the
\* latencies do to the effective weights (selectByWeight).
CurrentsCancel == SumFunction(current) = 0

\* A request calls a sub-group at most MaxRetries + 1 times in all: neither the
\* pool of candidates nor the selector ever sends it back to a sub-group that it
\* has given up (attemptedSubGroups).
CallsBounded ==
    \A r \in Callers, i \in SubGroups : req[r].calls[i] <= MaxRetries[i] + 1

\* A sub-group is reported to the breaker as failing only by requests that have
\* used all their retries there, and only aggregate requests report.
BlameAfterAllTries ==
    \A r \in Callers : \A i \in req[r].blamed :
        req[r].aggregate /\ req[r].calls[i] = MaxRetries[i] + 1

\* A request that has ended has answered its client exactly once, unless the
\* client left, and has at most one final record in the log; one that has not
\* ended has neither (attempts that are retried write no final record).
EndsOnce ==
    \A r \in Callers :
        /\ ~ In(r, "done") => req[r].answers = 0 /\ req[r].finals = 0
        /\ In(r, "done") => req[r].answers = 1 \/ (req[r].gone /\ req[r].finals = 1)

\* A selection that ends with no key change since it began returns a sub-group
\* of the best tier that is open and has keys, if there is one; with equal
\* priorities, and every candidate cooling down, the first to recover
\* (selectAmong, bestEligibleTier and the turns of selectByWeight together).
ChoiceIsBest ==
    [][ sel.looping /\ ~ sel'.looping /\ sel.steady =>
          LET candidates == sel.fit \cap keys
              open       == {i \in candidates : ~ Cooling(i)}
              a          == sel'.answer
          IN  IF open # {}
              THEN a \in open /\ \A i \in open : Priority[a] <= Priority[i]
                                            \/ ~ Tiered
              ELSE Tiered \/ IF candidates = {} THEN a = NONE
                             ELSE /\ a \in candidates
                                  /\ \A i \in candidates :
                                        breaker[a].left <= breaker[i].left
      ]_sel

\* Every request that arrives ends: the loop of the selector always comes to
\* the end of its sub-groups, and retries and failovers run out.
EveryRequestEnds == \A r \in Callers : ~ In(r, "new") ~> In(r, "done")

\* What the strict routing contract promises: a sub-group of the aggregate is
\* called with a model that it is known to serve, or that the candidate chosen
\* for it names (subgroup_manager.go:355-358, model_resolver.go:13-14).
BodyNamesServedModel ==
    \A r \in Callers :
        In(r, "sent") /\ req[r].aggregate /\ req[r].model # Unnamed =>
            \/ req[r].body \in Serves[req[r].group]
            \/ \E n \in 1..Len(PoolOf(r)) :
                  PoolOf(r)[n] = [group |-> req[r].group, model |-> req[r].body]

\* What selectAmong promises when every candidate cools down: "graceful degrade",
\* the one that recovers first is returned (subgroup_manager.go:388, 430-431).
DegradesGracefully ==
    [][ sel.looping /\ ~ sel'.looping /\ sel.steady =>
          (sel'.answer = NONE => sel.fit \cap keys = {})
      ]_sel
=============================================================================
