------------------------- MODULE ProxyRoutingProofs -------------------------
(***************************************************************************)
(* Theorems about ProxyRouting, for any number of concurrent requests, any  *)
(* sub-groups, weights, priorities, retries, pools of candidates and        *)
(* cooldowns: what one request does to the sub-groups is bounded, however   *)
(* the others, the keys, the breaker and the reloads interfere; weights     *)
(* cancel out; a selection under which no key changes makes the best choice. *)
(***************************************************************************)
EXTENDS ProxyRouting, DataLemmas, SequenceTheorems, TLAPS

-----------------------------------------------------------------------------
(* The current weights *)

CurrentsInv ==
    /\ config \in Configs
    /\ current \in [SubGroups -> Int] /\ Sum(current) = 0
    /\ latency \in [SubGroups -> Nat]

\* However slow a sub-group is, its weight is a number.
LEMMA WeightsAre ==
    ASSUME CurrentsInv
    PROVE  \A i \in SubGroups : Priority[i] \in Nat /\ EffectiveWeight(i) \in Nat
  <1>1. SUFFICES ASSUME NEW i \in SubGroups PROVE Priority[i] \in Nat /\ EffectiveWeight(i) \in Nat
    OBVIOUS
  <1>2. PICK weight \in Nat : weight = Weight[i] /\ Priority[i] \in Nat
    BY SelectorAssumption DEF CurrentsInv, Weight, Priority
  <1>3. CASE Sampled = {} \/ latency[i] = 0
    BY <1>2, <1>3 DEF EffectiveWeight
  <1>4. CASE ~ (Sampled = {} \/ latency[i] = 0)
    <2> DEFINE S == {latency[j] : j \in Sampled}
    <2>1. S \subseteq Nat /\ S # {}
      BY <1>4 DEF CurrentsInv, Sampled
    <2>2. Min(S) \in S
      <3> HIDE DEF S
      <3>1. \E n \in S : \A k \in S : n <= k
        BY <2>1, LeastNumber
      <3>2. QED
        BY <3>1 DEF Min
    <2> DEFINE b == Min(S)
    <2>3. b \in Nat
      BY <2>1, <2>2
    <2>4. PICK late \in Nat \ {0} : late = latency[i]
      BY <1>4 DEF CurrentsInv
    <2> DEFINE scaled == IF 10 * b < 3 * late THEN (3 * weight) \div 10 ELSE (weight * b) \div late
    <2>5. EffectiveWeight(i) = IF scaled < 1 THEN 1 ELSE scaled
      BY <1>2, <1>4, <2>4 DEF EffectiveWeight
    <2> HIDE DEF b
    <2>6. (3 * weight) \div 10 \in Nat
      OBVIOUS
    <2>7. (weight * b) \div late \in Nat
      <3>1. PICK n \in Nat : n = weight * b
        BY <2>3
      <3>2. QED
        BY <3>1
    <2>8. scaled \in Nat
      BY <2>6, <2>7
    <2> HIDE DEF scaled
    <2>9. QED
      BY <1>2, <2>5, <2>8
  <1>5. QED
    BY <1>2, <1>3, <1>4

\* Of some sub-groups one is heavier than all others: ties go by the priority, then by
\* the position.
LEMMA HeaviestExists ==
    ASSUME NEW w \in [SubGroups -> Int], \A i \in SubGroups : Priority[i] \in Nat
    PROVE  \E i \in SubGroups : \A j \in SubGroups \ {i} : Heavier(w, i, j)
  <1>1. ASSUME NEW i \in SubGroups, NEW j \in SubGroups, i # j
        PROVE  Heavier(w, i, j) \/ Heavier(w, j, i)
    <2>1. i \in Nat /\ j \in Nat
      BY SelectorAssumption
    <2>2. QED
      BY <1>1, <2>1 DEF Heavier
  <1>2. ASSUME NEW i \in SubGroups, NEW j \in SubGroups, NEW k \in SubGroups,
               Heavier(w, i, j), Heavier(w, j, k)
        PROVE  Heavier(w, i, k)
    <2>1. i \in Nat /\ j \in Nat /\ k \in Nat
      BY SelectorAssumption
    <2>2. QED
      BY <1>2, <2>1 DEF Heavier
  <1> DEFINE Q == {s \in SUBSET SubGroups :
                     s # {} => \E i \in s : \A j \in s \ {i} : Heavier(w, i, j)}
  <1>3. ASSUME NEW s \in SUBSET SubGroups,
               \A t \in SUBSET SubGroups : Cardinality(t) < Cardinality(s) => t \in Q
        PROVE  s \in Q
    <2>1. SUFFICES ASSUME s # {} PROVE \E i \in s : \A j \in s \ {i} : Heavier(w, i, j)
      OBVIOUS
    <2>2. PICK c : c \in s
      BY <2>1
    <2> DEFINE t == s \ {c}
    <2>3. t \in SUBSET SubGroups /\ Cardinality(t) < Cardinality(s)
      <3>1. \A x \in s : s \ {x} \in SUBSET SubGroups /\ Cardinality(s \ {x}) = Cardinality(s) - 1
        BY SelectorAssumption, OneLess
      <3>2. Cardinality(s) \in Nat
        BY SelectorAssumption, OneLess
      <3>3. QED
        BY <2>2, <3>1, <3>2
    <2>4. t \in Q
      BY <1>3, <2>3
    <2>5. CASE t = {}
      BY <2>2, <2>5
    <2>6. CASE t # {}
      <3>1. PICK i \in t : \A j \in t \ {i} : Heavier(w, i, j)
        BY <2>4, <2>6
      <3>2. CASE Heavier(w, i, c)
        BY <3>1, <3>2
      <3>3. CASE Heavier(w, c, i)
        <4>1. \A j \in s \ {c} : Heavier(w, c, j)
          BY <1>2, <2>2, <3>1, <3>3
        <4>2. QED
          BY <2>2, <4>1
      <3>4. QED
        BY <1>1, <2>2, <3>2, <3>3
    <2>7. QED
      BY <2>5, <2>6
  <1>4. Q \in SUBSET (SUBSET SubGroups)
    OBVIOUS
  <1>5. Q = SUBSET SubGroups
    <2> HIDE DEF Q
    <2>1. QED
      BY <1>3, <1>4, SelectorAssumption, BySize
  <1>6. QED
    BY <1>5, SelectorAssumption

\* The weights of a turn are numbers, and it chooses a sub-group.
LEMMA TurnChooses ==
    ASSUME CurrentsInv
    PROVE  Bumped \in [SubGroups -> Int] /\ SelectByWeight \in SubGroups
  <1>1. PICK v \in [SubGroups -> Int] : v = current
    BY DEF CurrentsInv
  <1>2. PICK w : w = [i \in SubGroups |-> EffectiveWeight(i)]
    OBVIOUS
  <1>3. w \in [SubGroups -> Int] /\ \A i \in SubGroups : w[i] = EffectiveWeight(i) /\ Priority[i] \in Nat
    BY <1>2, WeightsAre
  <1>4. PICK u : u = Bumped
    OBVIOUS
  <1>5. u \in [SubGroups -> Int]
    <2>1. u = [i \in SubGroups |-> v[i] + w[i]]
      BY <1>1, <1>3, <1>4 DEF Bumped
    <2>2. \A i \in SubGroups : v[i] + w[i] \in Int
      <3>1. \A i \in SubGroups : v[i] \in Int /\ w[i] \in Int
        BY <1>3
      <3>2. QED
        BY <3>1
    <2>3. QED
      BY <2>1, <2>2
  <1>6. \E i \in SubGroups : \A j \in SubGroups \ {i} : Heavier(u, i, j)
    BY <1>3, <1>5, HeaviestExists
  <1>7. SelectByWeight = CHOOSE i \in SubGroups : \A j \in SubGroups \ {i} : Heavier(u, i, j)
    BY <1>4 DEF SelectByWeight
  <1>8. QED
    BY <1>4, <1>5, <1>6, <1>7

\* The chosen one pays what all were given.
LEMMA TurnCancels ==
    ASSUME CurrentsInv, SelectStep
    PROVE  current' \in [SubGroups -> Int] /\ Sum(current') = 0
  <1>1. PICK v \in [SubGroups -> Int] : v = current /\ Sum(v) = 0
    BY DEF CurrentsInv
  <1>2. PICK w : w = [i \in SubGroups |-> EffectiveWeight(i)]
    OBVIOUS
  <1>3. w \in [SubGroups -> Int] /\ \A i \in SubGroups : w[i] = EffectiveWeight(i) /\ Priority[i] \in Nat
    BY <1>2, WeightsAre
  <1>4. PICK u, total, best : u = Bumped /\ total = TotalWeight /\ best = SelectByWeight
    OBVIOUS
  <1>5. u = [i \in SubGroups |-> v[i] + w[i]] /\ u \in [SubGroups -> Int]
    BY <1>1, <1>3, <1>4, TurnChooses DEF Bumped
  <1>6. total = Sum(w)
    BY <1>2, <1>4, SumsAre DEF TotalWeight
  <1>7. best \in SubGroups
    BY <1>4, TurnChooses
  <1>8. current' = [u EXCEPT ![best] = @ - total]
    BY <1>4 DEF SelectStep, Charged
  <1>9. PICK f : f = [u EXCEPT ![best] = @ - total]
    OBVIOUS
  <1>10. f \in [SubGroups -> Int] /\ Sum(f) = Sum(v)
    <2>1. IsFiniteSet(SubGroups) /\ w \in [SubGroups -> Int]
          /\ u = [i \in SubGroups |-> v[i] + w[i]]
      BY <1>3, <1>5, SelectorAssumption
    <2>2. QED
      BY <2>1, <1>6, <1>7, <1>9, RoundCancels
  <1>11. QED
    BY <1>1, <1>8, <1>9, <1>10

LEMMA CurrentsInitial == Init => CurrentsInv
  <1> SUFFICES ASSUME Init PROVE CurrentsInv
    OBVIOUS
  <1>1. PICK v : v = current /\ v = [i \in SubGroups |-> 0]
    BY DEF Init, SelectorInit
  <1>2. v \in [SubGroups -> {0}]
    BY <1>1
  <1>3. Sum(v) = 0
    BY <1>2, SelectorAssumption, SumZeros
  <1>4. QED
    BY <1>1, <1>2, <1>3 DEF Init, SelectorInit, CurrentsInv

LEMMA CurrentsStep == CurrentsInv /\ [Next]_routingVars => CurrentsInv'
  <1> SUFFICES ASSUME CurrentsInv, [Next]_routingVars PROVE CurrentsInv'
    OBVIOUS
  <1>1. ASSUME UNCHANGED <<config, current>>, latency' \in [SubGroups -> Nat] PROVE CurrentsInv'
    BY <1>1 DEF CurrentsInv
  <1>2. CASE UNCHANGED selectorVars
    BY <1>1, <1>2 DEF selectorVars, CurrentsInv
  <1>3. ASSUME NEW r \in Callers, UpstreamAnswers(r) PROVE CurrentsInv'
    <2>1. UNCHANGED <<config, current>>
      BY <1>3 DEF UpstreamAnswers
    <2>2. latency' \in [SubGroups -> Nat]
      <3>1. CASE latency' = latency
        BY <3>1 DEF CurrentsInv
      <3>2. CASE \E d \in Latencies : \E l \in LatencyAfter(req[r].group, d) :
                   latency' = [latency EXCEPT ![req[r].group] = l]
        <4>1. PICK d \in Latencies :
                \E e \in LatencyAfter(req[r].group, d) : latency' = [latency EXCEPT ![req[r].group] = e]
          BY <3>2
        <4> PICK l \in LatencyAfter(req[r].group, d) : latency' = [latency EXCEPT ![req[r].group] = l]
          BY <4>1
        <4>2. l \in Nat
          BY SelectorAssumption DEF LatencyAfter
        <4>3. QED
          BY <4>2 DEF CurrentsInv
      <3>3. QED
        BY <1>3, <3>1, <3>2 DEF UpstreamAnswers
    <2>3. QED
      BY <1>1, <2>1, <2>2
  <1>4. ASSUME NEW r \in Callers, Step(r), ~ UpstreamAnswers(r) PROVE CurrentsInv'
    <2>1. UNCHANGED <<config, current, latency>>
      BY <1>4 DEF Step, Choose, StartSelect, Chosen, SendUpstream, NoKey, Unsendable, StreamFlows,
                  Abandon, Retry, GiveUp, Failover, selectorVars
    <2>2. QED
      BY <1>1, <2>1 DEF CurrentsInv
  <1>5. CASE Looping
    <2>1. SelectStep /\ UNCHANGED <<config, latency>>
      BY <1>5 DEF Looping, SelectStep
    <2>2. QED
      BY <2>1, TurnCancels DEF CurrentsInv
  <1>6. CASE Rebuild
    <2>1. PICK v : v = current' /\ v = [i \in SubGroups |-> 0]
      BY <1>6 DEF Rebuild
    <2>2. v \in [SubGroups -> {0}]
      BY <2>1
    <2>3. Sum(v) = 0
      BY <2>2, SelectorAssumption, SumZeros
    <2>4. QED
      BY <1>6, <2>1, <2>2, <2>3 DEF Rebuild, CurrentsInv
  <1>7. CASE KeysChange \/ Tick
    BY <1>1, <1>7 DEF KeysChange, Tick, CurrentsInv
  <1>8. QED
    BY <1>2, <1>3, <1>4, <1>5, <1>6, <1>7
       DEF Next, Outside, routingVars, ArriveDirect, ArriveAggregate, ClientLeaves, Leave

\* The turns of smooth weighted round robin cancel out for any number of sub-groups, any
\* weights and any latencies, whatever requests, keys and reloads do in between.
THEOREM CurrentsCancelCorrect == Spec => []CurrentsCancel
  <1>1. CurrentsInv => CurrentsCancel
    BY SumsAre DEF CurrentsInv, CurrentsCancel
  <1>2. QED
    BY <1>1, CurrentsInitial, CurrentsStep, PTL DEF Spec

-----------------------------------------------------------------------------
(* What a request spends *)

USE RoutingAssumption DEF NONE

-----------------------------------------------------------------------------
(* The inductive invariant *)

Trying(q) == q.phase \in {"keying", "sent", "streaming"}

\* What a request has spent: nothing on the sub-groups that it has not tried, no
\* more than its retries on the one it is at, all of them on those it blamed.
Spent(q) ==
    /\ \A i \in SubGroups : q.calls[i] <= MaxRetries[i] + 1
    /\ \A i \in q.blamed : /\ i \in q.attempted /\ q.aggregate
                           /\ q.calls[i] = MaxRetries[i] + 1
    /\ q.phase \in {"new", "choosing"} =>
          \A i \in SubGroups \ q.attempted : q.calls[i] = 0
    /\ Trying(q) =>
          /\ q.group \in SubGroups /\ q.group \notin q.blamed
          /\ q.retry <= MaxRetries[q.group]
          /\ q.calls[q.group] = IF q.phase = "keying" THEN q.retry ELSE q.retry + 1
          /\ \A i \in SubGroups \ (q.attempted \cup {q.group}) : q.calls[i] = 0

Settled(q) ==
    /\ q.phase # "done" => q.answers = 0 /\ q.finals = 0
    /\ q.phase = "done" => q.answers = 1 \/ (q.gone /\ q.finals = 1)

Sound(q) ==
    /\ q \in RequestType
    /\ q.phase = "new" => q = Fresh
    /\ q.phase = "choosing" => q.aggregate
    /\ Spent(q)
    /\ Settled(q)

\* The selection in progress is that of a request that waits for it, and what it
\* remembers are sub-groups that the request may use.
SelFields == {"by", "looping", "fit", "tier", "visited", "best", "steady", "answer"}
SelSound ==
    sel # Nobody =>
        /\ sel = [x \in SelFields |-> sel[x]]
        /\ sel.by \in Callers /\ In(sel.by, "choosing")
        /\ sel.fit = Fit(sel.by)
        /\ sel.best \in sel.fit \cup {0} /\ sel.answer \in sel.fit \cup {0}

RoutingInv ==
    /\ req \in [Callers -> RequestType]
    /\ \A r \in Callers : Sound(req[r])
    /\ SelSound

-----------------------------------------------------------------------------
(* What the helpers do to a request *)

\* A new request is sound.
LEMMA FreshSound == Sound(Fresh)
  <1>1. Fresh \in RequestType
    BY DEF Fresh, RequestType, Phases, Bodies
  <1>2. QED
    BY <1>1 DEF Sound, Fresh, Spent, Settled, Trying

\* The candidates of a pool name sub-groups, and models that bodies can carry.
LEMMA PoolFields ==
    ASSUME NEW m \in Models, NEW n \in 1..Len(Pool[m])
    PROVE  Pool[m][n].group \in SubGroups /\ Pool[m][n].model \in Bodies
  <1>1. Pool[m] \in Seq([group : SubGroups, model : RealModels])
    OBVIOUS
  <1>2. Pool[m][n] \in [group : SubGroups, model : RealModels]
    BY <1>1, ElementOfSeq
  <1>3. QED
    BY <1>2 DEF Bodies

\* A pool that is not empty has a first candidate.
LEMMA PoolNotEmpty ==
    ASSUME NEW m \in Models, Pool[m] # <<>>
    PROVE  1 \in 1..Len(Pool[m])
  <1>1. PICK p \in Seq([group : SubGroups, model : RealModels]) : p = Pool[m]
    OBVIOUS
  <1>2. QED
    BY <1>1, EmptySeq

\* Entering a sub-group that has not been called yet is sound.
LEMMA EnterSound ==
    ASSUME NEW q, Sound(q), q.phase # "done",
           NEW i \in SubGroups, NEW body \in Bodies, q.calls[i] = 0, i \notin q.blamed,
           \A j \in SubGroups \ (q.attempted \cup {i}) : q.calls[j] = 0
    PROVE  Sound(Enter(q, i, body))
  <1> DEFINE e == Enter(q, i, body)
  <1>1. /\ e \in RequestType /\ e.phase = "keying" /\ e.group = i /\ e.retry = 0
        /\ e.calls = q.calls /\ e.attempted = q.attempted /\ e.blamed = q.blamed
        /\ e.aggregate = q.aggregate /\ e.answers = q.answers /\ e.finals = q.finals
    BY DEF Enter, RequestType, Sound, Phases
  <1>2. Spent(e)
    BY <1>1 DEF Sound, Spent, Trying, RequestType
  <1>3. Settled(e)
    BY <1>1 DEF Sound, Settled
  <1>4. QED
    BY <1>1, <1>2, <1>3 DEF Sound

\* A request that ends with an answer, or because its client left, is sound.
LEMMA EndSound ==
    ASSUME NEW q, Sound(q), q.phase # "done",
           NEW answers \in 0..1, NEW finals \in 0..1,
           answers = 1 \/ (q.gone /\ finals = 1)
    PROVE  Sound(End(q, answers, finals))
  <1> DEFINE e == End(q, answers, finals)
  <1>1. q.answers = 0 /\ q.finals = 0 /\ q.gone \in BOOLEAN
    BY DEF Sound, Settled, RequestType
  <1>2. e = [Fresh EXCEPT !.phase = "done", !.gone = q.gone,
                          !.answers = answers, !.finals = finals]
    <2>1. q.answers + answers = answers /\ q.finals + finals = finals
      BY <1>1
    <2>2. QED
      BY <2>1, Zenon DEF End
  <1>3. /\ e \in RequestType /\ e.phase = "done" /\ e.gone = q.gone
        /\ e.answers = answers /\ e.finals = finals
        /\ e.calls = Fresh.calls /\ e.blamed = Fresh.blamed
    <2> HIDE DEF e
    <2>1. PICK f \in RequestType : f = Fresh
      BY FreshSound DEF Sound
    <2>2. "done" \in Phases
      BY DEF Phases
    <2>3. e = [f EXCEPT !.phase = "done", !.gone = q.gone,
                        !.answers = answers, !.finals = finals]
      BY <1>2, <2>1
    <2>4. QED
      BY <1>1, <2>1, <2>2, <2>3 DEF RequestType
  <1>4. Spent(e)
    BY <1>3 DEF Spent, Trying, Fresh
  <1>5. Settled(e)
    BY <1>3 DEF Settled
  <1>6. QED
    BY <1>3, <1>4, <1>5 DEF Sound

\* A step that replaces one request, which was not waiting for the selector's
\* answer, by a sound one preserves the invariant.
LEMMA BecomeSound ==
    ASSUME RoutingInv, NEW r \in Callers, NEW q, Sound(q), Become(r, q),
           sel # Nobody /\ sel.by = r => q = req[r],
           \/ sel' = sel
           \/ sel # Nobody /\ sel' = [sel EXCEPT !.steady = FALSE]
    PROVE  RoutingInv'
  <1>1. /\ req' \in [Callers -> RequestType]
        /\ \A s \in Callers : req'[s] = IF s = r THEN q ELSE req[s]
    BY DEF RoutingInv, Become, Sound
  <1>2. \A s \in Callers : Sound(req'[s])
    BY <1>1 DEF RoutingInv
  <1>3. SelSound'
    <2>1. SUFFICES ASSUME sel' # Nobody'
                   PROVE  /\ sel' = [x \in SelFields |-> sel'[x]]
                          /\ sel'.by \in Callers /\ In(sel.by, "choosing")' /\ sel'.by = sel.by
                          /\ sel'.fit = Fit(sel.by)'
                          /\ sel'.best \in sel'.fit \cup {0}
                          /\ sel'.answer \in sel'.fit \cup {0}
      BY DEF SelSound, In, Fit
    <2>2. sel # Nobody
      BY <2>1 DEF Nobody
    <2>3. /\ sel = [x \in SelFields |-> sel[x]] /\ sel.by \in Callers
          /\ In(sel.by, "choosing") /\ sel.fit = Fit(sel.by)
          /\ sel.best \in sel.fit \cup {0} /\ sel.answer \in sel.fit \cup {0}
      BY <2>2 DEF RoutingInv, SelSound
    <2>4. req'[sel.by] = req[sel.by]
      <3>1. CASE sel.by = r
        BY <1>1, <2>2, <3>1
      <3>2. CASE sel.by # r
        BY <1>1, <2>3, <3>2
      <3>3. QED
        BY <3>1, <3>2
    <2>5. /\ sel' = [x \in SelFields |-> sel'[x]] /\ sel'.by = sel.by /\ sel'.fit = sel.fit
          /\ sel'.best = sel.best /\ sel'.answer = sel.answer
      <3>1. CASE sel' = sel
        BY <2>3, <3>1
      <3>2. CASE sel' = [sel EXCEPT !.steady = FALSE]
        BY <2>3, <3>2 DEF SelFields
      <3>3. QED
        BY <3>1, <3>2
    <2>6. In(sel.by, "choosing")' /\ Fit(sel.by)' = Fit(sel.by)
      BY <2>3, <2>4, <2>5 DEF In, Fit
    <2>7. QED
      BY <2>3, <2>5, <2>6
  <1>4. QED
    BY <1>1, <1>2, <1>3 DEF RoutingInv

-----------------------------------------------------------------------------
(* The steps *)

\* Steps that leave the requests alone: the selector, reloads, keys, the clock.
LEMMA OthersSound ==
    ASSUME RoutingInv, Looping \/ Outside
    PROVE  RoutingInv'
  <1>1. req' = req
    BY DEF Looping, Outside
  <1>2. SelSound'
    <2>1. CASE SelectStep
      <3> DEFINE i == SelectByWeight
                 fresh == i \notin sel.visited /\ Passed(i)
      <3>1. sel # Nobody
        BY <2>1 DEF SelectStep, Nobody
      <3>2. /\ sel = [x \in SelFields |-> sel[x]] /\ sel.by \in Callers
            /\ In(sel.by, "choosing") /\ sel.fit = Fit(sel.by)
            /\ sel.best \in sel.fit \cup {0} /\ sel.answer \in sel.fit \cup {0}
        BY <3>1 DEF RoutingInv, SelSound
      <3>3. fresh => i \in sel.fit
        BY DEF Passed
      <3>4. PICK visited, best, looping, answer :
              /\ sel' = [sel EXCEPT !.looping = looping, !.visited = visited,
                                    !.best = best, !.answer = answer]
              /\ best \in sel.fit \cup {0} /\ answer \in sel.fit \cup {0}
        <4>1. CASE fresh /\ ~ Cooling(i)
          <5>1. sel' = [sel EXCEPT !.looping = FALSE, !.visited = sel.visited \cup {i},
                                   !.answer = i]
            BY <2>1, <4>1 DEF SelectStep
          <5>2. sel' = [sel EXCEPT !.looping = FALSE, !.visited = sel.visited \cup {i},
                                   !.best = sel.best, !.answer = i]
            BY <3>2, <5>1 DEF SelFields
          <5>3. QED
            BY <3>2, <3>3, <4>1, <5>2
        <4>2. CASE ~ (fresh /\ ~ Cooling(i))
          <5>1. PICK best, visited : best \in sel.fit \cup {0} /\
                  sel' = [sel EXCEPT !.looping = visited # SubGroups, !.visited = visited,
                                     !.best = best,
                                     !.answer = IF visited = SubGroups THEN best ELSE 0]
            <6> DEFINE v == sel.visited \cup {i}
                       b == IF fresh /\ Cooling(i) /\ Earlier(i, sel.best) THEN i ELSE sel.best
            <6>1. b \in sel.fit \cup {0}
              BY <3>2, <3>3
            <6>2. sel' = [sel EXCEPT !.looping = v # SubGroups, !.visited = v, !.best = b,
                                     !.answer = IF v = SubGroups THEN b ELSE 0]
              BY <2>1, <4>2 DEF SelectStep
            <6> HIDE DEF v, b
            <6>3. QED
              BY <6>1, <6>2
          <5>2. (IF visited = SubGroups THEN best ELSE 0) \in sel.fit \cup {0}
            BY <5>1
          <5>3. QED
            BY <5>1, <5>2
        <4>3. QED
          BY <4>1, <4>2
      <3>5. /\ sel' = [x \in SelFields |-> sel'[x]] /\ sel'.by = sel.by
            /\ sel'.fit = sel.fit /\ sel'.best = best /\ sel'.answer = answer
        BY <3>2, <3>4 DEF SelFields
      <3>6. In(sel.by, "choosing")' /\ Fit(sel.by)' = Fit(sel.by)
        BY <1>1, <3>2, <3>5 DEF In, Fit
      <3>7. QED
        BY <3>2, <3>4, <3>5, <3>6 DEF SelSound
    <2>2. CASE KeysChange
      <3>1. CASE sel = Nobody
        BY <2>2, <3>1 DEF KeysChange, SelSound, Nobody
      <3>2. CASE sel # Nobody
        <4>1. /\ sel = [x \in SelFields |-> sel[x]] /\ sel.by \in Callers
              /\ In(sel.by, "choosing") /\ sel.fit = Fit(sel.by)
              /\ sel.best \in sel.fit \cup {0} /\ sel.answer \in sel.fit \cup {0}
          BY <3>2 DEF RoutingInv, SelSound
        <4>2. sel' = [sel EXCEPT !.steady = FALSE]
          BY <2>2, <3>2 DEF KeysChange
        <4>3. /\ sel' = [x \in SelFields |-> sel'[x]] /\ sel'.by = sel.by
              /\ sel'.fit = sel.fit /\ sel'.best = sel.best /\ sel'.answer = sel.answer
          BY <4>1, <4>2 DEF SelFields
        <4>4. In(sel.by, "choosing")' /\ Fit(sel.by)' = Fit(sel.by)
          BY <1>1, <4>1, <4>3 DEF In, Fit
        <4>5. QED
          BY <4>1, <4>3, <4>4 DEF SelSound
      <3>3. QED
        BY <3>1, <3>2
    <2>3. CASE Rebuild \/ Tick
      <3>1. sel' = Nobody
        BY <2>3 DEF Rebuild, Tick
      <3>2. QED
        BY <3>1 DEF SelSound, Nobody
    <2>4. QED
      BY <2>1, <2>2, <2>3 DEF Looping, Outside
  <1>3. QED
    BY <1>1, <1>2 DEF RoutingInv

\* A request takes the mutex of the selector.
LEMMA ChooseSound ==
    ASSUME RoutingInv, NEW r \in Callers, Choose(r)
    PROVE  RoutingInv'
  <1>1. req' = req /\ In(r, "choosing")
    BY DEF Choose
  <1>2. PICK looping, tier, visited, answer :
          answer \in Fit(r) \cup {0} /\
          sel' = [by |-> r, looping |-> looping, fit |-> Fit(r), tier |-> tier,
                  visited |-> visited, best |-> 0, steady |-> TRUE, answer |-> answer]
    <2>1. CASE Cardinality(SubGroups) = 1
      <3>1. PICK a \in Fit(r) \cup {0} :
              a = IF Fit(r) \cap keys = {} THEN 0 ELSE CHOOSE i \in Fit(r) \cap keys : TRUE
        OBVIOUS
      <3>2. QED
        <4>1. sel' = [by |-> r, looping |-> FALSE, fit |-> Fit(r), tier |-> NoTier,
                      visited |-> SubGroups, best |-> 0, steady |-> TRUE, answer |-> a]
          BY <2>1, <3>1 DEF Choose, StartSelect
        <4>2. QED
          BY <3>1, <4>1
    <2>2. CASE Cardinality(SubGroups) # 1
      <3>1. sel' = [by |-> r, looping |-> TRUE, fit |-> Fit(r),
                    tier |-> IF Tiered THEN BestTier(Fit(r)) ELSE NoTier, visited |-> {},
                    best |-> 0, steady |-> TRUE, answer |-> 0]
        BY <2>2 DEF Choose, StartSelect
      <3>2. QED
        BY <3>1
    <2>3. QED
      BY <2>1, <2>2
  <1>3. /\ sel' = [x \in SelFields |-> sel'[x]] /\ sel'.by = r /\ sel'.fit = Fit(r)
        /\ sel'.best = 0 /\ sel'.answer \in Fit(r) \cup {0}
    BY <1>2 DEF SelFields
  <1>4. In(sel.by, "choosing")' /\ Fit(sel.by)' = Fit(r)
    BY <1>1, <1>3 DEF In, Fit
  <1>5. QED
    BY <1>1, <1>3, <1>4 DEF RoutingInv, SelSound

\* Only a request that waits for the selector holds it, so that the others can
\* change as long as they stay sound.
LEMMA NotHolding ==
    ASSUME RoutingInv, NEW r \in Callers, NEW q, ~ In(r, "choosing"), Sound(q), Become(r, q),
           \/ sel' = sel
           \/ sel # Nobody /\ sel' = [sel EXCEPT !.steady = FALSE]
    PROVE  RoutingInv'
  <1>1. ~ (sel # Nobody /\ sel.by = r)
    BY DEF RoutingInv, SelSound, In
  <1>2. QED
    BY <1>1, BecomeSound

\* A request comes in.
LEMMA ArriveSound ==
    ASSUME RoutingInv, NEW r \in Callers, ArriveDirect(r) \/ ArriveAggregate(r)
    PROVE  RoutingInv'
  <1>1. req[r] = Fresh /\ ~ In(r, "choosing")
    <2>1. In(r, "new")
      <3>1. CASE ArriveDirect(r)
        BY <3>1, Zenon DEF ArriveDirect
      <3>2. CASE ArriveAggregate(r)
        BY <3>2, Zenon DEF ArriveAggregate
      <3> QED
        BY <3>1, <3>2
    <2>2. Sound(req[r])
      BY Zenon DEF RoutingInv
    <2>3. QED
      BY <2>1, <2>2 DEF Sound, In
  <1>2. sel' = sel
    BY DEF ArriveDirect, ArriveAggregate, selectorVars
  <1>3. PICK f : f = req[r] /\ Sound(f) /\ f \in RequestType /\ f.phase = "new"
               /\ f.calls = [i \in SubGroups |-> 0] /\ f.blamed = {} /\ f.attempted = {}
               /\ f.answers = 0 /\ f.finals = 0
    <2>1. Sound(Fresh) /\ Fresh \in RequestType
      BY FreshSound DEF Sound
    <2>2. /\ Fresh.phase = "new" /\ Fresh.calls = [i \in SubGroups |-> 0] /\ Fresh.blamed = {}
          /\ Fresh.attempted = {} /\ Fresh.answers = 0 /\ Fresh.finals = 0
      BY DEF Fresh
    <2>3. QED
      BY <1>1, <2>1, <2>2
  <1>4. CASE ArriveDirect(r)
    <2>1. PICK i \in SubGroups, routed \in BOOLEAN :
            Become(r, [Enter(req[r], i, Unnamed) EXCEPT !.aggregate = FALSE, !.routed = routed])
      BY <1>4 DEF ArriveDirect
    <2>2. PICK e : e = Enter(f, i, Unnamed)
      OBVIOUS
    <2>3. Unnamed \in Bodies
      BY DEF Bodies
    <2>4. Sound(e)
      BY <1>3, <2>2, <2>3, EnterSound
    <2>5. e.blamed = {}
      BY <1>3, <2>2 DEF Enter, RequestType
    <2>6. PICK d : d = [e EXCEPT !.aggregate = FALSE, !.routed = routed]
      OBVIOUS
    <2>7. e \in RequestType
      BY <2>4 DEF Sound
    <2>8. e.phase = "keying"
      BY <1>3, <2>2 DEF Enter, RequestType
    <2>9. /\ d \in RequestType /\ d.phase = e.phase /\ d.group = e.group
          /\ d.retry = e.retry /\ d.calls = e.calls /\ d.attempted = e.attempted
          /\ d.blamed = e.blamed /\ d.answers = e.answers /\ d.finals = e.finals
          /\ d.gone = e.gone
      BY <2>7, <2>6 DEF RequestType
    <2>10. Sound(d)
      BY <2>8, <2>4, <2>5, <2>9 DEF Sound, Spent, Settled, Trying
    <2>11. QED
      BY <1>1, <1>2, <1>3, <2>1, <2>2, <2>6, <2>10, NotHolding
  <1>5. CASE ArriveAggregate(r)
    <2>1. PICK q, m, pool :
            /\ m \in Models \cup {Unnamed}
            /\ q = [f EXCEPT !.model = m, !.body = m]
            /\ pool = IF m = Unnamed THEN <<>> ELSE Pool[m]
            /\ IF pool = <<>>
               THEN Become(r, [q EXCEPT !.phase = "choosing"])
               ELSE Become(r, [Enter(q, pool[1].group, pool[1].model) EXCEPT
                                  !.cursor = 2, !.attempted = {pool[1].group}])
      BY <1>3, <1>5 DEF ArriveAggregate
    <2>2. /\ q \in RequestType /\ q.phase = "new" /\ q.calls = f.calls
          /\ q.blamed = {} /\ q.attempted = {} /\ q.aggregate = f.aggregate
          /\ q.answers = 0 /\ q.finals = 0
      BY <1>3, <2>1 DEF RequestType, Bodies
    <2>3. f.aggregate = TRUE
      BY <1>1, <1>3 DEF Fresh
    <2>4. CASE pool = <<>>
      <3>1. PICK e : e = [q EXCEPT !.phase = "choosing"]
        OBVIOUS
      <3>2. /\ e \in RequestType /\ e.phase = "choosing" /\ e.calls = q.calls
            /\ e.blamed = {} /\ e.attempted = {} /\ e.aggregate
            /\ e.answers = 0 /\ e.finals = 0
        BY <2>2, <2>3, <3>1 DEF RequestType, Phases
      <3>3. Sound(e)
        BY <1>3, <2>2, <3>2 DEF Sound, Spent, Settled, Trying
      <3>4. QED
        BY <1>1, <1>2, <2>1, <2>4, <3>1, <3>3, NotHolding
    <2>5. CASE pool # <<>>
      <3>1. m \in Models /\ pool = Pool[m] /\ 1 \in 1..Len(Pool[m])
        BY <2>1, <2>5, PoolNotEmpty
      <3>2. PICK i, body : i = pool[1].group /\ body = pool[1].model
                        /\ i \in SubGroups /\ body \in Bodies
        BY <3>1, PoolFields
      <3>3. PICK e : e = [Enter(q, i, body) EXCEPT !.cursor = 2, !.attempted = {i}]
        OBVIOUS
      <3>4. /\ e \in RequestType /\ e.phase = "keying" /\ e.group = i /\ e.retry = 0
            /\ e.calls = q.calls /\ e.blamed = {} /\ e.attempted = {i} /\ e.aggregate
            /\ e.answers = 0 /\ e.finals = 0
        BY <2>2, <2>3, <3>2, <3>3 DEF Enter, RequestType, Phases
      <3>5. Sound(e)
        BY <1>3, <2>2, <3>2, <3>4 DEF Sound, Spent, Settled, Trying
      <3>6. QED
        BY <1>1, <1>2, <2>1, <2>5, <3>2, <3>3, <3>5, NotHolding
    <2>6. QED
      BY <2>4, <2>5
  <1>6. QED
    BY <1>4, <1>5

\* The selector answers: the sub-group was not tried before.
LEMMA ChosenSound ==
    ASSUME RoutingInv, NEW r \in Callers, Chosen(r)
    PROVE  RoutingInv'
  <1>1. PICK q : q = req[r] /\ Sound(q) /\ q \in RequestType /\ q.phase = "choosing"
    BY DEF RoutingInv, Sound, Chosen, In
  <1>2. sel # Nobody /\ sel.by = r /\ sel.answer \in Fit(r) \cup {0} /\ sel' = Nobody
    BY DEF RoutingInv, SelSound, Chosen, Answered, Release
  <1>3. PICK p : /\ p = IF sel.answer = 0
                        THEN End(q, 1, IF q.attempted = {} THEN 0 ELSE 1)
                        ELSE LET e == Enter(q, sel.answer, q.body)
                             IN  IF q.attempted = {}
                                 THEN [e EXCEPT !.attempted = {sel.answer}] ELSE e
                 /\ Become(r, p)
    BY <1>1 DEF Chosen
  <1>4. Sound(p)
    <2>1. CASE sel.answer = 0
      <3>1. (IF q.attempted = {} THEN 0 ELSE 1) \in 0..1
        OBVIOUS
      <3>2. QED
        BY <1>1, <1>3, <2>1, <3>1, EndSound
    <2>2. CASE sel.answer # 0
      <3>1. PICK i \in SubGroups : i = sel.answer /\ i \notin q.attempted
        BY <1>1, <1>2, <2>2 DEF Fit
      <3>2. /\ q.calls[i] = 0 /\ i \notin q.blamed /\ q.body \in Bodies /\ q.aggregate
            /\ \A j \in SubGroups \ (q.attempted \cup {i}) : q.calls[j] = 0
            /\ q.answers = 0 /\ q.finals = 0
        BY <1>1, <3>1 DEF Sound, Spent, Settled, RequestType
      <3>3. PICK e : e = Enter(q, i, q.body) /\ Sound(e)
        BY <1>1, <3>2, EnterSound
      <3>4. CASE q.attempted # {}
        BY <1>3, <2>2, <3>1, <3>3, <3>4
      <3>5. CASE q.attempted = {}
        <4>1. p = [e EXCEPT !.attempted = {i}]
          BY <1>3, <2>2, <3>1, <3>3, <3>5
        <4>2. /\ e \in RequestType /\ e.phase = "keying" /\ e.group = i
              /\ e.retry = 0 /\ e.calls = q.calls
          BY <1>1, <3>3 DEF Enter, Sound, RequestType
        <4>3. e.blamed = {}
          BY <1>1, <3>3, <3>5 DEF Enter, Sound, Spent, RequestType
        <4>4. /\ p \in RequestType /\ p.phase = "keying" /\ p.group = i /\ p.retry = 0
              /\ p.calls = e.calls /\ p.blamed = {} /\ p.attempted = {i}
              /\ p.answers = e.answers /\ p.finals = e.finals
          BY <3>1, <4>1, <4>2, <4>3 DEF RequestType
        <4>5. Sound(p)
          BY <3>2, <3>3, <3>5, <4>2, <4>4 DEF Sound, Spent, Settled, Trying
        <4>6. QED
          BY <4>5
      <3>6. QED
        BY <3>4, <3>5
    <2>3. QED
      BY <2>1, <2>2
  <1>5. req' \in [Callers -> RequestType] /\ \A t \in Callers : Sound(req'[t])
    BY <1>3, <1>4 DEF RoutingInv, Become, Sound
  <1>6. QED
    BY <1>2, <1>5 DEF RoutingInv, SelSound, Nobody

\* A call is made, or none can be.
LEMMA CallSound ==
    ASSUME RoutingInv, NEW r \in Callers,
           SendUpstream(r) \/ NoKey(r) \/ Unsendable(r) \/ UpstreamAnswers(r)
             \/ StreamFlows(r) \/ ClientLeaves(r) \/ Abandon(r) \/ Leave(r)
    PROVE  RoutingInv'
  <1>1. sel' = sel
    BY DEF SendUpstream, NoKey, Unsendable, UpstreamAnswers, StreamFlows, ClientLeaves,
           Abandon, Leave, selectorVars
  <1>2. PICK q : q = req[r] /\ Sound(q) /\ q \in RequestType
    BY DEF RoutingInv, Sound
  <1>3. CASE SendUpstream(r)
    <2>1. q.phase = "keying" /\ q.group \in SubGroups
      BY <1>2, <1>3 DEF SendUpstream, In, Sound, Spent, Trying
    <2>2. PICK p : p = [q EXCEPT !.phase = "sent", !.calls[q.group] = @ + 1] /\ Become(r, p)
      BY <1>2, <1>3 DEF SendUpstream
    <2>3. /\ p \in RequestType /\ p.phase = "sent" /\ p.group = q.group /\ p.retry = q.retry
          /\ p.calls = [q.calls EXCEPT ![q.group] = @ + 1] /\ p.blamed = q.blamed
          /\ p.attempted = q.attempted /\ p.aggregate = q.aggregate
          /\ p.answers = q.answers /\ p.finals = q.finals
      <3>1. q.calls \in [SubGroups -> Nat]
        BY <1>2 DEF RequestType
      <3>2. PICK c \in [SubGroups -> Nat] : c = [q.calls EXCEPT ![q.group] = @ + 1]
        <4>1. PICK k \in [SubGroups -> Nat], g \in SubGroups : k = q.calls /\ g = q.group
          BY <2>1, <3>1
        <4>2. PICK n \in Nat : n = k[g] + 1
          OBVIOUS
        <4>3. [k EXCEPT ![g] = n] \in [SubGroups -> Nat]
          OBVIOUS
        <4>4. [q.calls EXCEPT ![q.group] = @ + 1] = [k EXCEPT ![g] = n]
          BY <4>1, <4>2
        <4>5. QED
          BY <4>3, <4>4
      <3>3. p = [q EXCEPT !.phase = "sent", !.calls = c]
        BY <1>2, <2>2, <3>2 DEF RequestType
      <3>4. QED
        BY <1>2, <3>2, <3>3 DEF RequestType, Phases
    <2>4. Spent(p)
      BY <1>2, <2>1, <2>3 DEF Sound, Spent, Trying, RequestType
    <2>5. Sound(p)
      BY <1>2, <2>1, <2>3, <2>4 DEF Sound, Settled
    <2>6. QED
      BY <1>1, <1>2, <2>1, <2>2, <2>5, NotHolding DEF In
  <1>4. CASE NoKey(r)
    BY <1>1, <1>2, <1>4, EndSound, NotHolding DEF NoKey, In
  <1>5. CASE Unsendable(r)
    <2>1. PICK finals \in 0..1 : Become(r, End(q, 1, finals)) /\ q.phase = "keying"
      BY <1>2, <1>5 DEF Unsendable, In
    <2>2. QED
      BY <1>1, <1>2, <2>1, EndSound, NotHolding DEF In
  <1>6. CASE UpstreamAnswers(r)
    <2>1. q.phase = "sent"
      BY <1>2, <1>6 DEF UpstreamAnswers, In
    <2>2. CASE Become(r, End(req[r], 1, 1))
      BY <1>1, <1>2, <2>1, <2>2, EndSound, NotHolding DEF In
    <2>3. CASE Become(r, [req[r] EXCEPT !.phase = "streaming"])
      <3>1. PICK p : p = [q EXCEPT !.phase = "streaming"]
        OBVIOUS
      <3>2. /\ p \in RequestType /\ p.phase = "streaming" /\ p.group = q.group
            /\ p.retry = q.retry /\ p.calls = q.calls /\ p.blamed = q.blamed
            /\ p.attempted = q.attempted /\ p.aggregate = q.aggregate
            /\ p.answers = q.answers /\ p.finals = q.finals
        BY <1>2, <3>1 DEF RequestType, Phases
      <3>3. Sound(p)
        BY <1>2, <2>1, <3>2 DEF Sound, Spent, Settled, Trying
      <3>4. QED
        BY <1>1, <1>2, <2>1, <2>3, <3>1, <3>3, NotHolding DEF In
    <2>4. QED
      BY <1>6, <2>2, <2>3 DEF UpstreamAnswers
  <1>7. CASE StreamFlows(r)
    <2>1. q.phase = "streaming"
      BY <1>2, <1>7 DEF StreamFlows, In
    <2>2. PICK e : e = End(q, 1, 1) /\ Sound(e) /\ e \in RequestType
      BY <1>2, <2>1, EndSound DEF Sound
    <2>3. e.phase = "done"
      BY <2>2, FreshSound DEF End, Sound, Fresh
    <2>4. PICK p : p = [e EXCEPT !.wrote = TRUE]
      OBVIOUS
    <2>5. /\ p \in RequestType /\ p.phase = "done" /\ p.group = e.group /\ p.gone = e.gone
          /\ p.calls = e.calls /\ p.blamed = e.blamed /\ p.attempted = e.attempted
          /\ p.aggregate = e.aggregate /\ p.answers = e.answers /\ p.finals = e.finals
      BY <2>2, <2>3, <2>4 DEF RequestType
    <2>6. Sound(p)
      BY <2>2, <2>3, <2>5 DEF Sound, Spent, Settled, Trying
    <2>7. QED
      BY <1>1, <1>2, <1>7, <2>1, <2>2, <2>4, <2>6, NotHolding DEF StreamFlows, In
  <1>8. CASE ClientLeaves(r)
    <2>1. q.phase \in {"sent", "streaming"}
      BY <1>2, <1>8 DEF ClientLeaves
    <2>2. PICK p : p = [q EXCEPT !.gone = TRUE] /\ Become(r, p)
      BY <1>2, <1>8 DEF ClientLeaves
    <2>3. /\ p \in RequestType /\ p.phase = q.phase /\ p.group = q.group
          /\ p.retry = q.retry /\ p.calls = q.calls /\ p.blamed = q.blamed
          /\ p.attempted = q.attempted /\ p.aggregate = q.aggregate
          /\ p.answers = q.answers /\ p.finals = q.finals
      BY <1>2, <2>2 DEF RequestType
    <2>4. Sound(p)
      BY <1>2, <2>1, <2>3 DEF Sound, Spent, Settled, Trying
    <2>5. QED
      BY <1>1, <1>2, <2>1, <2>2, <2>4, NotHolding DEF In
  <1>9. CASE Abandon(r)
    BY <1>1, <1>2, <1>9, EndSound, NotHolding DEF Abandon, In
  <1>10. CASE Leave(r)
    BY <1>1, <1>10, FreshSound, NotHolding DEF Leave, In
  <1>11. QED
    BY <1>3, <1>4, <1>5, <1>6, <1>7, <1>8, <1>9, <1>10

\* What a failed attempt knows: the request has an attempt on its sub-group.
LEMMA FailsTrying ==
    ASSUME RoutingInv, NEW r \in Callers, NEW failure, Fails(r, failure)
    PROVE  /\ Sound(req[r]) /\ req[r] \in RequestType /\ ~ In(r, "choosing")
           /\ req[r].phase \in {"sent", "streaming"} /\ req[r].group \in SubGroups
           /\ req[r].calls[req[r].group] = req[r].retry + 1
  <1>1. Sound(req[r]) /\ req[r].phase \in {"sent", "streaming"}
    BY DEF RoutingInv, Fails, In
  <1>2. QED
    BY <1>1 DEF Sound, Spent, Trying, In

\* A failed attempt is retried, or ends the request.
LEMMA RetrySound ==
    ASSUME RoutingInv, NEW r \in Callers, Retry(r) \/ GiveUp(r)
    PROVE  RoutingInv'
  <1>1. PICK failure : Fails(r, failure)
    BY DEF Retry, GiveUp
  <1>2. PICK q : /\ q = req[r] /\ Sound(q) /\ q \in RequestType /\ ~ In(r, "choosing")
                 /\ q.phase \in {"sent", "streaming"} /\ q.group \in SubGroups
                 /\ q.calls[q.group] = q.retry + 1
    BY <1>1, FailsTrying
  <1>3. \/ sel' = sel
        \/ sel # Nobody /\ sel' = [sel EXCEPT !.steady = FALSE]
    BY DEF Retry, GiveUp, Unsettle
  <1>4. CASE Retry(r)
    <2>1. ~ (q.retry >= MaxRetries[q.group])
      BY <1>2, <1>4 DEF Retry, Exhausted
    <2>2. PICK p : p = [q EXCEPT !.phase = "keying", !.retry = @ + 1] /\ Become(r, p)
      BY <1>2, <1>4 DEF Retry
    <2>3. /\ p \in RequestType /\ p.phase = "keying" /\ p.group = q.group
          /\ p.retry = q.retry + 1 /\ p.calls = q.calls /\ p.blamed = q.blamed
          /\ p.attempted = q.attempted /\ p.aggregate = q.aggregate
          /\ p.answers = q.answers /\ p.finals = q.finals
      BY <1>2, <2>2 DEF RequestType, Phases
    <2>4. p.retry <= MaxRetries[p.group]
      BY <1>2, <2>1, <2>3 DEF RequestType
    <2>5. Spent(p)
      BY <1>2, <2>3, <2>4 DEF Sound, Spent, Trying
    <2>6. Sound(p)
      BY <1>2, <2>3, <2>5 DEF Sound, Settled
    <2>7. QED
      BY <1>2, <1>3, <2>2, <2>6, NotHolding
  <1>5. CASE GiveUp(r)
    <2>1. Become(r, End(q, 1, 1)) /\ Sound(End(q, 1, 1))
      BY <1>2, <1>5, EndSound DEF GiveUp
    <2>2. QED
      BY <1>2, <1>3, <2>1, NotHolding
  <1>6. QED
    BY <1>4, <1>5

\* The request blames its sub-group once its retries there are used, and goes on
\* with one that it has not tried, or asks the selector for one.
LEMMA FailoverSound ==
    ASSUME RoutingInv, NEW r \in Callers, Failover(r)
    PROVE  RoutingInv'
  <1>1. PICK failure : Fails(r, failure) /\ CanFailover(r)
    BY DEF Failover
  <1>2. PICK q : /\ q = req[r] /\ Sound(q) /\ q \in RequestType /\ ~ In(r, "choosing")
                 /\ q.phase \in {"sent", "streaming"} /\ q.group \in SubGroups
                 /\ q.calls[q.group] = q.retry + 1
    BY <1>1, FailsTrying
  <1>3. q.retry = MaxRetries[q.group] /\ q.aggregate
    BY <1>1, <1>2 DEF CanFailover, Exhausted, Sound, Spent, Trying, RequestType
  <1>4. PICK tried, b : /\ tried = q.attempted \cup {q.group}
                        /\ b = q.blamed \cup {q.group}
    OBVIOUS
  <1>5. PICK f : f = [q EXCEPT !.attempted = tried, !.blamed = b]
    OBVIOUS
  <1>6. tried \subseteq SubGroups /\ b \subseteq SubGroups
    BY <1>2, <1>4 DEF RequestType
  <1>7. /\ f \in RequestType /\ f.phase = q.phase /\ f.group = q.group
        /\ f.calls = q.calls /\ f.attempted = tried /\ f.blamed = b
        /\ f.aggregate = q.aggregate /\ f.answers = q.answers /\ f.finals = q.finals
        /\ f.cursor = q.cursor /\ f.model = q.model
    BY <1>2, <1>5, <1>6 DEF RequestType
  <1>8. /\ \A i \in SubGroups : f.calls[i] <= MaxRetries[i] + 1
        /\ \A i \in f.blamed : /\ i \in f.attempted /\ f.aggregate
                                /\ f.calls[i] = MaxRetries[i] + 1
        /\ \A i \in SubGroups \ tried : f.calls[i] = 0
    BY <1>2, <1>3, <1>4, <1>7 DEF Sound, Spent, Trying
  <1>9. f.answers = 0 /\ f.finals = 0
    BY <1>2, <1>7 DEF Sound, Settled
  <1>10. PICK untried : untried = Untried(r, tried)
    OBVIOUS
  <1>11. \/ Become(r, [f EXCEPT !.phase = "choosing", !.cursor = Len(PoolOf(r)) + 1])
         \/ \E n \in untried :
               Become(r, [Enter(f, PoolOf(r)[n].group, PoolOf(r)[n].model) EXCEPT
                             !.cursor = n + 1])
    BY <1>2, <1>4, <1>5, <1>10 DEF Failover
  <1>12. sel' = sel
    BY DEF Failover
  <1>13. q.model \in Models \cup {Unnamed}
    BY <1>2 DEF RequestType
  <1>14. Len(PoolOf(r)) \in Nat
    <2>1. CASE q.model = Unnamed
      BY <1>2, <2>1 DEF PoolOf
    <2>2. CASE q.model \in Models
      <3>1. PICK s \in Seq([group : SubGroups, model : RealModels]) : s = Pool[q.model]
        BY <2>2
      <3>2. PoolOf(r) = s
        BY <1>2, <2>2, <3>1 DEF PoolOf
      <3>3. QED
        BY <3>2
    <2>3. QED
      BY <1>13, <2>1, <2>2
  <1>15. CASE Become(r, [f EXCEPT !.phase = "choosing", !.cursor = Len(PoolOf(r)) + 1])
    <2>1. PICK c \in Nat : c = Len(PoolOf(r)) + 1
      BY <1>14
    <2>2. PICK p : p = [f EXCEPT !.phase = "choosing", !.cursor = c] /\ Become(r, p)
      BY <1>15, <2>1
    <2>3. /\ p \in RequestType /\ p.phase = "choosing" /\ p.calls = f.calls
          /\ p.attempted = tried /\ p.blamed = f.blamed /\ p.aggregate = f.aggregate
          /\ p.answers = 0 /\ p.finals = 0
      BY <1>7, <1>9, <2>2 DEF RequestType, Phases
    <2>4. Sound(p)
      BY <1>3, <1>7, <1>8, <2>3 DEF Sound, Spent, Settled, Trying
    <2>5. QED
      BY <1>2, <1>12, <2>2, <2>4, NotHolding
  <1>16. CASE \E n \in untried :
                Become(r, [Enter(f, PoolOf(r)[n].group, PoolOf(r)[n].model) EXCEPT
                              !.cursor = n + 1])
    <2>1. PICK n \in untried :
                Become(r, [Enter(f, PoolOf(r)[n].group, PoolOf(r)[n].model) EXCEPT
                              !.cursor = n + 1])
      BY <1>16
    <2>2. n \in 1..Len(PoolOf(r)) /\ PoolOf(r)[n].group \notin tried
      BY <1>10, <2>1 DEF Untried
    <2>3. q.model \in Models
      <3>1. CASE q.model = Unnamed
        BY <1>2, <2>2, <3>1 DEF PoolOf
      <3>2. QED
        BY <1>13, <3>1
    <2>4. PoolOf(r) = Pool[q.model]
      BY <1>2, <2>3 DEF PoolOf
    <2>5. PICK i, body : /\ i = PoolOf(r)[n].group /\ body = PoolOf(r)[n].model
                         /\ i \in SubGroups /\ body \in Bodies
      BY <2>2, <2>3, <2>4, PoolFields
    <2>6. PICK c \in Nat : c = n + 1
      BY <1>14, <2>2
    <2>7. PICK p : p = [Enter(f, i, body) EXCEPT !.cursor = c] /\ Become(r, p)
      BY <2>1, <2>5, <2>6
    <2>8. /\ p \in RequestType /\ p.phase = "keying" /\ p.group = i /\ p.retry = 0
          /\ p.calls = f.calls /\ p.attempted = tried /\ p.blamed = f.blamed
          /\ p.aggregate = f.aggregate /\ p.answers = 0 /\ p.finals = 0
      BY <1>7, <1>9, <2>5, <2>7 DEF Enter, RequestType, Phases
    <2>9. i \notin f.blamed /\ f.calls[i] = 0
      BY <1>7, <1>8, <2>2, <2>5
    <2>10. Spent(p)
      BY <1>7, <1>8, <2>5, <2>8, <2>9 DEF Spent, Trying
    <2>11. Sound(p)
      BY <2>8, <2>10 DEF Sound, Settled
    <2>12. QED
      BY <1>2, <1>12, <2>7, <2>11, NotHolding
  <1>17. QED
    BY <1>11, <1>15, <1>16

-----------------------------------------------------------------------------
(* The invariant *)

\* It holds of the initial states.
LEMMA InitSound ==
    ASSUME Init
    PROVE  RoutingInv
  <1>1. sel = Nobody /\ req = [r \in Callers |-> Fresh]
    BY DEF Init, SelectorInit
  <1>2. QED
    BY <1>1, FreshSound DEF RoutingInv, SelSound, Sound

\* Every step preserves it.
LEMMA NextSound ==
    ASSUME RoutingInv, [Next]_routingVars
    PROVE  RoutingInv'
  <1>1. CASE \E r \in Callers : ArriveDirect(r) \/ ArriveAggregate(r) \/ ClientLeaves(r) \/ Leave(r)
    BY <1>1, ArriveSound, CallSound
  <1>2. CASE \E r \in Callers : Step(r)
    BY <1>2, ChooseSound, ChosenSound, CallSound, RetrySound, FailoverSound DEF Step
  <1>3. CASE Looping \/ Outside
    BY <1>3, OthersSound
  <1>4. CASE UNCHANGED routingVars
    <2>1. req' = req /\ sel' = sel
      BY <1>4 DEF routingVars, selectorVars
    <2>2. QED
      BY <2>1 DEF RoutingInv, SelSound, In, Fit
  <1>5. QED
    BY <1>1, <1>2, <1>3, <1>4 DEF Next

\* It implies the three properties.
LEMMA SoundRequests ==
    ASSUME RoutingInv
    PROVE  CallsBounded /\ BlameAfterAllTries /\ EndsOnce
  <1>1. CallsBounded
    BY DEF RoutingInv, Sound, Spent, CallsBounded
  <1>2. BlameAfterAllTries
    BY DEF RoutingInv, Sound, Spent, BlameAfterAllTries
  <1>3. EndsOnce
    BY DEF RoutingInv, Sound, Settled, EndsOnce, In
  <1>4. QED
    BY <1>1, <1>2, <1>3

\* The invariant of the specification: requests are sound, and the selection in
\* progress is for a request that waits for it.
LEMMA RoutingInvariant == Spec => []RoutingInv
  <1>1. QED
    BY InitSound, NextSound, PTL DEF Spec

\* However requests, selections, reloads and key changes interleave, no request
\* calls a sub-group more than MaxRetries + 1 times (attemptedSubGroups and the
\* retry counter of executeRequestWithRetry together).
THEOREM CallsBoundedCorrect == Spec => []CallsBounded
  <1>1. QED
    BY RoutingInvariant, SoundRequests, PTL

\* A sub-group is reported as failing only after all its retries
\* (handleAttemptFailure).
THEOREM BlameAfterAllTriesCorrect == Spec => []BlameAfterAllTries
  <1>1. QED
    BY RoutingInvariant, SoundRequests, PTL

\* A request is answered once and has at most one final log record
\* (executeRequestWithRetry, handleAttemptFailure).
THEOREM EndsOnceCorrect == Spec => []EndsOnce
  <1>1. QED
    BY RoutingInvariant, SoundRequests, PTL

-----------------------------------------------------------------------------
(* The choice of the selector *)

BreakerItem == [failures : 0..MaxHits, left : Nat]

\* The first sub-groups seen so far: those that the tests let pass cool down, and the one
\* that is remembered is the first of them to recover.
ChoiceSound(visited, best) ==
    /\ \A i \in visited : Passed(i) =>
          Cooling(i) /\ best \in SubGroups /\ breaker[best].left <= breaker[i].left
    /\ best # NONE => Passed(best) /\ Cooling(best)

\* As long as no key has changed since a selection began, its tier is the best one.
Choosing ==
    sel.looping /\ sel.steady =>
        /\ sel.tier = IF Tiered THEN BestTier(sel.fit) ELSE NoTier
        /\ ChoiceSound(sel.visited, sel.best)

SelectorInv ==
    /\ breaker \in [SubGroups -> BreakerItem]
    /\ latency \in [SubGroups -> Latencies \cup {0}]
    /\ keys \subseteq SubGroups
    /\ sel \in Selections \cup {Nobody}
    /\ Choosing

\* Every cooldown is a number: the ladder stops at its fourth step.
LEMMA CooldownIs ==
    ASSUME NEW failure, NEW retryAfter \in RetryAfters, NEW hits \in 0..MaxHits
    PROVE  Cooldown(failure, retryAfter, hits) \in Nat
  <1>1. PICK base \in Nat, max \in Nat : base = ServerBase /\ max = ServerMax
    BY SelectorAssumption
  <1>2. PICK h \in 0..4 : h = Min2(hits, MaxHits)
    BY SelectorAssumption DEF Min2
  <1>3. Min2(base * 2 ^ h, max) \in Nat
    <2>1. 2 ^ 0 = 1 /\ 2 ^ 1 = 2 /\ 2 ^ 2 = 4 /\ 2 ^ 3 = 8 /\ 2 ^ 4 = 16
      OBVIOUS
    <2>2. PICK power \in {1, 2, 4, 8, 16} : power = 2 ^ h
      <3>1. h = 0 \/ h = 1 \/ h = 2 \/ h = 3 \/ h = 4
        OBVIOUS
      <3>2. QED
        BY <2>1, <3>1
    <2>3. base * power \in Nat
      OBVIOUS
    <2>4. QED
      BY <2>2, <2>3 DEF Min2
  <1>4. /\ TransientDefault \in Nat /\ TransientMax \in Nat /\ ExhaustedDefault \in Nat
        /\ PaymentCooldown \in Nat /\ retryAfter \in Nat
    BY SelectorAssumption
  <1>5. Min2(retryAfter, TransientMax) \in Nat
    BY <1>4 DEF Min2
  <1>6. Cooldown(failure, retryAfter, hits) \in
          {Min2(retryAfter, TransientMax), TransientDefault, retryAfter, ExhaustedDefault,
           PaymentCooldown, Min2(base * 2 ^ h, max), 0}
    BY <1>1, <1>2 DEF Cooldown
  <1>7. QED
    BY <1>3, <1>4, <1>5, <1>6

\* What a failure does to the breaker keeps its type.
LEMMA FailedIs ==
    ASSUME breaker \in [SubGroups -> BreakerItem], NEW i \in SubGroups, NEW failure,
           NEW retryAfter \in RetryAfters
    PROVE  Failed(i, failure, retryAfter) \in [SubGroups -> BreakerItem]
  <1>1. PICK b \in BreakerItem : b = breaker[i]
    OBVIOUS
  <1>2. PICK pause \in Nat : pause = Cooldown(failure, retryAfter, b.failures)
    BY <1>1, CooldownIs DEF BreakerItem
  <1>3. PICK hits \in 0..MaxHits :
          hits = IF Escalates(failure) THEN Min2(b.failures + 1, MaxHits) ELSE b.failures
    BY SelectorAssumption DEF BreakerItem, Min2
  <1>4. PICK left \in Nat : left = IF pause > 0 THEN pause ELSE b.left
    BY DEF BreakerItem
  <1>5. Failed(i, failure, retryAfter) = [breaker EXCEPT ![i] = [b EXCEPT !.failures = hits, !.left = left]]
    BY <1>1, <1>2, <1>3, <1>4 DEF Failed, BreakerItem
  <1>6. [b EXCEPT !.failures = hits, !.left = left] \in BreakerItem
    BY DEF BreakerItem
  <1>7. QED
    BY <1>5, <1>6

\* The best tier is a priority, if a sub-group is eligible at all, and the least.
LEMMA BestTierIs ==
    ASSUME config \in Configs, NEW fit \in SUBSET SubGroups
    PROVE  /\ BestTier(fit) \in Int
           /\ \A i \in fit \cap keys : ~ Cooling(i) =>
                 /\ BestTier(fit) <= Priority[i]
                 /\ \E j \in fit \cap keys : ~ Cooling(j) /\ Priority[j] = BestTier(fit)
  <1> DEFINE eligible == {i \in fit \cap keys : ~ Cooling(i)}
             S == {Priority[i] : i \in eligible}
  <1>1. \A i \in SubGroups : Priority[i] \in Nat
    BY SelectorAssumption DEF Priority
  <1>2. CASE eligible = {}
    BY <1>2 DEF BestTier, NoTier
  <1>3. CASE eligible # {}
    <2>1. S \subseteq Nat /\ S # {}
      BY <1>1, <1>3
    <2>2. Min(S) \in S /\ \A n \in S : Min(S) <= n
      <3> HIDE DEF S
      <3>1. \E n \in S : \A k \in S : n <= k
        BY <2>1, LeastNumber
      <3>2. QED
        BY <3>1 DEF Min
    <2>3. BestTier(fit) = Min(S)
      BY <1>3 DEF BestTier
    <2>4. PICK least \in Nat : least = BestTier(fit) /\ least \in S /\ \A n \in S : least <= n
      BY <2>1, <2>2, <2>3
    <2>5. \A i \in eligible : least <= Priority[i]
      BY <2>4
    <2>6. \E j \in eligible : Priority[j] = least
      BY <2>4
    <2>7. QED
      BY <2>4, <2>5, <2>6
  <1>4. QED
    BY <1>2, <1>3

\* A turn that does not end the selection remembers the first to recover.
LEMMA SeenSound ==
    ASSUME breaker \in [SubGroups -> BreakerItem],
           NEW visited \in SUBSET SubGroups, NEW best \in SubGroups \cup {NONE},
           ChoiceSound(visited, best), NEW i \in SubGroups,
           i \notin visited /\ Passed(i) => Cooling(i),
           NEW b, b = IF i \notin visited /\ Passed(i) /\ Cooling(i) /\ Earlier(i, best)
                      THEN i ELSE best
    PROVE  ChoiceSound(visited \cup {i}, b)
  <1>1. NONE \notin SubGroups
    BY SelectorAssumption
  <1>2. \A j \in SubGroups : breaker[j].left \in Nat
    BY DEF BreakerItem
  <1>3. CASE i \notin visited /\ Passed(i) /\ Cooling(i) /\ Earlier(i, best)
    <2>1. b = i
      BY <1>3
    <2>2. \A j \in visited : Passed(j) => Cooling(j) /\ breaker[i].left <= breaker[j].left
      BY <1>1, <1>2, <1>3 DEF ChoiceSound, Earlier
    <2>3. QED
      BY <1>2, <1>3, <2>1, <2>2 DEF ChoiceSound
  <1>4. CASE ~ (i \notin visited /\ Passed(i) /\ Cooling(i) /\ Earlier(i, best))
    <2>1. b = best
      BY <1>4
    <2>2. i \notin visited /\ Passed(i) =>
             Cooling(i) /\ best \in SubGroups /\ breaker[best].left <= breaker[i].left
      BY <1>2, <1>4 DEF Earlier
    <2>3. QED
      BY <2>1, <2>2 DEF ChoiceSound
  <1>5. QED
    BY <1>3, <1>4

\* One turn, as the record that it leaves.
LEMMA TurnIs ==
    ASSUME CurrentsInv, SelectorInv, SelectStep
    PROVE  LET i == SelectByWeight
               fresh == i \notin sel.visited /\ Passed(i)
           IN /\ i \in SubGroups /\ sel \in Selections /\ sel' \in Selections
              /\ UNCHANGED <<config, breaker, keys>>
              /\ sel'.fit = sel.fit /\ sel'.tier = sel.tier /\ sel'.steady = sel.steady
              /\ sel'.visited = sel.visited \cup {i}
              /\ fresh /\ ~ Cooling(i) => ~ sel'.looping /\ sel'.answer = i
              /\ ~ (fresh /\ ~ Cooling(i)) =>
                    /\ sel'.looping = (sel'.visited # SubGroups)
                    /\ sel'.best = IF fresh /\ Cooling(i) /\ Earlier(i, sel.best) THEN i ELSE sel.best
                    /\ ~ sel'.looping => sel'.answer = sel'.best
  <1>1. PICK i \in SubGroups : i = SelectByWeight
    BY TurnChooses
  <1>2. PICK s \in Selections : s = sel
    BY DEF SelectorInv, SelectStep, Nobody
  <1>3. PICK v \in SUBSET SubGroups : v = s.visited \cup {i}
    BY DEF Selections
  <1>4. UNCHANGED <<config, breaker, keys>>
    BY DEF SelectStep
  <1>5. CASE i \notin s.visited /\ Passed(i) /\ ~ Cooling(i)
    <2>1. sel' = [s EXCEPT !.looping = FALSE, !.visited = v, !.answer = i]
      BY <1>1, <1>2, <1>3, <1>5 DEF SelectStep
    <2>2. PICK n : n = [s EXCEPT !.looping = FALSE, !.visited = v, !.answer = i]
      OBVIOUS
    <2>3. /\ n \in Selections /\ n.fit = s.fit /\ n.tier = s.tier /\ n.steady = s.steady
          /\ n.visited = v /\ n.looping = FALSE /\ n.answer = i
      BY <2>2 DEF Selections
    <2>4. QED
      BY <1>1, <1>2, <1>3, <1>4, <1>5, <2>1, <2>2, <2>3
  <1>6. CASE ~ (i \notin s.visited /\ Passed(i) /\ ~ Cooling(i))
    <2>1. PICK b \in SubGroups \cup {NONE} :
            b = IF i \notin s.visited /\ Passed(i) /\ Cooling(i) /\ Earlier(i, s.best) THEN i ELSE s.best
      BY DEF Selections
    <2>2. PICK l \in BOOLEAN, a \in SubGroups \cup {NONE} :
            l = (v # SubGroups) /\ a = IF v = SubGroups THEN b ELSE NONE
      <3>1. (v # SubGroups) \in BOOLEAN
        BY Zenon
      <3>2. (IF v = SubGroups THEN b ELSE NONE) \in SubGroups \cup {NONE}
        OBVIOUS
      <3>3. QED
        BY <3>1, <3>2, Zenon
    <2>3. sel' = [s EXCEPT !.looping = l, !.visited = v, !.best = b, !.answer = a]
      BY <1>1, <1>2, <1>3, <1>6, <2>1, <2>2 DEF SelectStep
    <2>4. PICK n : n = [s EXCEPT !.looping = l, !.visited = v, !.best = b, !.answer = a]
      OBVIOUS
    <2>5. /\ n \in Selections /\ n.fit = s.fit /\ n.tier = s.tier /\ n.steady = s.steady
          /\ n.visited = v /\ n.looping = l /\ n.best = b /\ n.answer = a
      BY <2>4 DEF Selections
    <2>6. ~ l => a = b
      BY <2>2
    <2>7. QED
      BY <1>1, <1>2, <1>3, <1>4, <1>6, <2>1, <2>2, <2>3, <2>4, <2>5, <2>6
  <1>7. QED
    BY <1>2, <1>5, <1>6

\* A turn keeps what the selection knows.
LEMMA TurnKeeps ==
    ASSUME CurrentsInv, SelectorInv, SelectStep
    PROVE  SelectorInv'
  <1> DEFINE i == SelectByWeight
             fresh == i \notin sel.visited /\ Passed(i)
  <1>1. /\ i \in SubGroups /\ sel \in Selections /\ sel' \in Selections
        /\ UNCHANGED <<config, breaker, keys>>
        /\ sel'.fit = sel.fit /\ sel'.tier = sel.tier /\ sel'.steady = sel.steady
        /\ sel'.visited = sel.visited \cup {i}
        /\ fresh /\ ~ Cooling(i) => ~ sel'.looping
        /\ ~ (fresh /\ ~ Cooling(i)) =>
              sel'.best = IF fresh /\ Cooling(i) /\ Earlier(i, sel.best) THEN i ELSE sel.best
    BY TurnIs
  <1>2. UNCHANGED latency
    BY DEF SelectStep
  <1>3. ASSUME sel'.looping, sel'.steady PROVE /\ sel'.tier = IF Tiered' THEN BestTier(sel.fit)' ELSE NoTier
                                              /\ ChoiceSound(sel.visited, sel.best)'
    <2>1. ~ (fresh /\ ~ Cooling(i))
      BY <1>1, <1>3
    <2>2. sel.looping /\ sel.steady
      BY <1>1, <1>3 DEF SelectStep
    <2>3. sel.tier = (IF Tiered THEN BestTier(sel.fit) ELSE NoTier) /\ ChoiceSound(sel.visited, sel.best)
      BY <2>2 DEF SelectorInv, Choosing
    <2>4. ChoiceSound(sel.visited \cup {i}, sel'.best)
      <3> HIDE DEF i
      <3>1. sel.visited \in SUBSET SubGroups /\ sel.best \in SubGroups \cup {NONE}
        BY <1>1 DEF Selections
      <3>2. i \notin sel.visited /\ Passed(i) => Cooling(i)
        BY <2>1
      <3>3. sel'.best = IF i \notin sel.visited /\ Passed(i) /\ Cooling(i) /\ Earlier(i, sel.best)
                        THEN i ELSE sel.best
        BY <1>1, <2>1
      <3>4. breaker \in [SubGroups -> BreakerItem]
        BY DEF SelectorInv
      <3>5. QED
        BY <1>1, <2>3, <3>1, <3>2, <3>3, <3>4, SeenSound
    <2>5. \A j : (Passed(j)' <=> Passed(j)) /\ (Cooling(j)' <=> Cooling(j))
      BY <1>1 DEF Passed, Cooling, Tiered, Priority
    <2>6. ChoiceSound(sel.visited, sel.best)'
      BY <1>1, <2>4, <2>5 DEF ChoiceSound
    <2>7. Tiered' = Tiered /\ BestTier(sel.fit)' = BestTier(sel.fit)
      BY <1>1 DEF Tiered, BestTier, Priority, Cooling
    <2>8. QED
      BY <1>1, <2>3, <2>6, <2>7
  <1>4. QED
    BY <1>1, <1>2, <1>3 DEF SelectorInv, Choosing

\* A selection begins with the best tier.
LEMMA ChooseKeeps ==
    ASSUME CurrentsInv, SelectorInv, NEW r \in Callers, Choose(r)
    PROVE  SelectorInv'
  <1>1. UNCHANGED <<config, current, breaker, latency, keys>>
    BY DEF Choose, StartSelect
  <1>2. PICK fit \in SUBSET SubGroups : fit = Fit(r)
    BY DEF Fit
  <1>3. CASE Cardinality(SubGroups) = 1
    <2>1. PICK a \in SubGroups \cup {NONE} :
            a = IF fit \cap keys = {} THEN NONE ELSE CHOOSE i \in fit \cap keys : TRUE
      OBVIOUS
    <2>2. sel' = [by |-> r, looping |-> FALSE, fit |-> fit, tier |-> NoTier,
                  visited |-> SubGroups, best |-> NONE, steady |-> TRUE, answer |-> a]
      BY <1>2, <1>3, <2>1 DEF Choose, StartSelect
    <2>3. sel' \in Selections /\ ~ sel'.looping
      BY <2>2 DEF Selections, NoTier
    <2>4. QED
      BY <1>1, <2>3 DEF SelectorInv, Choosing
  <1>4. CASE Cardinality(SubGroups) # 1
    <2>1. PICK tier \in Int : tier = IF Tiered THEN BestTier(fit) ELSE NoTier
      <3>1. BestTier(fit) \in Int
        BY BestTierIs DEF CurrentsInv
      <3>2. NoTier \in Int
        BY DEF NoTier
      <3>3. QED
        BY <3>1, <3>2
    <2>2. sel' = [by |-> r, looping |-> TRUE, fit |-> fit, tier |-> tier,
                  visited |-> {}, best |-> NONE, steady |-> TRUE, answer |-> NONE]
      BY <1>2, <1>4, <2>1 DEF Choose, StartSelect
    <2>3. /\ sel' \in Selections /\ sel'.fit = fit /\ sel'.tier = tier /\ sel'.visited = {}
          /\ sel'.best = NONE
      BY <2>2 DEF Selections
    <2>4. Tiered' = Tiered /\ BestTier(sel.fit)' = BestTier(fit)
      BY <1>1, <2>3 DEF Tiered, BestTier, Priority, Cooling
    <2>5. ChoiceSound(sel.visited, sel.best)'
      BY <2>3 DEF ChoiceSound
    <2>6. QED
      BY <1>1, <2>1, <2>3, <2>4, <2>5 DEF SelectorInv, Choosing
  <1>5. QED
    BY <1>3, <1>4

\* A selection that others see may be told that keys changed; nothing else happens to it.
LEMMA SelectorKept ==
    ASSUME SelectorInv, breaker' \in [SubGroups -> BreakerItem],
           latency' \in [SubGroups -> Latencies \cup {0}], keys' \subseteq SubGroups,
           \/ sel' = sel /\ UNCHANGED <<config, breaker, keys>>
           \/ sel' = Nobody
           \/ sel # Nobody /\ sel' = [sel EXCEPT !.steady = FALSE]
    PROVE  SelectorInv'
  <1>1. CASE sel' = sel /\ UNCHANGED <<config, breaker, keys>>
    <2>1. \A j : (Passed(j)' <=> Passed(j)) /\ (Cooling(j)' <=> Cooling(j))
      BY <1>1 DEF Passed, Cooling, Tiered, Priority
    <2>2. ChoiceSound(sel.visited, sel.best)' <=> ChoiceSound(sel.visited, sel.best)
      BY <1>1, <2>1 DEF ChoiceSound
    <2>3. Tiered' = Tiered /\ BestTier(sel.fit)' = BestTier(sel.fit)
      BY <1>1 DEF Tiered, BestTier, Priority, Cooling
    <2>4. QED
      BY <1>1, <2>2, <2>3 DEF SelectorInv, Choosing
  <1>2. CASE sel' = Nobody
    BY <1>2 DEF SelectorInv, Choosing, Nobody
  <1>3. CASE sel # Nobody /\ sel' = [sel EXCEPT !.steady = FALSE]
    <2>1. sel' \in Selections /\ ~ sel'.steady
      BY <1>3 DEF SelectorInv, Selections
    <2>2. QED
      BY <2>1 DEF SelectorInv, Choosing
  <1>4. QED
    BY <1>1, <1>2, <1>3

\* Keys go under a selection that is told so.
LEMMA BlameKeeps ==
    ASSUME SelectorInv, NEW r \in Callers, NEW failure, KeyBlamed(r, failure), Unsettle,
           UNCHANGED <<config, breaker, latency>>
    PROVE  SelectorInv'
  <1>1. keys' \subseteq SubGroups
    BY DEF KeyBlamed, SelectorInv
  <1>2. breaker' \in [SubGroups -> BreakerItem] /\ latency' \in [SubGroups -> Latencies \cup {0}]
    BY DEF SelectorInv
  <1>3. \/ sel' = sel /\ UNCHANGED <<config, breaker, keys>>
        \/ sel' = Nobody
        \/ sel # Nobody /\ sel' = [sel EXCEPT !.steady = FALSE]
    BY DEF Unsettle
  <1>4. QED
    BY <1>1, <1>2, <1>3, SelectorKept

LEMMA SelectorInitial == Init => SelectorInv
  <1> SUFFICES ASSUME Init PROVE SelectorInv
    OBVIOUS
  <1>1. Closed \in BreakerItem
    BY SelectorAssumption DEF Closed, BreakerItem
  <1>2. breaker \in [SubGroups -> BreakerItem]
    BY <1>1 DEF Init, SelectorInit
  <1>3. QED
    BY <1>2 DEF Init, SelectorInit, SelectorInv, Choosing, Nobody

LEMMA SelectorStep ==
    CurrentsInv /\ RoutingInv /\ SelectorInv /\ [Next]_routingVars => SelectorInv'
  <1> SUFFICES ASSUME CurrentsInv, RoutingInv, SelectorInv, [Next]_routingVars PROVE SelectorInv'
    OBVIOUS
  <1>1. Closed \in BreakerItem
    BY SelectorAssumption DEF Closed, BreakerItem
  <1>2. /\ breaker \in [SubGroups -> BreakerItem]
        /\ latency \in [SubGroups -> Latencies \cup {0}]
        /\ keys \subseteq SubGroups
    BY DEF SelectorInv
  <1>3. ASSUME UNCHANGED selectorVars PROVE SelectorInv'
    BY <1>2, <1>3, SelectorKept DEF selectorVars
  <1>4. CASE Looping
    BY <1>4, TurnKeeps DEF Looping
  <1>5. CASE Rebuild
    <2>1. breaker' \in [SubGroups -> BreakerItem] /\ latency' \in [SubGroups -> Latencies \cup {0}]
      BY <1>1, <1>5 DEF Rebuild
    <2>2. sel' = Nobody /\ keys' = keys
      BY <1>5 DEF Rebuild
    <2>3. QED
      BY <1>2, <2>1, <2>2, SelectorKept
  <1>6. CASE KeysChange
    <2>1. keys' \subseteq SubGroups
      BY <1>2, <1>6 DEF KeysChange
    <2>2. UNCHANGED <<breaker, latency>>
      BY <1>6 DEF KeysChange
    <2>3. sel' = Nobody \/ (sel # Nobody /\ sel' = [sel EXCEPT !.steady = FALSE])
      BY <1>6 DEF KeysChange
    <2>4. QED
      BY <1>2, <2>1, <2>2, <2>3, SelectorKept
  <1>7. CASE Tick
    <2>1. breaker' \in [SubGroups -> BreakerItem]
      <3>1. ASSUME NEW b \in BreakerItem
            PROVE  [b EXCEPT !.left = IF @ > 0 THEN @ - 1 ELSE 0] \in BreakerItem
        <4>1. PICK n \in Nat : n = IF b.left > 0 THEN b.left - 1 ELSE 0
          BY DEF BreakerItem
        <4>2. [b EXCEPT !.left = n] \in BreakerItem
          BY DEF BreakerItem
        <4>3. QED
          BY <4>1, <4>2
      <3>2. \A i \in SubGroups : [breaker[i] EXCEPT !.left = IF @ > 0 THEN @ - 1 ELSE 0] \in BreakerItem
        BY <1>2, <3>1
      <3>3. breaker' = [i \in SubGroups |-> [breaker[i] EXCEPT !.left = IF @ > 0 THEN @ - 1 ELSE 0]]
        BY <1>7 DEF Tick
      <3>4. QED
        BY <3>2, <3>3
    <2>2. sel' = Nobody /\ keys' = keys /\ latency' = latency
      BY <1>7 DEF Tick
    <2>3. QED
      BY <1>2, <2>1, <2>2, SelectorKept
  <1>8. ASSUME NEW r \in Callers, Choose(r) PROVE SelectorInv'
    BY <1>8, ChooseKeeps
  <1>9. ASSUME NEW r \in Callers, Chosen(r) PROVE SelectorInv'
    BY <1>2, <1>9, SelectorKept DEF Chosen, Release
  <1>10. ASSUME NEW r \in Callers, UpstreamAnswers(r) PROVE SelectorInv'
    <2>1. UNCHANGED <<config, keys, sel>>
      BY <1>10 DEF UpstreamAnswers
    <2>2. CASE UNCHANGED <<breaker, latency>>
      BY <1>2, <2>1, <2>2, SelectorKept
    <2>3. CASE ~ UNCHANGED <<breaker, latency>>
      <3>1. /\ sel = Nobody /\ breaker' = Succeeded(req[r].group)
            /\ \E d \in Latencies : \E l \in LatencyAfter(req[r].group, d) :
                  latency' = [latency EXCEPT ![req[r].group] = l]
        BY <1>10, <2>3 DEF UpstreamAnswers
      <3>2. breaker' \in [SubGroups -> BreakerItem]
        BY <1>1, <1>2, <3>1 DEF Succeeded
      <3>3. PICK d \in Latencies : \E l \in LatencyAfter(req[r].group, d) :
                  latency' = [latency EXCEPT ![req[r].group] = l]
        BY <3>1
      <3>4. PICK l \in LatencyAfter(req[r].group, d) : latency' = [latency EXCEPT ![req[r].group] = l]
        BY <3>3
      <3>5. l \in Latencies
        BY <3>4 DEF LatencyAfter
      <3>6. latency' \in [SubGroups -> Latencies \cup {0}]
        BY <1>2, <3>4, <3>5
      <3>7. QED
        BY <1>2, <2>1, <3>1, <3>2, <3>6, SelectorKept
    <2>4. QED
      BY <2>2, <2>3
  <1>11. ASSUME NEW r \in Callers, Retry(r) \/ GiveUp(r) PROVE SelectorInv'
    <2>1. PICK failure : KeyBlamed(r, failure)
      BY <1>11 DEF Retry, GiveUp
    <2>2. Unsettle /\ UNCHANGED <<config, breaker, latency>>
      BY <1>11 DEF Retry, GiveUp
    <2>3. QED
      BY <2>1, <2>2, BlameKeeps
  <1>12. ASSUME NEW r \in Callers, Failover(r) PROVE SelectorInv'
    <2>1. PICK failure \in Failures, retryAfter \in RetryAfters :
            /\ Fails(r, failure) /\ KeyBlamed(r, failure)
            /\ breaker' = Failed(req[r].group, failure, retryAfter)
      BY <1>12 DEF Failover
    <2>2. req[r].group \in SubGroups
      BY <2>1, FailsTrying
    <2>3. breaker' \in [SubGroups -> BreakerItem]
      BY <1>2, <2>1, <2>2, FailedIs
    <2>4. keys' \subseteq SubGroups
      BY <1>2, <2>1 DEF KeyBlamed
    <2>5. sel' = Nobody /\ latency' = latency
      BY <1>12 DEF Failover
    <2>6. QED
      BY <1>2, <2>3, <2>4, <2>5, SelectorKept
  <1>13. ASSUME NEW r \in Callers,
                SendUpstream(r) \/ NoKey(r) \/ Unsendable(r) \/ StreamFlows(r) \/ Abandon(r)
                  \/ ArriveDirect(r) \/ ArriveAggregate(r) \/ ClientLeaves(r) \/ Leave(r)
         PROVE  SelectorInv'
    BY <1>3, <1>13 DEF SendUpstream, NoKey, Unsendable, StreamFlows, Abandon, ArriveDirect,
                       ArriveAggregate, ClientLeaves, Leave
  <1>14. CASE UNCHANGED routingVars
    BY <1>3, <1>14 DEF routingVars
  <1>15. QED
    BY <1>4, <1>5, <1>6, <1>7, <1>8, <1>9, <1>10, <1>11, <1>12, <1>13, <1>14
       DEF Next, Step, Outside

\* Only a turn ends a selection, and it ends with the best choice.
BestAnswer ==
    sel.looping /\ ~ sel'.looping /\ sel.steady =>
        LET candidates == sel.fit \cap keys
            open == {i \in candidates : ~ Cooling(i)}
            a == sel'.answer
        IN  IF open # {}
            THEN a \in open /\ \A i \in open : Priority[a] <= Priority[i] \/ ~ Tiered
            ELSE Tiered \/ IF candidates = {} THEN a = NONE
                           ELSE /\ a \in candidates
                                /\ \A i \in candidates : breaker[a].left <= breaker[i].left

LEMMA TurnEnds ==
    ASSUME CurrentsInv, SelectorInv, SelectStep, ~ sel'.looping, sel.steady
    PROVE  BestAnswer
  <1> DEFINE i == SelectByWeight
             fresh == i \notin sel.visited /\ Passed(i)
  <1>1. /\ i \in SubGroups /\ sel \in Selections
        /\ sel'.visited = sel.visited \cup {i}
        /\ fresh /\ ~ Cooling(i) => sel'.answer = i
        /\ ~ (fresh /\ ~ Cooling(i)) =>
              /\ sel'.visited = SubGroups
              /\ sel'.answer = IF fresh /\ Cooling(i) /\ Earlier(i, sel.best) THEN i ELSE sel.best
    BY TurnIs
  <1> HIDE DEF i
  <1>2. sel.tier = (IF Tiered THEN BestTier(sel.fit) ELSE NoTier) /\ ChoiceSound(sel.visited, sel.best)
    BY DEF SelectorInv, Choosing, SelectStep
  <1>3. PICK fit \in SUBSET SubGroups : fit = sel.fit
    BY <1>1 DEF Selections
  <1>4. CASE fresh /\ ~ Cooling(i)
    <2>1. i \in fit \cap keys /\ (Tiered => Priority[i] = sel.tier)
      BY <1>3, <1>4 DEF Passed
    <2>2. \A j \in fit \cap keys : ~ Cooling(j) => (Tiered => Priority[i] <= Priority[j])
      BY <1>2, <1>3, <2>1, BestTierIs DEF CurrentsInv
    <2>3. QED
      BY <1>1, <1>3, <1>4, <2>1, <2>2 DEF BestAnswer
  <1>5. CASE ~ (fresh /\ ~ Cooling(i))
    <2>1. sel.visited \cup {i} = SubGroups
      BY <1>1, <1>5
    <2>2. ChoiceSound(SubGroups, sel'.answer)
      <3>1. sel.visited \in SUBSET SubGroups /\ sel.best \in SubGroups \cup {NONE}
        BY <1>1 DEF Selections
      <3>2. i \notin sel.visited /\ Passed(i) => Cooling(i)
        BY <1>5
      <3>3. sel'.answer = IF i \notin sel.visited /\ Passed(i) /\ Cooling(i) /\ Earlier(i, sel.best)
                          THEN i ELSE sel.best
        BY <1>1, <1>5
      <3>4. breaker \in [SubGroups -> BreakerItem]
        BY DEF SelectorInv
      <3>5. PICK answer : answer = sel'.answer
        OBVIOUS
      <3>6. i \in SubGroups /\ ChoiceSound(sel.visited, sel.best)
        BY <1>1, <1>2
      <3>7. ChoiceSound(sel.visited \cup {i}, answer)
        BY <3>1, <3>2, <3>3, <3>4, <3>5, <3>6, SeenSound
      <3>8. QED
        BY <2>1, <3>5, <3>7
    <2>3. \A j \in fit \cap keys : Cooling(j)
      <3>1. SUFFICES ASSUME NEW j \in fit \cap keys, ~ Cooling(j) PROVE FALSE
        OBVIOUS
      <3>2. PICK k \in fit \cap keys : ~ Cooling(k) /\ (Tiered => Priority[k] = sel.tier)
        BY <1>2, <1>3, <3>1, BestTierIs DEF CurrentsInv
      <3>3. Passed(k)
        BY <1>3, <3>2 DEF Passed
      <3>4. QED
        BY <2>2, <3>2, <3>3 DEF ChoiceSound
    <2>4. ASSUME ~ Tiered
          PROVE  IF fit \cap keys = {} THEN sel'.answer = NONE
                 ELSE /\ sel'.answer \in fit \cap keys
                      /\ \A j \in fit \cap keys : breaker[sel'.answer].left <= breaker[j].left
      <3>1. \A j : Passed(j) <=> j \in fit \cap keys
        BY <1>3, <2>4 DEF Passed
      <3>2. NONE \notin SubGroups
        BY SelectorAssumption
      <3>3. QED
        BY <2>2, <3>1, <3>2 DEF ChoiceSound
    <2>5. QED
      BY <1>3, <2>3, <2>4 DEF BestAnswer
  <1>6. QED
    BY <1>4, <1>5

LEMMA StepAnswers == CurrentsInv /\ SelectorInv /\ [Next]_routingVars => BestAnswer
  <1> SUFFICES ASSUME CurrentsInv, SelectorInv, [Next]_routingVars, sel.looping, ~ sel'.looping, sel.steady
               PROVE  BestAnswer
    BY DEF BestAnswer
  <1>1. sel # Nobody /\ sel \in Selections
    BY DEF SelectorInv, Nobody
  <1>2. sel' # sel /\ sel' # [sel EXCEPT !.steady = FALSE]
    BY <1>1 DEF Selections
  <1>3. SelectStep
    BY <1>1, <1>2
       DEF Next, Step, Outside, routingVars, selectorVars, Looping, Rebuild, KeysChange, Tick, Choose,
           StartSelect, Chosen, Answered, UpstreamAnswers, Retry, GiveUp, Unsettle, Failover,
           SendUpstream, NoKey, Unsendable, StreamFlows, Abandon, ArriveDirect, ArriveAggregate,
           ClientLeaves, Leave
  <1>4. QED
    BY <1>3, TurnEnds

\* The invariants of requests, weights and selections, of every reachable state.
LEMMA SelectorInvariant == Spec => [](CurrentsInv /\ SelectorInv)
  <1>1. QED
    BY CurrentsInitial, CurrentsStep, RoutingInvariant, SelectorInitial, SelectorStep, PTL DEF Spec

\* Requests and selector are well typed in every reachable state.
THEOREM TypeCorrect == Spec => []TypeOK
  <1>1. CurrentsInv /\ SelectorInv /\ RoutingInv => TypeOK
    BY DEF CurrentsInv, SelectorInv, RoutingInv, TypeOK, SelectorTypes, BreakerItem
  <1>2. QED
    BY <1>1, SelectorInvariant, RoutingInvariant, PTL

\* For any weights, priorities, cooldowns and latencies, whatever order the rotation visits the
\* sub-groups in: a selection during which no key changes returns one of the best open tier,
\* or, with equal priorities, the one that recovers first (selectAmong, selectByWeight).
THEOREM ChoiceIsBestCorrect == Spec => ChoiceIsBest
  <1>1. CurrentsInv /\ SelectorInv /\ [Next]_routingVars => BestAnswer
    BY StepAnswers
  <1>2. QED
    BY <1>1, SelectorInvariant, PTL DEF Spec, ChoiceIsBest, BestAnswer
=============================================================================
