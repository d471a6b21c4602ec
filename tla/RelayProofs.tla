---------------------------- MODULE RelayProofs ----------------------------
(* What the router and the relay of a stream never do, for any candidates, weights,
   requests, tool calls and parts, and the types of all the services together. A part of
   Services moves on its own, so an invariant of a part is proved for the part's own
   actions and then lifted to the whole. *)
EXTENDS ServicesProofs, AdministrationProofs

--------------------------------------------------------------------------
(* A step of the whole is, for each part, a step of the part or nothing *)

LEMMA RouterPart == [ServicesNext]_vars => [RouterNext]_routerVars
  BY DEF vars, ServicesNext, LogMove, JoinMove, TaskMove, CacheMove, RateMove, CronMove,
         GroupMove, AliasMove, RouterMove, BackupMove, StreamMove, MigrationMove

LEMMA StreamPart == [ServicesNext]_vars => [StreamNext]_streamVars
  BY DEF vars, ServicesNext, LogMove, JoinMove, TaskMove, CacheMove, RateMove, CronMove,
         GroupMove, AliasMove, RouterMove, BackupMove, StreamMove, MigrationMove

--------------------------------------------------------------------------
(* The rounds of the candidates *)

\* Vectors of integers that cancel out.
Balanced == UNION {{v \in [1 .. n -> Int] : Sum(v) = 0} : n \in Nat}

LEMMA BalancedIs ==
  ASSUME NEW v \in Balanced
  PROVE  /\ v \in [DOMAIN v -> Int] /\ IsFiniteSet(DOMAIN v) /\ DOMAIN v \subseteq Nat
         /\ Sum(v) = 0
<1>1. PICK n \in Nat : v \in [1 .. n -> Int] /\ Sum(v) = 0
  BY DEF Balanced
<1>2. DOMAIN v = 1 .. n /\ IsFiniteSet(1 .. n)
  BY <1>1, FS_Interval
<1> QED
  BY <1>1, <1>2

LEMMA ZerosBalanced ==
  ASSUME NEW n \in Nat
  PROVE  [i \in 1 .. n |-> 0] \in Balanced
<1> DEFINE v == [i \in 1 .. n |-> 0]
<1>1. v \in [1 .. n -> Int] /\ v \in [1 .. n -> {0}] /\ IsFiniteSet(1 .. n)
  BY FS_Interval
<1> HIDE DEF v
<1>2. Sum(v) = 0
  BY <1>1, SumZeros
<1>3. v \in Balanced
  BY <1>1, <1>2 DEF Balanced
<1> QED
  BY <1>3 DEF v

LEMMA NothingBalanced == <<>> \in Balanced
<1>1. [i \in 1 .. 0 |-> 0] = <<>>
  OBVIOUS
<1> QED
  BY <1>1, ZerosBalanced

\* All weights are added and the winner pays them.
LEMMA RoundBalanced ==
  ASSUME NEW v \in Balanced, NEW w \in [DOMAIN v -> Int], NEW best \in DOMAIN v,
         NEW u, u = [i \in DOMAIN w |-> v[i] + w[i]]
  PROVE  [u EXCEPT ![best] = @ - Total(w)] \in Balanced
<1>1. PICK n \in Nat : v \in [1 .. n -> Int] /\ Sum(v) = 0
  BY DEF Balanced
<1> DEFINE S == 1 .. n
<1>2. DOMAIN v = S /\ v \in [S -> Int] /\ w \in [S -> Int] /\ IsFiniteSet(S) /\ best \in S
  BY <1>1, FS_Interval
<1>3. ASSUME NEW f, f \in [1 .. n -> Int], Sum(f) = 0 PROVE f \in Balanced
  <2>1. f \in {g \in [1 .. n -> Int] : Sum(g) = 0}
    BY <1>3
  <2> QED
    BY <2>1 DEF Balanced
<1> HIDE DEF S
<1>4. PICK k, f : k = Total(w) /\ f = [u EXCEPT ![best] = @ - k]
  OBVIOUS
<1>5. u = [i \in S |-> v[i] + w[i]] /\ k = Sum(w)
  BY <1>2, <1>4, SumsAre DEF Total
<1>6. f \in [S -> Int] /\ Sum(f) = Sum(v)
  BY <1>2, <1>4, <1>5, RoundCancels
<1> QED
  BY <1>1, <1>3, <1>4, <1>6 DEF S

--------------------------------------------------------------------------
(* The inductive invariant of the router *)

Ways == PoolName \cup {<<"alias", "">>, <<"sticky", "">>}

CallRow ==
    [at : Steps, model : Model, sticks : BOOLEAN, pool : SUBSET Cand, way : Ways,
     pick : Cand \cup {NoCand}, copy : Balanced, counted : BOOLEAN]

\* A request looks for candidates in a session or a pool, and rounds are those of a pool.
WayOK(c) ==
    /\ c.at \in {"keys", "exposure", "cooldown"} /\ c.way[1] # "sticky" => c.way \in PoolName
    /\ c.at \in {"get", "set"} => c.way \in PoolName
    /\ c.at = "set" => DOMAIN c.copy = 1 .. Cardinality(c.pool)
    /\ c.at \in {"route", "sent"} => c.pick \in Cand
    /\ c.counted => c.sticks

\* A turn that counts is on its way to the candidate s of the turns before.
Follows(c, s) ==
    \/ c.at = "sticky"
    \/ c.at \in {"keys", "exposure", "cooldown"} /\ c.way[1] = "sticky" /\ c.pool = {s}
    \/ c.at = "route" /\ c.pick = s

CallOK(c) == c = IdleCall \/ (c \in CallRow /\ WayOK(c))

RouterInv ==
    /\ keysOf \in [Cand -> {"active", "invalid", "removed"}]
    /\ exposed \subseteq Cand /\ cooling \subseteq Cand /\ smart \in BOOLEAN
    /\ current \in [PoolName -> Balanced]
    /\ sticky \in [Model -> Cand \cup {NoCand}] /\ turns \in [Model -> SUBSET Cand]
    /\ DOMAIN call = Call /\ \A r \in Call : CallOK(call[r])
    /\ \A m \in Model : turns[m] # {} => turns[m] = {sticky[m]} /\ Healthy(sticky[m])
    /\ \A r \in Call : Unsent(r) => 
         /\ call[r].counted /\ turns[call[r].model] # {} => Follows(call[r], sticky[call[r].model])
         /\ call[r].sticks /\ ~call[r].counted => turns[call[r].model] = {}
         /\ \A q \in Call : Unsent(q) /\ q # r /\ call[r].counted /\ call[q].sticks
                              => call[q].model # call[r].model

LEMMA RouterInitial == RouterInit => RouterInv
<1> SUFFICES ASSUME RouterInit PROVE RouterInv
  OBVIOUS
<1>1. current \in [PoolName -> Balanced]
  BY NothingBalanced DEF RouterInit
<1> QED
  BY <1>1 DEF RouterInit, RouterInv, CallOK, Unsent, IdleCall, NoCand

\* A step that changes only a request, not what it asks for, and perhaps a round.
LEMMA CallMovesRound ==
  ASSUME RouterInv, NEW r \in Call, Unsent(r), NEW now, CallOK(now), Becomes(r, now),
         now = IdleCall \/ (/\ now.model = call[r].model /\ now.sticks = call[r].sticks
                            /\ now.counted = call[r].counted
                            /\ (now.at # "sent" /\ now.counted /\ turns[now.model] # {}
                                   => Follows(now, sticky[now.model]))),
         UNCHANGED <<keysOf, exposed, cooling, smart, sticky, turns>>,
         current' \in [PoolName -> Balanced]
  PROVE  RouterInv'
<1>1. DOMAIN call = Call /\ call' = [call EXCEPT ![r] = now]
  BY DEF RouterInv, Becomes
<1>2. DOMAIN call' = Call /\ call'[r] = now /\ \A q \in Call \ {r} : call'[q] = call[q]
  BY <1>1
<1>3. \A q \in Call : CallOK(call'[q])
  BY <1>2 DEF RouterInv
<1>4. (\A m \in Model : turns[m] # {} => turns[m] = {sticky[m]} /\ Healthy(sticky[m]))'
  BY DEF RouterInv, Healthy
<1>5. ASSUME NEW q \in Call, Unsent(q)' PROVE
         /\ Unsent(q)
         /\ call'[q].model = call[q].model /\ call'[q].counted = call[q].counted /\ call'[q].sticks = call[q].sticks
         /\ (q # r => call'[q] = call[q]) /\ (q = r => call'[q] = now /\ now # IdleCall /\ now.at # "sent")
  BY <1>2, <1>5 DEF Unsent, IdleCall
<1>6. ASSUME NEW q \in Call, Unsent(q)'
      PROVE  /\ call'[q].counted /\ turns'[call'[q].model] # {} => Follows(call'[q], sticky'[call'[q].model])
             /\ call'[q].sticks /\ ~call'[q].counted => turns'[call'[q].model] = {}
             /\ \A p \in Call : Unsent(p)' /\ p # q /\ call'[q].counted /\ call'[p].sticks
                                 => call'[p].model # call'[q].model
  <2>1. call'[q].sticks /\ ~call'[q].counted => turns'[call'[q].model] = {}
    BY <1>5, <1>6 DEF RouterInv
  <2>2. ASSUME NEW p \in Call, Unsent(p)', p # q, call'[q].counted, call'[p].sticks
        PROVE  call'[p].model # call'[q].model
    BY <1>5, <1>6, <2>2 DEF RouterInv
  <2>3. ASSUME call'[q].counted, turns'[call'[q].model] # {}
        PROVE  Follows(call'[q], sticky'[call'[q].model])
    <3>1. CASE q = r
      BY <1>5, <1>6, <2>3, <3>1
    <3>2. CASE q # r
      BY <1>5, <1>6, <2>3, <3>2 DEF RouterInv
    <3> QED
      BY <3>1, <3>2
  <2> QED
    BY <2>1, <2>2, <2>3
<1>7. /\ keysOf' \in [Cand -> {"active", "invalid", "removed"}]
      /\ exposed' \subseteq Cand /\ cooling' \subseteq Cand /\ smart' \in BOOLEAN
      /\ current' \in [PoolName -> Balanced]
      /\ sticky' \in [Model -> Cand \cup {NoCand}] /\ turns' \in [Model -> SUBSET Cand]
  BY DEF RouterInv
<1> QED
  BY <1>2, <1>3, <1>4, <1>6, <1>7 DEF RouterInv, Unsent, Healthy

LEMMA CallMoves ==
  ASSUME RouterInv, NEW r \in Call, Unsent(r), NEW now, CallOK(now), Becomes(r, now),
         now = IdleCall \/ (/\ now.model = call[r].model /\ now.sticks = call[r].sticks
                            /\ now.counted = call[r].counted
                            /\ (now.at # "sent" /\ now.counted /\ turns[now.model] # {}
                                   => Follows(now, sticky[now.model]))),
         UNCHANGED <<keysOf, exposed, cooling, smart, current, sticky, turns>>
  PROVE  RouterInv'
<1>1. current' \in [PoolName -> Balanced]
  BY DEF RouterInv
<1> QED
  BY <1>1, CallMovesRound

LEMMA RowOf ==
  ASSUME RouterInv, NEW r \in Call, call[r].at # "idle"
  PROVE  call[r] \in CallRow /\ WayOK(call[r])
  BY DEF RouterInv, CallOK, IdleCall

LEMMA GetStickyStep ==
  ASSUME RouterInv, NEW r \in Call, GetSticky(r)
  PROVE  RouterInv'
<1>1. PICK c \in CallRow : c = call[r] /\ c.at = "sticky" /\ WayOK(c)
  BY RowOf DEF GetSticky, Waits
<1>2. PICK s \in Cand \cup {NoCand} : s = sticky[c.model]
  BY <1>1 DEF RouterInv, CallRow
<1> DEFINE now == IF s = NoCand THEN [c EXCEPT !.at = "pool"]
                  ELSE [c EXCEPT !.at = "keys", !.pool = {s}, !.way = <<"sticky", "">>]
<1>3. Becomes(r, now) /\ UNCHANGED <<keysOf, exposed, cooling, smart, current, sticky, turns>>
  BY <1>1, <1>2 DEF GetSticky
<1>4. CallOK(now)
  BY <1>1, <1>2 DEF CallOK, CallRow, WayOK, Steps, Ways, NoCand
<1>5. /\ now.model = c.model /\ now.sticks = c.sticks /\ now.counted = c.counted
      /\ s # NoCand => Follows(now, s)
  BY <1>1, <1>2 DEF CallRow, Follows
<1>6. s = NoCand => turns[c.model] = {}
  <2>1. c.model \in Model
    BY DEF CallRow
  <2>2. Healthy(s) => s # NoCand
    BY RouterAssumption DEF RouterInv, Healthy, NoCand
  <2> QED
    BY <1>2, <2>1, <2>2 DEF RouterInv
<1> HIDE DEF now
<1>7. Unsent(r)
  BY <1>1 DEF Unsent
<1> QED
  BY <1>1, <1>2, <1>3, <1>4, <1>5, <1>6, <1>7, CallMoves

LEMMA PickByAliasStep ==
  ASSUME RouterInv, NEW r \in Call, PickByAlias(r)
  PROVE  RouterInv'
<1>1. PICK c \in CallRow : c = call[r] /\ c.at = "pool" /\ WayOK(c)
  BY RowOf DEF PickByAlias, Waits
<1>2. PICK by \in PoolName, from \in SUBSET Cand :
        /\ Becomes(r, [c EXCEPT !.at = "keys", !.way = by, !.pool = from])
        /\ UNCHANGED <<keysOf, exposed, cooling, smart, current, sticky, turns>>
  <2>1. c.model \in Model
    BY DEF CallRow
  <2>2. CASE c.model # "auto" /\ Looks(r, <<"alias", c.model>>, AliasPool[c.model])
    <3>1. c.model \in Asked
      BY <2>1, <2>2 DEF Model
    <3>2. <<"alias", c.model>> \in PoolName /\ AliasPool[c.model] \in SUBSET Cand
      BY <3>1, RouterAssumption DEF PoolName
    <3> QED
      BY <1>1, <2>2, <3>2 DEF PickByAlias, Looks
  <2>3. ASSUME NEW t \in Tiers(smart), Looks(r, <<"alias", t>>, TierPool[t])
        PROVE  \E by \in PoolName, from \in SUBSET Cand :
                  Becomes(r, [c EXCEPT !.at = "keys", !.way = by, !.pool = from])
    <3>1. t \in {"simple", "complex"}
      BY DEF Tiers
    <3>2. <<"alias", t>> \in PoolName /\ TierPool[t] \in SUBSET Cand
      BY <3>1, RouterAssumption DEF PoolName
    <3> QED
      BY <1>1, <2>3, <3>2 DEF Looks
  <2> QED
    BY <1>1, <2>2, <2>3 DEF PickByAlias
<1> DEFINE now == [c EXCEPT !.at = "keys", !.way = by, !.pool = from]
<1>3. CallOK(now)
  BY <1>1, <1>2 DEF CallOK, CallRow, WayOK, Steps, Ways
<1>4. now.model = c.model /\ now.sticks = c.sticks /\ now.counted = c.counted
  BY <1>1, <1>2 DEF CallRow
<1>5. Unsent(r) /\ c.model \in Model
  BY <1>1 DEF Unsent, CallRow
<1>6. c.counted => turns[c.model] = {}
  BY <1>1, <1>5 DEF RouterInv, Follows
<1> HIDE DEF now
<1> QED
  BY <1>1, <1>2, <1>3, <1>4, <1>5, <1>6, CallMoves DEF now

\* A request without candidates tries the next pool; that of a counted turn never runs out.
LEMMA OutStep ==
  ASSUME RouterInv, NEW r \in Call, call[r].at \in {"keys", "exposure", "cooldown"},
         ~(call[r].counted /\ turns[call[r].model] # {}), Becomes(r, OutOfCandidates(r)),
         UNCHANGED <<keysOf, exposed, cooling, smart, current, sticky, turns>>
  PROVE  RouterInv'
<1>1. PICK c \in CallRow : c = call[r] /\ WayOK(c) /\ c.at \in {"keys", "exposure", "cooldown"}
  BY RowOf
<1>2. c.model \in Model /\ Unsent(r)
  BY <1>1 DEF Unsent, CallRow
<1>3. PICK now : Becomes(r, now) /\ now = OutOfCandidates(r)
  OBVIOUS
<1>4. ~(c.counted /\ turns[c.model] # {})
  BY <1>1
<1>5. CASE c.way[1] = "sticky"
  <2>1. now = [c EXCEPT !.at = "pool"]
    BY <1>1, <1>3, <1>5 DEF OutOfCandidates
  <2>2. CallOK(now)
    BY <1>1, <2>1 DEF CallOK, CallRow, WayOK, Steps
  <2>3. now.model = c.model /\ now.sticks = c.sticks /\ now.counted = c.counted
    BY <1>1, <2>1 DEF CallRow
  <2> QED
    BY <1>1, <1>2, <1>3, <1>4, <2>2, <2>3, CallMoves
<1>6. CASE c.way[1] # "sticky" /\ c.way[1] = "alias" /\ c.model # "auto"
  <2>1. PICK by \in PoolName, from \in SUBSET Cand :
          by = <<"exact", c.model>> /\ from = ExactPool[c.model]
    <3>1. c.model \in Asked
      BY <1>2, <1>6 DEF Model
    <3> QED
      BY <3>1, RouterAssumption DEF PoolName
  <2>2. now = [c EXCEPT !.at = "keys", !.way = by, !.pool = from]
    BY <1>1, <1>3, <1>6, <2>1 DEF OutOfCandidates
  <2>3. CallOK(now)
    BY <1>1, <2>2 DEF CallOK, CallRow, WayOK, Steps, Ways
  <2>4. now.model = c.model /\ now.sticks = c.sticks /\ now.counted = c.counted
    BY <1>1, <2>2 DEF CallRow
  <2> QED
    BY <1>1, <1>2, <1>3, <1>4, <2>3, <2>4, CallMoves
<1>7. CASE c.way[1] # "sticky" /\ ~(c.way[1] = "alias" /\ c.model # "auto")
  <2>1. now = IdleCall
    BY <1>1, <1>3, <1>7 DEF OutOfCandidates
  <2>2. CallOK(now)
    BY <2>1 DEF CallOK
  <2> QED
    BY <1>1, <1>2, <1>3, <2>1, <2>2, CallMoves
<1> QED
  BY <1>5, <1>6, <1>7

\* Of a filtered pool.
LEMMA FilteredStep ==
  ASSUME RouterInv, NEW r \in Call, NEW next \in {"exposure", "cooldown"}, NEW S \in SUBSET call[r].pool,
         call[r].at \in {"keys", "exposure"}, Filtered(r, next, S),
         \A c \in call[r].pool : Healthy(c) => c \in S,
         UNCHANGED <<keysOf, exposed, cooling, smart, current, sticky, turns>>
  PROVE  RouterInv'
<1>1. PICK c \in CallRow : c = call[r] /\ WayOK(c) /\ c.at \in {"keys", "exposure"}
  BY RowOf
<1>2. c.model \in Model /\ Unsent(r)
  BY <1>1 DEF Unsent, CallRow
<1>3. c.counted /\ turns[c.model] # {}
        => c.way[1] = "sticky" /\ c.pool = {sticky[c.model]} /\ S = {sticky[c.model]}
  <2>1. SUFFICES ASSUME c.counted, turns[c.model] # {}
                 PROVE c.way[1] = "sticky" /\ c.pool = {sticky[c.model]} /\ S = {sticky[c.model]}
    OBVIOUS
  <2>2. Follows(c, sticky[c.model]) /\ Healthy(sticky[c.model])
    BY <1>1, <1>2, <2>1 DEF RouterInv
  <2>3. c.way[1] = "sticky" /\ c.pool = {sticky[c.model]}
    BY <1>1, <2>2 DEF Follows
  <2> QED
    BY <1>1, <2>2, <2>3
<1>4. CASE S # {}
  <2> DEFINE now == [c EXCEPT !.at = next, !.pool = S]
  <2>1. Becomes(r, now)
    BY <1>1, <1>4 DEF Filtered
  <2>2. CallOK(now)
    BY <1>1 DEF CallOK, CallRow, WayOK, Steps
  <2>3. now.model = c.model /\ now.sticks = c.sticks /\ now.counted = c.counted /\ now.at = next
        /\ now.way = c.way /\ now.pool = S
    BY <1>1 DEF CallRow
  <2> HIDE DEF now
  <2>4. now.counted /\ turns[now.model] # {} => Follows(now, sticky[now.model])
    BY <1>3, <2>3 DEF Follows
  <2> QED
    BY <1>1, <1>2, <2>1, <2>2, <2>3, <2>4, CallMoves
<1>5. CASE S = {}
  <2>1. Becomes(r, OutOfCandidates(r)) /\ ~(c.counted /\ turns[c.model] # {})
    BY <1>3, <1>5 DEF Filtered
  <2> QED
    BY <1>1, <2>1, OutStep
<1> QED
  BY <1>4, <1>5

LEMMA filterByActiveKeysStep ==
  ASSUME RouterInv, NEW r \in Call, filterByActiveKeys(r)
  PROVE  RouterInv'
<1>1. PICK S \in SUBSET call[r].pool :
        /\ Filtered(r, "exposure", S)
        /\ \A c \in call[r].pool : Healthy(c) => c \in S
  BY DEF filterByActiveKeys, Healthy
<1>2. call[r].at = "keys" /\ UNCHANGED <<keysOf, exposed, cooling, smart, current, sticky, turns>>
  BY DEF filterByActiveKeys, Waits
<1> QED
  BY <1>1, <1>2, FilteredStep

LEMMA filterByExposedStep ==
  ASSUME RouterInv, NEW r \in Call, filterByExposed(r)
  PROVE  RouterInv'
<1>1. PICK S \in SUBSET call[r].pool :
        /\ Filtered(r, "cooldown", S)
        /\ \A c \in call[r].pool : Healthy(c) => c \in S
  BY DEF filterByExposed, Healthy
<1>2. call[r].at = "exposure" /\ UNCHANGED <<keysOf, exposed, cooling, smart, current, sticky, turns>>
  BY DEF filterByExposed, Waits
<1> QED
  BY <1>1, <1>2, FilteredStep

LEMMA filterCooldownStep ==
  ASSUME RouterInv, NEW r \in Call, filterCooldown(r)
  PROVE  RouterInv'
<1>1. PICK c \in CallRow : c = call[r] /\ WayOK(c) /\ c.at = "cooldown"
  BY RowOf DEF filterCooldown, Waits
<1>2. c.model \in Model /\ Unsent(r) /\ c.pool \subseteq Cand
  BY <1>1 DEF Unsent, CallRow
<1>3. UNCHANGED <<keysOf, exposed, cooling, smart, current, sticky, turns>>
  BY DEF filterCooldown
<1>4. c.counted /\ turns[c.model] # {}
        => c.way[1] = "sticky" /\ c.pool \ cooling = {sticky[c.model]}
  <2>1. SUFFICES ASSUME c.counted, turns[c.model] # {}
                 PROVE c.way[1] = "sticky" /\ c.pool \ cooling = {sticky[c.model]}
    OBVIOUS
  <2>2. Follows(c, sticky[c.model]) /\ Healthy(sticky[c.model])
    BY <1>1, <1>2, <2>1 DEF RouterInv
  <2>3. c.way[1] = "sticky" /\ c.pool = {sticky[c.model]} /\ sticky[c.model] \notin cooling
    BY <1>1, <2>2 DEF Follows, Healthy
  <2> QED
    BY <1>1, <2>3
<1>5. ASSUME NEW d \in Cand, Becomes(r, [c EXCEPT !.at = "route", !.pick = d, !.pool = {}]),
             c.counted /\ turns[c.model] # {} => d = sticky[c.model]
      PROVE  RouterInv'
  <2> DEFINE now == [c EXCEPT !.at = "route", !.pick = d, !.pool = {}]
  <2>1. CallOK(now)
    BY <1>1 DEF CallOK, CallRow, WayOK, Steps
  <2>2. now.model = c.model /\ now.sticks = c.sticks /\ now.counted = c.counted
        /\ now.at = "route" /\ now.pick = d
    BY <1>1 DEF CallRow
  <2>3. Becomes(r, now)
    BY <1>5
  <2> HIDE DEF now
  <2>4. now.counted /\ turns[now.model] # {} => Follows(now, sticky[now.model])
    BY <1>5, <2>2 DEF Follows
  <2> QED
    BY <1>1, <1>2, <1>3, <2>1, <2>2, <2>3, <2>4, CallMoves
<1>6. CASE c.way[1] = "sticky"
  <2>1. CASE c.pool \ cooling = {}
    <3>1. Becomes(r, OutOfCandidates(r))
      BY <1>1, <1>6, <2>1 DEF filterCooldown
    <3>2. ~(c.counted /\ turns[c.model] # {})
      BY <1>4, <2>1
    <3> QED
      BY <1>1, <1>3, <3>1, <3>2, OutStep
  <2>2. CASE c.pool \ cooling # {}
    <3> DEFINE d == CHOOSE e \in c.pool \ cooling : TRUE
    <3>1. Becomes(r, [c EXCEPT !.at = "route", !.pick = d, !.pool = {}])
      BY <1>1, <1>6, <2>2 DEF filterCooldown
    <3>2. d \in c.pool \ cooling
      BY <2>2
    <3> HIDE DEF d
    <3>3. d \in Cand /\ (c.counted /\ turns[c.model] # {} => d = sticky[c.model])
      BY <1>2, <1>4, <3>2
    <3> QED
      BY <1>5, <3>1, <3>3
  <2> QED
    BY <2>1, <2>2
<1>7. CASE c.way[1] # "sticky"
  <2>0. ~(c.counted /\ turns[c.model] # {})
    BY <1>4, <1>7
  <2> DEFINE warm == c.pool \ cooling
             alive == IF warm = {} THEN c.pool ELSE warm
  <2>1. alive \subseteq c.pool /\ alive \subseteq Cand
    BY <1>2
  <2>2. Becomes(r, IF Cardinality(alive) = 1
                   THEN [c EXCEPT !.at = "route", !.pick = CHOOSE e \in alive : TRUE, !.pool = {}]
                   ELSE [c EXCEPT !.at = "get", !.pool = alive])
    BY <1>1, <1>7 DEF filterCooldown
  <2> HIDE DEF alive
  <2>3. CASE Cardinality(alive) = 1
    <3> DEFINE d == CHOOSE e \in alive : TRUE
    <3>1. Becomes(r, [c EXCEPT !.at = "route", !.pick = d, !.pool = {}])
      BY <2>2, <2>3
    <3>2. d \in alive
      BY <2>1, <2>3, FS_EmptySet
    <3> HIDE DEF d
    <3> QED
      BY <1>5, <2>0, <2>1, <3>1, <3>2
  <2>4. CASE Cardinality(alive) # 1
    <3> DEFINE now == [c EXCEPT !.at = "get", !.pool = alive]
    <3>1. Becomes(r, now)
      BY <2>2, <2>4
    <3>2. CallOK(now)
      BY <1>1, <1>7, <2>1 DEF CallOK, CallRow, WayOK, Steps
    <3>3. now.model = c.model /\ now.sticks = c.sticks /\ now.counted = c.counted
      BY <1>1 DEF CallRow
    <3> HIDE DEF now
    <3> QED
      BY <1>1, <1>2, <1>3, <2>0, <3>1, <3>2, <3>3, CallMoves
  <2> QED
    BY <2>3, <2>4
<1> QED
  BY <1>6, <1>7

\* A request without a session's candidate counts only where no turns do.
LEMMA FreshTurn ==
  ASSUME RouterInv, NEW r \in Call, call[r].at \in {"get", "set"}
  PROVE  ~(call[r].counted /\ turns[call[r].model] # {})
<1>1. call[r] \in CallRow /\ Unsent(r)
  BY RowOf DEF Unsent
<1>2. call[r].model \in Model
  BY <1>1 DEF CallRow
<1> QED
  BY <1>1, <1>2 DEF RouterInv, Follows

LEMMA SwrrGetStep ==
  ASSUME RouterInv, NEW r \in Call, SwrrGet(r)
  PROVE  RouterInv'
<1>1. PICK c \in CallRow : c = call[r] /\ WayOK(c) /\ c.at = "get"
  BY RowOf DEF SwrrGet, Waits
<1>2. c.model \in Model /\ Unsent(r) /\ c.pool \subseteq Cand /\ c.way \in PoolName
  BY <1>1 DEF Unsent, CallRow, WayOK
<1>3. UNCHANGED <<keysOf, exposed, cooling, smart, current, sticky, turns>>
  BY DEF SwrrGet
<1> DEFINE n == Cardinality(c.pool)
           kept == current[c.way]
           copy == IF DOMAIN kept = 1 .. n THEN kept ELSE [i \in 1 .. n |-> 0]
           now == [c EXCEPT !.at = "set", !.copy = copy]
<1>4. n \in Nat
  BY <1>2, RouterAssumption, FS_Subset, FS_CardinalityType
<1>5. kept \in Balanced
  BY <1>2 DEF RouterInv
<1>6. Becomes(r, now)
  BY <1>1 DEF SwrrGet
<1> HIDE DEF n, kept
<1>7. copy \in Balanced /\ DOMAIN copy = 1 .. n
  BY <1>4, <1>5, ZerosBalanced
<1> HIDE DEF copy
<1>8. CallOK(now)
  BY <1>1, <1>2, <1>7 DEF CallOK, CallRow, WayOK, Steps, n
<1>9. now.model = c.model /\ now.sticks = c.sticks /\ now.counted = c.counted
  BY <1>1 DEF CallRow
<1>10. ~(c.counted /\ turns[c.model] # {})
  BY <1>1, FreshTurn
<1> HIDE DEF now
<1> QED
  BY <1>1, <1>2, <1>3, <1>6, <1>8, <1>9, <1>10, CallMoves

LEMMA SwrrSetStep ==
  ASSUME RouterInv, NEW r \in Call, SwrrSet(r)
  PROVE  RouterInv'
<1>1. PICK c \in CallRow : c = call[r] /\ WayOK(c) /\ c.at = "set"
  BY RowOf DEF SwrrSet, Waits
<1>2. c.model \in Model /\ Unsent(r) /\ c.pool \subseteq Cand /\ c.way \in PoolName
      /\ c.copy \in Balanced /\ DOMAIN c.copy = 1 .. Cardinality(c.pool)
  BY <1>1 DEF Unsent, CallRow, WayOK
<1>3. UNCHANGED <<keysOf, exposed, cooling, smart, sticky, turns>>
  BY DEF SwrrSet
<1> DEFINE raised(w) == [i \in DOMAIN w |-> c.copy[i] + w[i]]
           next(w, best) == [raised(w) EXCEPT ![best] = @ - Payment(w, best)]
           Sets(w, best) ==
             /\ current' = [current EXCEPT ![c.way] = next(w, best)]
             /\ Becomes(r, [c EXCEPT !.at = "route", !.pick = Ranked(c.pool, best),
                                     !.pool = {}, !.copy = <<>>])
<1>4. PICK w \in [DOMAIN c.copy -> Weights], best \in DOMAIN c.copy : Sets(w, best)
  <2>1. PICK w \in [DOMAIN call[r].copy -> Weights], best \in DOMAIN call[r].copy :
          /\ current' = [current EXCEPT ![call[r].way] =
                [[i \in DOMAIN w |-> call[r].copy[i] + w[i]] EXCEPT ![best] = @ - Payment(w, best)]]
          /\ Becomes(r, [call[r] EXCEPT !.at = "route", !.pick = Ranked(call[r].pool, best),
                                        !.pool = {}, !.copy = <<>>])
    BY Zenon DEF SwrrSet
  <2>2. w \in [DOMAIN c.copy -> Weights] /\ best \in DOMAIN c.copy
    BY <1>1
  <2>3. Sets(w, best)
    BY <1>1, <2>1, Zenon
  <2> HIDE DEF Sets
  <2> QED
    BY <2>2, <2>3
<1>5. w \in [DOMAIN c.copy -> Int]
  <2>1. Weights \subseteq Int
    BY RouterAssumption
  <2> QED
    BY <2>1
<1>6. current' \in [PoolName -> Balanced]
  <2>1. PICK u : u = raised(w)
    OBVIOUS
  <2>2. PICK v : v = c.copy
    OBVIOUS
  <2>3. v \in Balanced /\ w \in [DOMAIN v -> Int] /\ best \in DOMAIN v
        /\ u = [i \in DOMAIN w |-> v[i] + w[i]]
    BY <1>2, <1>5, <2>1, <2>2
  <2>4. [u EXCEPT ![best] = @ - Total(w)] \in Balanced
    BY <2>3, RoundBalanced
  <2>5. next(w, best) \in Balanced
    BY <2>1, <2>4 DEF Payment
  <2>6. current \in [PoolName -> Balanced] /\ current' = [current EXCEPT ![c.way] = next(w, best)]
    BY <1>4 DEF RouterInv
  <2> HIDE DEF next
  <2> QED
    BY <1>2, <2>5, <2>6
<1> DEFINE d == Ranked(c.pool, best)
           now == [c EXCEPT !.at = "route", !.pick = d, !.pool = {}, !.copy = <<>>]
<1>7. d \in Cand
  <2>1. c.pool \in SUBSET Cand /\ IsFiniteSet(Cand) /\ Cand \subseteq Nat /\ best \in 1 .. Cardinality(c.pool)
    BY <1>2, <1>4, RouterAssumption
  <2>2. \E e \in c.pool : Cardinality({f \in c.pool : f <= e}) = best
    BY <2>1, RankExists
  <2>3. d \in c.pool
    BY <2>2 DEF Ranked
  <2> QED
    BY <2>1, <2>3
<1>8. Becomes(r, now)
  BY <1>4
<1> HIDE DEF d
<1>9. CallOK(now)
  BY <1>1, <1>7, NothingBalanced DEF CallOK, CallRow, WayOK, Steps
<1>10. now.model = c.model /\ now.sticks = c.sticks /\ now.counted = c.counted
  BY <1>1 DEF CallRow
<1>11. ~(c.counted /\ turns[c.model] # {})
  BY <1>1, FreshTurn
<1> HIDE DEF now
<1> QED
  BY <1>1, <1>2, <1>3, <1>6, <1>8, <1>9, <1>10, <1>11, CallMovesRound

Uncounted(c) == [c EXCEPT !.counted = FALSE]

Uncounts(q, M) ==
    \/ call'[q] = IdleCall
    \/ Unsent(q) /\ call[q].model \in M /\ call'[q] = Uncounted(call[q])
    \/ ~(Unsent(q) /\ call[q].model \in M) /\ call'[q] = call[q]
    \/ /\ Unsent(q) /\ call[q].model \in M
       /\ call'[q] \in CallRow /\ WayOK(call'[q])
       /\ call'[q].model = call[q].model /\ call'[q].sticks = call[q].sticks
       /\ call'[q].counted = FALSE

\* What is disturbed around some models leaves the others' turns alone.
LEMMA Disturbs ==
  ASSUME RouterInv, NEW M \in SUBSET Model,
         keysOf' \in [Cand -> {"active", "invalid", "removed"}],
         exposed' \subseteq Cand, cooling' \subseteq Cand, smart' \in BOOLEAN,
         sticky' \in [Model -> Cand \cup {NoCand}], current' = current,
         turns' = [m \in Model |-> IF m \in M THEN {} ELSE turns[m]],
         DOMAIN call' = Call,
         \A q \in Call : Uncounts(q, M),
         \A m \in Model \ M : sticky'[m] = sticky[m],
         \A m \in Model \ M : turns[m] # {} /\ Healthy(sticky[m]) => Healthy(sticky[m])'
  PROVE  RouterInv'
<1>1. ASSUME NEW q \in Call
      PROVE  /\ CallOK(call'[q])
             /\ Unsent(q)' => 
                  /\ Unsent(q) /\ call'[q].model = call[q].model /\ call[q].model \in Model
                  /\ call'[q].sticks = call[q].sticks
                  /\ call[q].model \in M => call'[q].counted = FALSE
                  /\ call[q].model \notin M => call'[q] = call[q]
  <2>1. CASE call'[q] = IdleCall
    BY <2>1 DEF CallOK, Unsent, IdleCall
  <2>2. CASE Unsent(q) /\ call[q].model \in M /\ call'[q] = Uncounted(call[q])
    <3>1. PICK c \in CallRow : c = call[q] /\ WayOK(c)
      BY <2>2, RowOf DEF Unsent
    <3>2. call'[q] = Uncounted(c)
      BY <2>2, <3>1
    <3>3. CallOK(call'[q])
      BY <3>1, <3>2 DEF CallOK, WayOK, CallRow, Uncounted
    <3>4. call'[q].model = c.model /\ c.model \in Model /\ call'[q].sticks = c.sticks /\ call'[q].counted = FALSE
      BY <3>1, <3>2 DEF CallRow, Uncounted
    <3> QED
      BY <2>2, <3>1, <3>3, <3>4
  <2>3. CASE ~(Unsent(q) /\ call[q].model \in M) /\ call'[q] = call[q]
    <3>1. Unsent(q)' => Unsent(q)
      BY <2>3 DEF Unsent
    <3>2. CallOK(call'[q])
      BY <2>3 DEF RouterInv
    <3>3. Unsent(q) => call[q].model \in Model
      BY RowOf DEF Unsent, CallRow
    <3> QED
      BY <2>3, <3>1, <3>2, <3>3
  <2>4. CASE /\ Unsent(q) /\ call[q].model \in M
             /\ call'[q] \in CallRow /\ WayOK(call'[q])
             /\ call'[q].model = call[q].model /\ call'[q].sticks = call[q].sticks
             /\ call'[q].counted = FALSE
    BY <2>4 DEF CallOK
  <2> QED
    BY <2>1, <2>2, <2>3, <2>4 DEF Uncounts
<1>2. \A m \in Model : turns'[m] = IF m \in M THEN {} ELSE turns[m]
  OBVIOUS
<1>3. (\A m \in Model : turns[m] # {} => turns[m] = {sticky[m]} /\ Healthy(sticky[m]))'
  <2>1. SUFFICES ASSUME NEW m \in Model, turns'[m] # {}
                 PROVE  turns'[m] = {sticky'[m]} /\ Healthy(sticky[m])'
    BY DEF Healthy
  <2>2. m \notin M /\ turns'[m] = turns[m] /\ sticky'[m] = sticky[m]
    BY <1>2, <2>1
  <2>3. turns[m] = {sticky[m]} /\ Healthy(sticky[m])
    BY <2>1, <2>2 DEF RouterInv
  <2> QED
    BY <2>1, <2>2, <2>3
<1>4. ASSUME NEW q \in Call, Unsent(q)'
      PROVE  /\ call'[q].counted /\ turns'[call'[q].model] # {} => Follows(call'[q], sticky'[call'[q].model])
             /\ call'[q].sticks /\ ~call'[q].counted => turns'[call'[q].model] = {}
             /\ \A p \in Call : Unsent(p)' /\ p # q /\ call'[q].counted /\ call'[p].sticks
                                 => call'[p].model # call'[q].model
  <2>1. /\ Unsent(q) /\ call'[q].model = call[q].model /\ call[q].model \in Model
        /\ call'[q].sticks = call[q].sticks
        /\ call[q].model \in M => call'[q].counted = FALSE
        /\ call[q].model \notin M => call'[q] = call[q]
    BY <1>1, <1>4
  <2>2. CASE call[q].model \in M
    BY <1>2, <2>1, <2>2
  <2>3. CASE call[q].model \notin M
    <3>1. turns'[call[q].model] = turns[call[q].model] /\ sticky'[call[q].model] = sticky[call[q].model]
      BY <1>2, <2>1, <2>3
    <3>2. ASSUME NEW p \in Call, Unsent(p)', p # q, call'[q].counted, call'[p].sticks
          PROVE  call'[p].model # call'[q].model
      <4>1. Unsent(p) /\ call'[p].model = call[p].model /\ call'[p].sticks = call[p].sticks
        BY <1>1, <3>2
      <4> QED
        BY <2>1, <2>3, <3>2, <4>1 DEF RouterInv
    <3>3. /\ call[q].counted /\ turns[call[q].model] # {} => Follows(call[q], sticky[call[q].model])
          /\ call[q].sticks /\ ~call[q].counted => turns[call[q].model] = {}
      BY <2>1 DEF RouterInv
    <3> QED
      BY <2>1, <2>3, <3>1, <3>2, <3>3
  <2> QED
    BY <2>2, <2>3
<1>5. turns' \in [Model -> SUBSET Cand] /\ current' \in [PoolName -> Balanced]
  BY DEF RouterInv
<1> QED
  BY <1>1, <1>3, <1>4, <1>5 DEF RouterInv, Unsent, Healthy

LEMMA StickingIs ==
  ASSUME RouterInv, NEW c \in Cand
  PROVE  Sticking(c) \in SUBSET Model /\ \A m \in Model \ Sticking(c) : c # sticky[m]
  BY DEF Sticking

\* What Disturbed leaves of the requests.
LEMMA DisturbedIs ==
  ASSUME RouterInv, NEW M \in SUBSET Model, Disturbed(M)
  PROVE  /\ turns' = [m \in Model |-> IF m \in M THEN {} ELSE turns[m]]
         /\ DOMAIN call' = Call
         /\ \A q \in Call : Uncounts(q, M)
  BY DEF Disturbed, Uncounted, Uncounts

LEMMA KeysChangeStep ==
  ASSUME RouterInv, NEW c \in Cand, NEW k \in {"active", "invalid", "removed"}, KeysChange(c, k)
  PROVE  RouterInv'
<1>1. PICK M \in SUBSET Model : M = Sticking(c) /\ \A m \in Model \ M : c # sticky[m]
  BY StickingIs
<1>2. Disturbed(M)
  BY <1>1 DEF KeysChange
<1>3. /\ keysOf' = [keysOf EXCEPT ![c] = k]
      /\ UNCHANGED <<exposed, cooling, smart, sticky, current>>
  BY DEF KeysChange, Churns
<1>4. ASSUME NEW m \in Model \ M, turns[m] # {}, Healthy(sticky[m]) PROVE Healthy(sticky[m])'
  <2>1. sticky[m] \in Cand /\ sticky[m] # c
    BY <1>1, <1>4 DEF RouterInv, Healthy
  <2>2. keysOf'[sticky[m]] = keysOf[sticky[m]]
    BY <1>3, <2>1 DEF RouterInv
  <2> QED
    BY <1>3, <1>4, <2>2 DEF Healthy
<1>5. /\ keysOf' \in [Cand -> {"active", "invalid", "removed"}]
      /\ exposed' \subseteq Cand /\ cooling' \subseteq Cand /\ smart' \in BOOLEAN
      /\ sticky' \in [Model -> Cand \cup {NoCand}] /\ current' = current
      /\ \A m \in Model \ M : sticky'[m] = sticky[m]
  BY <1>3 DEF RouterInv
<1> QED
  BY <1>2, <1>4, <1>5, DisturbedIs, Disturbs

LEMMA ExposureChangesStep ==
  ASSUME RouterInv, NEW c \in Cand, ExposureChanges(c)
  PROVE  RouterInv'
<1>1. PICK M \in SUBSET Model : M = Sticking(c) /\ \A m \in Model \ M : c # sticky[m]
  BY StickingIs
<1>2. Disturbed(M)
  BY <1>1 DEF ExposureChanges
<1>3. /\ exposed' = IF c \in exposed THEN exposed \ {c} ELSE exposed \cup {c}
      /\ UNCHANGED <<keysOf, cooling, smart, sticky, current>>
  BY DEF ExposureChanges, Churns
<1>4. ASSUME NEW m \in Model \ M, turns[m] # {}, Healthy(sticky[m]) PROVE Healthy(sticky[m])'
  BY <1>1, <1>3, <1>4 DEF Healthy
<1>5. /\ keysOf' \in [Cand -> {"active", "invalid", "removed"}]
      /\ exposed' \subseteq Cand /\ cooling' \subseteq Cand /\ smart' \in BOOLEAN
      /\ sticky' \in [Model -> Cand \cup {NoCand}] /\ current' = current
      /\ \A m \in Model \ M : sticky'[m] = sticky[m]
  BY <1>3 DEF RouterInv
<1> QED
  BY <1>2, <1>4, <1>5, DisturbedIs, Disturbs

LEMMA UpdateSettingsStep ==
  ASSUME RouterInv, UpdateSettings
  PROVE  RouterInv'
<1>1. PICK M \in SUBSET Model : M = {"auto"} /\ Disturbed(M)
  BY DEF UpdateSettings, Model
<1>2. /\ smart' = ~smart
      /\ UNCHANGED <<keysOf, exposed, cooling, sticky, current>>
  BY DEF UpdateSettings, Churns
<1>3. \A m \in Model \ M : turns[m] # {} /\ Healthy(sticky[m]) => Healthy(sticky[m])'
  BY <1>2 DEF Healthy
<1>4. /\ keysOf' \in [Cand -> {"active", "invalid", "removed"}]
      /\ exposed' \subseteq Cand /\ cooling' \subseteq Cand /\ smart' \in BOOLEAN
      /\ sticky' \in [Model -> Cand \cup {NoCand}] /\ current' = current
      /\ \A m \in Model \ M : sticky'[m] = sticky[m]
  BY <1>2 DEF RouterInv
<1> QED
  BY <1>1, <1>3, <1>4, DisturbedIs, Disturbs

LEMMA StickyExpiresStep ==
  ASSUME RouterInv, NEW e \in Model, StickyExpires(e)
  PROVE  RouterInv'
<1>1. PICK M \in SUBSET Model : M = {e} /\ Disturbed(M)
  BY DEF StickyExpires
<1>2. /\ sticky' = [sticky EXCEPT ![e] = NoCand]
      /\ UNCHANGED <<keysOf, exposed, cooling, smart, current>>
  BY DEF StickyExpires, Churns
<1>3. \A m \in Model \ M : sticky'[m] = sticky[m]
  BY <1>1, <1>2 DEF RouterInv
<1>4. \A m \in Model \ M : turns[m] # {} /\ Healthy(sticky[m]) => Healthy(sticky[m])'
  BY <1>2, <1>3 DEF Healthy
<1>5. /\ keysOf' \in [Cand -> {"active", "invalid", "removed"}]
      /\ exposed' \subseteq Cand /\ cooling' \subseteq Cand /\ smart' \in BOOLEAN
      /\ sticky' \in [Model -> Cand \cup {NoCand}] /\ current' = current
  BY <1>2 DEF RouterInv
<1> QED
  BY <1>1, <1>3, <1>4, <1>5, DisturbedIs, Disturbs

LEMMA StickyFailsStep ==
  ASSUME RouterInv, NEW r \in Call, StickyUnread(r) \/ StickyUnset(r)
  PROVE  RouterInv'
<1>1. PICK c \in CallRow : c = call[r] /\ WayOK(c) /\ c.at \in {"sticky", "route"}
  BY RowOf DEF StickyUnread, StickyUnset, Waits
<1>2. PICK step \in {"pool", "sent"} :
        /\ StickyFails(r, step)
        /\ step = "sent" => c.at = "route"
  BY <1>1 DEF StickyUnread, StickyUnset, Waits
<1>3. PICK m \in Model, M \in SUBSET Model : m = c.model /\ M = {m}
  BY DEF CallRow
<1> DEFINE now == [c EXCEPT !.at = step, !.counted = FALSE]
<1>4. /\ turns' = [turns EXCEPT ![m] = {}]
      /\ call' = [q \in Call |-> IF q = r THEN now
                                 ELSE IF Unsent(q) /\ call[q].model = m
                                 THEN [call[q] EXCEPT !.counted = FALSE] ELSE call[q]]
      /\ UNCHANGED <<keysOf, exposed, cooling, smart, sticky, current>>
  BY <1>1, <1>2, <1>3 DEF StickyFails, Churns
<1>5. /\ now \in CallRow /\ WayOK(now)
      /\ now.model = c.model /\ now.sticks = c.sticks /\ now.counted = FALSE
  BY <1>1, <1>2 DEF CallRow, WayOK, Steps
<1>6. Unsent(r)
  BY <1>1 DEF Unsent
<1> HIDE DEF now
<1>7. DOMAIN call' = Call /\ \A q \in Call : Uncounts(q, M)
  <2>1. SUFFICES ASSUME NEW q \in Call PROVE Uncounts(q, M)
    BY <1>4
  <2>2. CASE q = r
    BY <1>1, <1>3, <1>4, <1>5, <1>6, <2>2 DEF Uncounts
  <2>3. CASE q # r
    BY <1>3, <1>4, <2>3 DEF Uncounts, Uncounted
  <2> QED
    BY <2>2, <2>3
<1>8. turns' = [n \in Model |-> IF n \in M THEN {} ELSE turns[n]]
  BY <1>3, <1>4 DEF RouterInv
<1>9. \A n \in Model \ M : turns[n] # {} /\ Healthy(sticky[n]) => Healthy(sticky[n])'
  BY <1>4 DEF Healthy
<1>10. /\ keysOf' \in [Cand -> {"active", "invalid", "removed"}]
       /\ exposed' \subseteq Cand /\ cooling' \subseteq Cand /\ smart' \in BOOLEAN
       /\ sticky' \in [Model -> Cand \cup {NoCand}] /\ current' = current
       /\ \A n \in Model \ M : sticky'[n] = sticky[n]
  BY <1>4 DEF RouterInv
<1> QED
  BY <1>7, <1>8, <1>9, <1>10, Disturbs

LEMMA CooldownEndsStep ==
  ASSUME RouterInv, NEW c \in Cand, CooldownEnds(c)
  PROVE  RouterInv'
<1>1. cooling' = cooling \ {c} /\ UNCHANGED <<keysOf, exposed, smart, current, sticky, call, turns>>
  BY DEF CooldownEnds
<1>2. PICK M \in SUBSET Model : M = {}
  OBVIOUS
<1>3. \A m \in Model \ M : turns[m] # {} /\ Healthy(sticky[m]) => Healthy(sticky[m])'
  BY <1>1 DEF Healthy
<1>4. turns' = [m \in Model |-> IF m \in M THEN {} ELSE turns[m]]
  BY <1>1, <1>2 DEF RouterInv
<1>5. DOMAIN call' = Call /\ \A q \in Call : Uncounts(q, M)
  BY <1>1, <1>2 DEF RouterInv, Uncounts
<1>6. /\ keysOf' \in [Cand -> {"active", "invalid", "removed"}]
      /\ exposed' \subseteq Cand /\ cooling' \subseteq Cand /\ smart' \in BOOLEAN
      /\ sticky' \in [Model -> Cand \cup {NoCand}] /\ current' = current
      /\ \A m \in Model \ M : sticky'[m] = sticky[m]
  BY <1>1 DEF RouterInv
<1> QED
  BY <1>3, <1>4, <1>5, <1>6, Disturbs

LEMMA MarkResponseStep ==
  ASSUME RouterInv, NEW r \in Call, MarkResponse(r)
  PROVE  RouterInv'
<1>1. PICK c : c = call[r].pick
  OBVIOUS
<1>2. call[r].at = "sent" /\ ~Unsent(r) /\ c \in Cand
  BY <1>1, RowOf DEF MarkResponse, Waits, Unsent, WayOK
<1>3. UNCHANGED <<keysOf, exposed, smart, current, sticky>>
  BY DEF MarkResponse
<1>4. /\ keysOf' \in [Cand -> {"active", "invalid", "removed"}]
      /\ exposed' \subseteq Cand /\ smart' \in BOOLEAN
      /\ sticky' \in [Model -> Cand \cup {NoCand}] /\ current' = current
      /\ \A m \in Model : sticky'[m] = sticky[m]
  BY <1>3 DEF RouterInv
<1>5. ASSUME cooling' \subseteq cooling, Becomes(r, IdleCall), UNCHANGED turns
      PROVE  RouterInv'
  <2>1. PICK M \in SUBSET Model : M = {}
    OBVIOUS
  <2>2. cooling' \subseteq Cand /\ turns' = [m \in Model |-> IF m \in M THEN {} ELSE turns[m]]
    BY <1>5, <2>1 DEF RouterInv
  <2>3. DOMAIN call' = Call /\ \A q \in Call : Uncounts(q, M)
    BY <1>5, <2>1 DEF RouterInv, Uncounts, Becomes
  <2>4. \A m \in Model \ M : turns[m] # {} /\ Healthy(sticky[m]) => Healthy(sticky[m])'
    BY <1>3, <1>5 DEF Healthy
  <2> QED
    BY <1>4, <2>2, <2>3, <2>4, Disturbs
<1>6. ASSUME cooling' = cooling \cup {c},
             turns' = [m \in Model |-> IF m \in Sticking(c) THEN {} ELSE turns[m]],
             call' = [q \in Call |-> IF q = r THEN IdleCall
                                     ELSE IF Unsent(q) /\ call[q].model \in Sticking(c)
                                     THEN [call[q] EXCEPT !.counted = FALSE] ELSE call[q]]
      PROVE  RouterInv'
  <2>1. PICK M \in SUBSET Model : M = Sticking(c) /\ \A m \in Model \ M : c # sticky[m]
    BY DEF Sticking
  <2>2. turns' = [m \in Model |-> IF m \in M THEN {} ELSE turns[m]]
    BY <1>6, <2>1
  <2>3. DOMAIN call' = Call /\ \A q \in Call : Uncounts(q, M)
    BY <1>6, <2>1 DEF Uncounts, Uncounted
  <2>4. \A m \in Model \ M : turns[m] # {} /\ Healthy(sticky[m]) => Healthy(sticky[m])'
    BY <1>3, <1>6, <2>1 DEF Healthy
  <2>5. cooling' \subseteq Cand
    BY <1>2, <1>6 DEF RouterInv
  <2> QED
    BY <1>4, <2>2, <2>3, <2>4, <2>5, Disturbs
<1> QED
  BY <1>1, <1>5, <1>6 DEF MarkResponse

\* A turn of the session goes to the candidate of the turns before, or is the first to count.
LEMMA RouteStep ==
  ASSUME RouterInv, NEW r \in Call, Route(r)
  PROVE  RouterInv'
<1>1. PICK c \in CallRow : c = call[r] /\ WayOK(c) /\ c.at = "route"
  BY RowOf DEF Route, Waits
<1>2. PICK m \in Model, d \in Cand \cup {NoCand} : m = c.model /\ d = c.pick
  BY DEF CallRow
<1>3. Unsent(r) /\ UNCHANGED <<keysOf, exposed, cooling, smart, current>>
  BY <1>1 DEF Unsent, Route
<1>4. CASE Becomes(r, IdleCall) /\ UNCHANGED <<sticky, turns>>
  <2>1. CallOK(IdleCall)
    BY DEF CallOK
  <2>2. PICK now : now = IdleCall /\ Becomes(r, now)
    BY <1>4
  <2> QED
    BY <1>1, <1>3, <1>4, <2>1, <2>2, CallMoves
<1>5. CASE /\ Becomes(r, [c EXCEPT !.at = "sent"])
           /\ sticky' = IF c.sticks THEN [sticky EXCEPT ![m] = d] ELSE sticky
           /\ turns' = IF c.counted /\ Healthy(d) THEN [turns EXCEPT ![m] = @ \cup {d}] ELSE turns
  <2>1. /\ DOMAIN call' = Call /\ call'[r] = [c EXCEPT !.at = "sent"]
        /\ \A q \in Call \ {r} : call'[q] = call[q]
    BY <1>5 DEF RouterInv, Becomes
  <2>2. CallOK(call'[r]) /\ call'[r].at = "sent"
    BY <1>1, <2>1 DEF CallOK, CallRow, WayOK, Steps
  <2>3. \A q \in Call : CallOK(call'[q])
    BY <2>1, <2>2 DEF RouterInv
  <2>4. \A q \in Call : Unsent(q)' => q # r /\ Unsent(q) /\ call'[q] = call[q] /\ call[q].model \in Model
    <3>1. SUFFICES ASSUME NEW q \in Call, Unsent(q)'
                   PROVE  q # r /\ Unsent(q) /\ call'[q] = call[q] /\ call[q].model \in Model
      OBVIOUS
    <3>2. q # r /\ Unsent(q) /\ call'[q] = call[q]
      BY <2>1, <2>2, <3>1 DEF Unsent
    <3>3. call[q] \in CallRow
      BY <3>2, RowOf DEF Unsent
    <3> QED
      BY <3>2, <3>3 DEF CallRow
  <2>5. /\ c.counted => c.sticks
        /\ c.counted /\ turns[m] # {} => turns[m] = {sticky[m]} /\ d = sticky[m]
        /\ c.sticks /\ ~c.counted => turns[m] = {}
    <3>1. c.counted => c.sticks
      BY <1>1 DEF WayOK
    <3>2. c.counted /\ turns[m] # {} => turns[m] = {sticky[m]}
      BY DEF RouterInv
    <3>3. c.counted /\ turns[m] # {} => Follows(c, sticky[m])
      BY <1>1, <1>2, <1>3 DEF RouterInv
    <3>4. c.counted /\ turns[m] # {} => d = sticky[m]
      BY <1>1, <1>2, <3>3 DEF Follows
    <3>5. c.sticks /\ ~c.counted => turns[m] = {}
      BY <1>1, <1>2, <1>3 DEF RouterInv
    <3> QED
      BY <3>1, <3>2, <3>4, <3>5
  <2>6. Healthy(d) => d \in Cand
    BY DEF Healthy, RouterInv
  <2>7. /\ sticky' \in [Model -> Cand \cup {NoCand}] /\ turns' \in [Model -> SUBSET Cand]
    <3>1. sticky' \in [Model -> Cand \cup {NoCand}]
      BY <1>5 DEF RouterInv
    <3>2. turns' \in [Model -> SUBSET Cand]
      BY <1>5, <2>6 DEF RouterInv
    <3> QED
      BY <3>1, <3>2
  <2>8. /\ \A n \in Model \ {m} : sticky'[n] = sticky[n] /\ turns'[n] = turns[n]
        /\ c.sticks => sticky'[m] = d
        /\ ~c.sticks => sticky'[m] = sticky[m]
        /\ c.counted /\ Healthy(d) => turns'[m] = turns[m] \cup {d}
        /\ ~(c.counted /\ Healthy(d)) => turns'[m] = turns[m]
    BY <1>5 DEF RouterInv
  <2>9. (\A n \in Model : turns[n] # {} => turns[n] = {sticky[n]} /\ Healthy(sticky[n]))'
    <3>1. SUFFICES ASSUME NEW n \in Model, turns'[n] # {}
                   PROVE  turns'[n] = {sticky'[n]} /\ Healthy(sticky'[n])
      BY <1>3 DEF Healthy
    <3>2. turns[n] # {} => turns[n] = {sticky[n]} /\ Healthy(sticky[n])
      BY DEF RouterInv
    <3>3. CASE n # m
      BY <2>8, <3>1, <3>2, <3>3
    <3>4. CASE n = m /\ c.counted
      BY <2>5, <2>8, <3>1, <3>2, <3>4
    <3>5. CASE n = m /\ ~c.counted
      BY <2>5, <2>8, <3>1, <3>2, <3>5
    <3> QED
      BY <3>3, <3>4, <3>5
  <2>10. ASSUME NEW q \in Call, Unsent(q)'
         PROVE  /\ call'[q].counted /\ turns'[call'[q].model] # {} => Follows(call'[q], sticky'[call'[q].model])
                /\ call'[q].sticks /\ ~call'[q].counted => turns'[call'[q].model] = {}
                /\ \A p \in Call : Unsent(p)' /\ p # q /\ call'[q].counted /\ call'[p].sticks
                                    => call'[p].model # call'[q].model
    <3>1. q # r /\ Unsent(q) /\ call'[q] = call[q] /\ call[q].model \in Model
      BY <2>4, <2>10
    <3>2. PICK n \in Model : n = call[q].model
      BY <3>1
    <3>3. /\ call[q].counted /\ turns[n] # {} => Follows(call[q], sticky[n])
          /\ call[q].sticks /\ ~call[q].counted => turns[n] = {}
          /\ \A p \in Call : Unsent(p) /\ p # q /\ call[q].counted /\ call[p].sticks => call[p].model # n
      BY <3>1, <3>2 DEF RouterInv
    <3>4. c.counted /\ call[q].sticks => n # m
      BY <1>1, <1>2, <1>3, <3>1, <3>2 DEF RouterInv
    <3>5. call[q].counted /\ c.sticks => n # m
      BY <1>1, <1>2, <1>3, <3>1, <3>3
    <3>6. call[q].counted /\ turns'[n] # {} => Follows(call[q], sticky'[n])
      BY <2>5, <2>8, <3>3, <3>5
    <3>7. call[q].sticks /\ ~call[q].counted => turns'[n] = {}
      BY <2>8, <3>3, <3>4
    <3>8. ASSUME NEW p \in Call, Unsent(p)', p # q, call'[q].counted, call'[p].sticks
          PROVE  call'[p].model # call'[q].model
      BY <2>4, <3>1, <3>2, <3>3, <3>8
    <3> QED
      BY <3>1, <3>2, <3>6, <3>7, <3>8
  <2>11. /\ keysOf' \in [Cand -> {"active", "invalid", "removed"}]
         /\ exposed' \subseteq Cand /\ cooling' \subseteq Cand /\ smart' \in BOOLEAN
         /\ current' \in [PoolName -> Balanced]
    BY <1>3 DEF RouterInv
  <2> QED
    BY <2>1, <2>3, <2>7, <2>9, <2>10, <2>11 DEF RouterInv, Unsent, Healthy
<1> QED
  BY <1>1, <1>2, <1>4, <1>5 DEF Route

LEMMA ArriveStep ==
  ASSUME RouterInv, NEW r \in Call, NEW m \in Model, NEW multiTurn \in BOOLEAN, Arrive(r, m, multiTurn)
  PROVE  RouterInv'
<1> DEFINE others == {q \in Call : Unsent(q) /\ call[q].model = m}
           sticking == multiTurn /\ (m # "auto" \/ smart)
           row == [at |-> IF sticking THEN "sticky" ELSE "pool", model |-> m, sticks |-> sticking,
                   pool |-> {}, way |-> <<"alias", "">>, pick |-> NoCand, copy |-> <<>>,
                   counted |-> sticking /\ others = {}]
<1>1. /\ call' = [[q \in Call |-> IF sticking /\ q \in others
                                    THEN [call[q] EXCEPT !.counted = FALSE] ELSE call[q]] EXCEPT ![r] = row]
      /\ turns' = IF sticking /\ others # {} THEN [turns EXCEPT ![m] = {}] ELSE turns
  BY DEF Arrive
<1>2. ~Unsent(r) /\ UNCHANGED <<keysOf, exposed, cooling, smart, current, sticky>>
  BY DEF Arrive, Waits, Unsent
<1>3. PICK sticks \in BOOLEAN, overlaps \in SUBSET Call : sticks = sticking /\ overlaps = others
  BY DEF RouterInv
<1>4. PICK now : now = row
  OBVIOUS
<1>5. /\ DOMAIN call' = Call /\ call'[r] = now
      /\ \A q \in Call \ {r} : IF sticks /\ q \in overlaps
                              THEN call'[q] = Uncounted(call[q]) ELSE call'[q] = call[q]
      /\ turns' = IF sticks /\ overlaps # {} THEN [turns EXCEPT ![m] = {}] ELSE turns
  BY <1>1, <1>3, <1>4 DEF Uncounted
<1>12. r \notin overlaps /\ \A q \in Call : q \in overlaps <=> Unsent(q) /\ call[q].model = m
  BY <1>2, <1>3
<1>13. /\ CallOK(now) /\ now.at \notin {"idle", "sent"}
       /\ now.model = m /\ now.sticks = sticks /\ now.counted = (sticks /\ overlaps = {})
       /\ sticks => now.at = "sticky"
  BY <1>3, <1>4, NothingBalanced DEF CallOK, CallRow, WayOK, Steps, Ways, NoCand
<1> HIDE DEF row, sticking, others
<1>6. /\ turns' \in [Model -> SUBSET Cand]
      /\ \A n \in Model : turns'[n] = IF sticks /\ overlaps # {} /\ n = m THEN {} ELSE turns[n]
  <2>1. turns \in [Model -> SUBSET Cand]
    BY DEF RouterInv
  <2> QED
    BY <1>5, <2>1
<1>7. ASSUME NEW q \in Call \ {r}
      PROVE  /\ CallOK(call'[q])
             /\ Unsent(q)' =>
                  /\ Unsent(q) /\ call'[q].model = call[q].model /\ call[q].model \in Model
                  /\ call'[q].sticks = call[q].sticks
                  /\ sticks /\ call[q].model = m => call'[q].counted = FALSE
                  /\ ~(sticks /\ call[q].model = m) => call'[q] = call[q]
  <2>1. CASE sticks /\ q \in overlaps
    <3>1. PICK c \in CallRow : c = call[q] /\ WayOK(c)
      BY <1>12, <2>1, RowOf DEF Unsent
    <3>2. call'[q] = Uncounted(c) /\ c.model = m /\ Unsent(q)
      BY <1>5, <1>12, <2>1, <3>1
    <3>3. CallOK(call'[q])
      BY <3>1, <3>2 DEF CallOK, WayOK, CallRow, Uncounted
    <3>4. call'[q].model = c.model /\ c.model \in Model /\ call'[q].sticks = c.sticks /\ call'[q].counted = FALSE
      BY <3>1, <3>2 DEF CallRow, Uncounted
    <3> QED
      BY <2>1, <3>1, <3>2, <3>3, <3>4
  <2>2. CASE ~(sticks /\ q \in overlaps)
    <3>1. call'[q] = call[q]
      BY <1>5, <2>2
    <3>2. Unsent(q)' => Unsent(q)
      BY <3>1 DEF Unsent
    <3>3. CallOK(call'[q])
      BY <3>1 DEF RouterInv
    <3>4. Unsent(q) => call[q].model \in Model
      BY RowOf DEF Unsent, CallRow
    <3>5. Unsent(q) => ~(sticks /\ call[q].model = m)
      BY <1>12, <2>2
    <3> QED
      BY <3>1, <3>2, <3>3, <3>4, <3>5
  <2> QED
    BY <2>1, <2>2
<1>8. \A q \in Call : CallOK(call'[q])
  BY <1>13, <1>5, <1>7
<1>9. (\A n \in Model : turns[n] # {} => turns[n] = {sticky[n]} /\ Healthy(sticky[n]))'
  BY <1>2, <1>6 DEF RouterInv, Healthy
<1>10. ASSUME NEW q \in Call, Unsent(q)'
       PROVE  /\ call'[q].counted /\ turns'[call'[q].model] # {} => Follows(call'[q], sticky'[call'[q].model])
              /\ call'[q].sticks /\ ~call'[q].counted => turns'[call'[q].model] = {}
              /\ \A p \in Call : Unsent(p)' /\ p # q /\ call'[q].counted /\ call'[p].sticks
                                  => call'[p].model # call'[q].model
  <2>1. CASE q = r
    <3>1. call'[q] = now
      BY <1>5, <2>1
    <3>2. now.counted => Follows(now, sticky'[m])
      BY <1>13 DEF Follows
    <3>3. now.sticks /\ ~now.counted => turns'[m] = {}
      BY <1>13, <1>6
    <3>4. ASSUME NEW p \in Call, Unsent(p)', p # q, now.counted
          PROVE  call'[p].model # m
      <4>1. p \notin overlaps
        BY <1>13, <3>4
      <4>2. Unsent(p) /\ call'[p].model = call[p].model
        BY <1>7, <2>1, <3>4
      <4> QED
        BY <1>12, <4>1, <4>2
    <3> QED
      BY <1>13, <3>1, <3>2, <3>3, <3>4
  <2>2. CASE q # r
    <3>1. /\ Unsent(q) /\ call'[q].model = call[q].model /\ call[q].model \in Model
          /\ call'[q].sticks = call[q].sticks
          /\ sticks /\ call[q].model = m => call'[q].counted = FALSE
          /\ ~(sticks /\ call[q].model = m) => call'[q] = call[q]
      BY <1>7, <1>10, <2>2
    <3>2. CASE sticks /\ call[q].model = m
      <4>1. overlaps # {}
        BY <1>12, <3>1, <3>2
      <4> QED
        BY <1>6, <3>1, <3>2, <4>1
    <3>3. CASE ~(sticks /\ call[q].model = m)
      <4>1. turns'[call[q].model] = turns[call[q].model] /\ sticky' = sticky
        BY <1>2, <1>6, <3>1, <3>3
      <4>2. /\ call[q].counted /\ turns[call[q].model] # {} => Follows(call[q], sticky[call[q].model])
            /\ call[q].sticks /\ ~call[q].counted => turns[call[q].model] = {}
        BY <3>1 DEF RouterInv
      <4>3. ASSUME NEW p \in Call, Unsent(p)', p # q, call'[q].counted, call'[p].sticks
            PROVE  call'[p].model # call'[q].model
        <5>1. CASE p = r
          BY <1>13, <1>5, <3>1, <3>3, <4>3, <5>1
        <5>2. CASE p # r
          <6>1. Unsent(p) /\ call'[p].model = call[p].model /\ call'[p].sticks = call[p].sticks
            BY <1>7, <4>3, <5>2
          <6> QED
            BY <3>1, <3>3, <4>3, <6>1 DEF RouterInv
        <5> QED
          BY <5>1, <5>2
      <4> QED
        BY <3>1, <3>3, <4>1, <4>2, <4>3
    <3> QED
      BY <3>2, <3>3
  <2> QED
    BY <2>1, <2>2
<1>11. /\ keysOf' \in [Cand -> {"active", "invalid", "removed"}]
       /\ exposed' \subseteq Cand /\ cooling' \subseteq Cand /\ smart' \in BOOLEAN
       /\ current' \in [PoolName -> Balanced]
       /\ sticky' \in [Model -> Cand \cup {NoCand}]
  BY <1>2 DEF RouterInv
<1> QED
  BY <1>5, <1>6, <1>8, <1>9, <1>10, <1>11 DEF RouterInv, Unsent, Healthy

LEMMA RouterStep == RouterInv /\ [RouterNext]_routerVars => RouterInv'
<1> SUFFICES ASSUME RouterInv, [RouterNext]_routerVars PROVE RouterInv'
  OBVIOUS
<1>1. CASE UNCHANGED routerVars
  BY <1>1 DEF routerVars, RouterInv, Unsent, Healthy
<1>2. ASSUME NEW r \in Call, NEW m \in Model, NEW multiTurn \in BOOLEAN, Arrive(r, m, multiTurn)
      PROVE  RouterInv'
  BY <1>2, ArriveStep
<1>3. ASSUME NEW r \in Call,
             GetSticky(r) \/ PickByAlias(r) \/ filterByActiveKeys(r) \/ filterByExposed(r)
      PROVE  RouterInv'
  BY <1>3, GetStickyStep, PickByAliasStep, filterByActiveKeysStep, filterByExposedStep
<1>4. ASSUME NEW r \in Call,
             filterCooldown(r) \/ SwrrGet(r) \/ SwrrSet(r) \/ Route(r) \/ MarkResponse(r)
      PROVE  RouterInv'
  BY <1>4, filterCooldownStep, SwrrGetStep, SwrrSetStep, RouteStep, MarkResponseStep
<1>5. ASSUME NEW c \in Cand,
             CooldownEnds(c) \/ ExposureChanges(c)
               \/ \E k \in {"active", "invalid", "removed"} : KeysChange(c, k)
      PROVE  RouterInv'
  BY <1>5, CooldownEndsStep, ExposureChangesStep, KeysChangeStep
<1>6. ASSUME UpdateSettings \/ \E m \in Model : StickyExpires(m) PROVE RouterInv'
  BY <1>6, UpdateSettingsStep, StickyExpiresStep
<1>7. ASSUME NEW r \in Call, StickyUnread(r) \/ StickyUnset(r) PROVE RouterInv'
  BY <1>7, StickyFailsStep
<1> QED
  BY <1>1, <1>2, <1>3, <1>4, <1>5, <1>6, <1>7 DEF RouterNext

LEMMA RouterGoal == RouterInv => RouterSound /\ RouterTypeOK
<1> SUFFICES ASSUME RouterInv PROVE RouterSound /\ RouterTypeOK
  OBVIOUS
<1>1. \A n \in PoolName : Total(current[n]) = 0
  <2>1. \A v \in Balanced : Total(v) = 0
    BY BalancedIs, SumsAre DEF Total
  <2> QED
    BY <2>1 DEF RouterInv
<1>2. \A m \in Model : Cardinality(turns[m]) <= 1
  <2>1. SUFFICES ASSUME NEW m \in Model PROVE Cardinality(turns[m]) <= 1
    OBVIOUS
  <2>2. CASE turns[m] = {}
    <3>1. Cardinality(turns[m]) = 0
      BY <2>2, FS_EmptySet
    <3> QED
      BY <3>1
  <2>3. CASE turns[m] # {}
    <3>1. turns[m] = {sticky[m]}
      BY <2>3 DEF RouterInv
    <3>2. Cardinality(turns[m]) = 1
      BY <3>1, FS_Singleton
    <3> QED
      BY <3>2
  <2> QED
    BY <2>2, <2>3
<1>3. \A n \in PoolName : DOMAIN current[n] \subseteq Nat /\ \A i \in DOMAIN current[n] : current[n][i] \in Int
  <2>1. \A v \in Balanced : DOMAIN v \subseteq Nat /\ \A i \in DOMAIN v : v[i] \in Int
    BY BalancedIs
  <2> QED
    BY <2>1 DEF RouterInv
<1>4. \A r \in Call : call[r] = IdleCall \/
          (call[r].at \in Steps /\ call[r].pool \subseteq Cand /\ call[r].pick \in Cand \cup {NoCand})
  BY DEF RouterInv, CallOK, CallRow
<1> QED
  BY <1>1, <1>2, <1>3, <1>4 DEF RouterSound, RoundsCancel, SessionSticks, RouterTypeOK, RouterInv

\* For any candidates, pools, models and requests, whatever is interleaved with a request's
\* queries: the rotation of a pool takes away what it adds (swrr, with its weights read and
\* written in two steps), and the turns of a session stay with one healthy candidate
\* (GetSticky, SetSticky, MarkResponse).
THEOREM RouterSoundCorrect == Spec => []RouterSound
<1>1. ServicesInit => RouterInv
  BY RouterInitial DEF ServicesInit
<1>2. RouterInv /\ [ServicesNext]_vars => RouterInv'
  BY RouterStep, RouterPart
<1>3. RouterInv => RouterSound
  BY RouterGoal
<1> QED
  BY <1>1, <1>2, <1>3, PTL DEF Spec

--------------------------------------------------------------------------
(* The inductive invariant of the relays *)

Index == UNION {[D -> Nat] : D \in SUBSET Tool}

RelayType ==
    [wrote : BOOLEAN, bytes : BOOLEAN, started : BOOLEAN, open : {"none", "think", "text", "call"},
     blocks : Seq(Block), index : Index, reason : {"none", "end", "tools"}, told : {"none", "end", "tools"},
     ends : Nat, terminated : BOOLEAN, tools : BOOLEAN, finishes : Nat, sawTools : BOOLEAN,
     sawFinish : BOOLEAN, split : BOOLEAN, eager : SUBSET Tool]

Args(t) == <<"args", t>>
Own(b) == IF b.kind = "call" THEN Args(b.tool) ELSE <<b.kind>>
ArgsOf(E) == {Args(t) : t \in E}

\* The blocks that an Anthropic client was told of.
BlocksOK(s) ==
    /\ s.open # "none" => /\ Len(s.blocks) # 0 /\ s.blocks[Len(s.blocks)].open
                      /\ s.blocks[Len(s.blocks)].kind = s.open
    /\ \A i \in 1 .. Len(s.blocks) : s.blocks[i].open => i = Len(s.blocks) /\ s.open # "none"
    /\ \A t \in DOMAIN s.index : /\ s.index[t] \in 1 .. Len(s.blocks)
                                 /\ s.blocks[s.index[t]].kind = "call" /\ s.blocks[s.index[t]].tool = t
    /\ \A i \in 1 .. Len(s.blocks) : /\ s.blocks[i].got \subseteq {Own(s.blocks[i])} \cup ArgsOf(s.eager)
                                     /\ s.blocks[i].late \subseteq ArgsOf(Tool)

AnthropicOK(s, live) ==
    /\ BlocksOK(s)
    /\ s.wrote = s.started /\ (~s.started => s.blocks = <<>>)
    /\ s.ends <= 1 /\ (s.ends = 1 => s.open = "none")
    /\ s.told # "none" => s.ends = 1
    /\ s.told = "tools" => s.reason = "tools"
    /\ s.terminated /\ s.started => s.ends = 1
    /\ live /\ s.ends = 1 => s.terminated

\* The calls that a chat client was told of.
ChatBlocks(s) ==
    /\ s.open = "none"
    /\ \A t \in DOMAIN s.index : s.index[t] \in 1 .. Len(s.blocks) /\ s.blocks[s.index[t]].tool = t
    /\ \A i \in 1 .. Len(s.blocks) : s.blocks[i].got \subseteq {Args(s.blocks[i].tool)}

ChatOK(s) ==
    /\ ChatBlocks(s)
    /\ s.terminated => s.wrote /\ (s.started => s.ends = 1)
    /\ s.told = "tools" => s.reason = "tools"
    /\ ~s.terminated => s.ends = 0 /\ s.told = "none"
    /\ ~s.wrote => s.blocks = <<>>

PlainOK(s) ==
    /\ s.open = "none" /\ s.blocks = <<>> /\ DOMAIN s.index = {} /\ s.told = "none"
    /\ s.tools /\ ~s.split => s.sawTools
    /\ s.sawFinish => s.finishes >= 1

StreamInv ==
    /\ way \in Way /\ body \in {"flows", "ended", "broken"} /\ parts \in 0 .. MaxParts
    /\ outcome \in {"streaming", "served", "failed"}
    /\ relay \in RelayType
    /\ way = "toAnthropic" => AnthropicOK(relay, outcome = "streaming")
    /\ way = "toChat" => ChatOK(relay)
    /\ way \notin Translating => PlainOK(relay)
    /\ way = "toAnthropic" /\ outcome = "served" => relay.ends = 1
    /\ way = "toChat" /\ outcome = "served" => relay.terminated
    /\ way = "openai" /\ outcome = "served" /\ relay.tools /\ ~relay.split => relay.finishes >= 1
    /\ outcome = "failed" => ~relay.wrote

--------------------------------------------------------------------------
(* What the helpers do *)

LEMMA DeltaAre ==
  /\ \A u \in Tool : Args(u) \in Delta
  /\ <<"think">> \in Delta /\ <<"text">> \in Delta
  /\ \A E \in SUBSET Tool : {"args"} \X E = ArgsOf(E)
<1>1. \A E \in SUBSET Tool : {"args"} \X E = ArgsOf(E)
  BY DEF ArgsOf, Args
<1>2. \A u \in Tool : Args(u) \in Delta
  BY DEF Delta, Args
<1> QED
  BY <1>1, <1>2 DEF Delta

\* What is the same when only blocks change.
Kept(c, s) ==
    /\ c.wrote = s.wrote /\ c.started = s.started /\ c.index = s.index /\ c.reason = s.reason
    /\ c.told = s.told /\ c.ends = s.ends /\ c.terminated = s.terminated /\ c.eager = s.eager

LEMMA BlocksAre ==
  ASSUME NEW s \in RelayType
  PROVE  /\ s.blocks \in Seq(Block) /\ Len(s.blocks) \in Nat
         /\ \A i \in 1 .. Len(s.blocks) : s.blocks[i] \in Block
<1>1. PICK b : b = s.blocks /\ b \in Seq(Block)
  BY DEF RelayType
<1>2. Len(b) \in Nat /\ \A i \in 1 .. Len(b) : b[i] \in Block
  BY <1>1
<1> QED
  BY <1>1, <1>2

LEMMA CloseIs ==
  ASSUME NEW s \in RelayType, BlocksOK(s), NEW c, c = closeBlock(s)
  PROVE  /\ c \in RelayType /\ Kept(c, s) /\ c.open = "none" /\ Len(c.blocks) = Len(s.blocks)
         /\ BlocksOK(c)
         /\ \A i \in 1 .. Len(s.blocks) : c.blocks[i].kind = s.blocks[i].kind /\ c.blocks[i].tool = s.blocks[i].tool
<1>1. CASE s.open = "none"
  BY <1>1 DEF closeBlock, Kept
<1>2. CASE s.open # "none"
  <2>a. s.blocks \in Seq(Block) /\ Len(s.blocks) \in Nat
    BY BlocksAre
  <2>b. Len(s.blocks) # 0
    BY <1>2 DEF BlocksOK
  <2>c. PICK b \in Seq(Block) : b = s.blocks
    BY <2>a
  <2>d. PICK n \in Nat : n = Len(b)
    BY <2>c
  <2>1. n \in 1 .. Len(b) /\ b = s.blocks /\ n = Len(b)
    BY <2>b, <2>c, <2>d
  <2>2. PICK e : e = [b[n] EXCEPT !.open = FALSE]
    OBVIOUS
  <2>3. b[n] \in Block
    BY <2>1, BlocksAre
  <2>4. e \in Block /\ ~e.open /\ e.kind = b[n].kind /\ e.tool = b[n].tool /\ e.got = b[n].got /\ e.late = b[n].late
    BY <2>2, <2>3 DEF Block
  <2>5. PICK d : d = [b EXCEPT ![n] = e]
    OBVIOUS
  <2>6. d \in Seq(Block) /\ Len(d) = Len(b) /\ \A j \in 1 .. Len(b) : d[j] = IF j = n THEN e ELSE b[j]
    BY <2>1, <2>4, <2>5, ExceptSeq
  <2>7. PICK m : m = [s EXCEPT !.open = "none"]
    OBVIOUS
  <2>8. c \in RelayType /\ Kept(c, s) /\ c.open = "none" /\ c.blocks = d
    <3>1. m \in RelayType /\ Kept(m, s) /\ m.open = "none"
      BY <2>7 DEF RelayType, Kept
    <3>2. c = [m EXCEPT !.blocks = d]
      BY <1>2, <2>1, <2>2, <2>5, <2>7 DEF closeBlock
    <3>3. c \in RelayType /\ Kept(c, m) /\ c.open = m.open /\ c.blocks = d
      BY <2>6, <3>1, <3>2 DEF RelayType, Kept
    <3> QED
      BY <3>1, <3>3 DEF Kept
  <2>9. \A i \in 1 .. Len(b) : /\ d[i].kind = b[i].kind /\ d[i].tool = b[i].tool
                               /\ d[i].got = b[i].got /\ d[i].late = b[i].late /\ ~d[i].open
    BY <2>1, <2>4, <2>6 DEF BlocksOK
  <2>10. BlocksOK(c)
    <3>1. \A u \in DOMAIN c.index : /\ c.index[u] \in 1 .. Len(c.blocks)
                                    /\ c.blocks[c.index[u]].kind = "call" /\ c.blocks[c.index[u]].tool = u
      <4>1. SUFFICES ASSUME NEW u \in DOMAIN s.index
                     PROVE  s.index[u] \in 1 .. Len(d) /\ d[s.index[u]].kind = "call" /\ d[s.index[u]].tool = u
        <5>1. c.index = s.index /\ c.blocks = d
          BY <2>8 DEF Kept
        <5> QED
          BY <5>1
      <4>2. s.index[u] \in 1 .. Len(b) /\ b[s.index[u]].kind = "call" /\ b[s.index[u]].tool = u
        BY <2>1 DEF BlocksOK
      <4> QED
        BY <2>6, <2>9, <4>2
    <3>2. \A i \in 1 .. Len(d) : Own(d[i]) = Own(b[i])
      BY <2>6, <2>9 DEF Own
    <3>3. \A i \in 1 .. Len(c.blocks) : /\ c.blocks[i].got \subseteq {Own(c.blocks[i])} \cup ArgsOf(c.eager)
                                        /\ c.blocks[i].late \subseteq ArgsOf(Tool)
      <4>1. SUFFICES ASSUME NEW i \in 1 .. Len(b)
                     PROVE  d[i].got \subseteq {Own(d[i])} \cup ArgsOf(s.eager) /\ d[i].late \subseteq ArgsOf(Tool)
        BY <2>6, <2>8 DEF Kept
      <4>2. b[i].got \subseteq {Own(b[i])} \cup ArgsOf(s.eager) /\ b[i].late \subseteq ArgsOf(Tool)
        BY <2>1 DEF BlocksOK
      <4> QED
        BY <2>6, <2>9, <3>2, <4>2
    <3> QED
      BY <2>6, <2>8, <2>9, <3>1, <3>3 DEF BlocksOK
  <2> QED
    BY <2>1, <2>6, <2>8, <2>9, <2>10
<1> QED
  BY <1>1, <1>2

LEMMA OpenIs ==
  ASSUME NEW s \in RelayType, BlocksOK(s), NEW kind \in {"think", "text", "call"},
         NEW t \in Tool \cup {"none"}, NEW o, o = openBlock(s, kind, t)
  PROVE  /\ o \in RelayType /\ Kept(o, s) /\ o.open = kind /\ Len(o.blocks) = Len(s.blocks) + 1
         /\ BlocksOK(o) /\ o.blocks[Len(o.blocks)].tool = t
<1>1. PICK c : c = closeBlock(s)
  OBVIOUS
<1>2. c \in RelayType /\ Kept(c, s) /\ c.open = "none" /\ Len(c.blocks) = Len(s.blocks) /\ BlocksOK(c)
  BY <1>1, CloseIs
<1>3. PICK b \in Seq(Block), n \in Nat : b = c.blocks /\ n = Len(b)
  BY <1>2, BlocksAre
<1>4. PICK e : e = [kind |-> kind, tool |-> t, open |-> TRUE, got |-> {}, late |-> {}]
  OBVIOUS
<1>5. e \in Block /\ e.kind = kind /\ e.tool = t /\ e.open /\ e.got = {} /\ e.late = {}
  BY <1>4 DEF Block
<1>6. PICK d : d = Append(b, e)
  OBVIOUS
<1>7. d \in Seq(Block) /\ Len(d) = n + 1 /\ d[n + 1] = e /\ \A j \in 1 .. n : d[j] = b[j]
  BY <1>3, <1>5, <1>6, AppendProperties
<1>8. o = [c EXCEPT !.open = kind, !.blocks = d]
  BY <1>1, <1>3, <1>4, <1>6 DEF openBlock
<1>9. o \in RelayType /\ Kept(o, c) /\ o.open = kind /\ o.blocks = d
  <2>1. PICK m : m = [c EXCEPT !.open = kind]
    OBVIOUS
  <2>2. m \in RelayType /\ Kept(m, c) /\ m.open = kind
    BY <1>2, <2>1 DEF RelayType, Kept
  <2>3. o = [m EXCEPT !.blocks = d]
    BY <1>8, <2>1
  <2>4. o \in RelayType /\ Kept(o, m) /\ o.open = m.open /\ o.blocks = d
    BY <1>7, <2>2, <2>3 DEF RelayType, Kept
  <2> QED
    BY <2>2, <2>4 DEF Kept
<1>10. BlocksOK(o)
  <2>1. /\ \A i \in 1 .. n : ~b[i].open
        /\ \A u \in DOMAIN c.index : c.index[u] \in 1 .. n /\ b[c.index[u]].kind = "call" /\ b[c.index[u]].tool = u
        /\ \A i \in 1 .. n : b[i].got \subseteq {Own(b[i])} \cup ArgsOf(c.eager) /\ b[i].late \subseteq ArgsOf(Tool)
    BY <1>2, <1>3 DEF BlocksOK
  <2>2. \A i \in 1 .. n + 1 : i = n + 1 \/ i \in 1 .. n
    OBVIOUS
  <2>3. \A i \in 1 .. n : i \in 1 .. n + 1
    OBVIOUS
  <2>4. \A i \in 1 .. n + 1 : d[i].open => i = n + 1
    BY <1>7, <2>1, <2>2
  <2>5. \A u \in DOMAIN o.index : /\ o.index[u] \in 1 .. n + 1
                                  /\ d[o.index[u]].kind = "call" /\ d[o.index[u]].tool = u
    BY <1>7, <1>9, <2>1, <2>3 DEF Kept
  <2>6. \A i \in 1 .. n + 1 : d[i].got \subseteq {Own(d[i])} \cup ArgsOf(o.eager) /\ d[i].late \subseteq ArgsOf(Tool)
    <3>1. SUFFICES ASSUME NEW i \in 1 .. n + 1
                   PROVE  d[i].got \subseteq {Own(d[i])} \cup ArgsOf(c.eager) /\ d[i].late \subseteq ArgsOf(Tool)
      BY <1>9 DEF Kept
    <3>2. CASE i = n + 1
      BY <1>5, <1>7, <3>2
    <3>3. CASE i \in 1 .. n
      BY <1>7, <2>1, <3>3
    <3> QED
      BY <2>2, <3>2, <3>3
  <2>7. n + 1 # 0 /\ o.open # "none" /\ e.kind = o.open
    <3>1. n + 1 # 0
      OBVIOUS
    <3>2. kind # "none"
      OBVIOUS
    <3> QED
      BY <1>5, <1>9, <3>1, <3>2
  <2>8. PICK q : q = Len(d)
    OBVIOUS
  <2>9. q = n + 1 /\ q = Len(o.blocks) /\ o.blocks = d /\ d[q] = e
    BY <1>7, <1>9, <2>8
  <2>10. /\ Len(o.blocks) # 0 /\ o.blocks[Len(o.blocks)].open
         /\ o.blocks[Len(o.blocks)].kind = o.open
    <3>1. d[q].open /\ d[q].kind = o.open /\ q # 0
      BY <1>5, <2>7, <2>9
    <3> QED
      BY <3>1, <2>9
  <2>11. \A i \in 1 .. Len(o.blocks) : o.blocks[i].open => i = Len(o.blocks) /\ o.open # "none"
    <3>1. \A i \in 1 .. q : d[i].open => i = q
      BY <2>4, <2>9
    <3> QED
      BY <3>1, <2>7, <2>9
  <2>12. \A u \in DOMAIN o.index : /\ o.index[u] \in 1 .. Len(o.blocks)
                                   /\ o.blocks[o.index[u]].kind = "call" /\ o.blocks[o.index[u]].tool = u
    <3>1. \A u \in DOMAIN o.index : /\ o.index[u] \in 1 .. q
                                    /\ d[o.index[u]].kind = "call" /\ d[o.index[u]].tool = u
      BY <2>5, <2>9
    <3> QED
      BY <3>1, <2>9
  <2>13. \A i \in 1 .. Len(o.blocks) : /\ o.blocks[i].got \subseteq {Own(o.blocks[i])} \cup ArgsOf(o.eager)
                                       /\ o.blocks[i].late \subseteq ArgsOf(Tool)
    <3>1. \A i \in 1 .. q : d[i].got \subseteq {Own(d[i])} \cup ArgsOf(o.eager) /\ d[i].late \subseteq ArgsOf(Tool)
      BY <2>6, <2>9
    <3> QED
      BY <3>1, <2>9
  <2> QED
    BY <2>10, <2>11, <2>12, <2>13 DEF BlocksOK
<1>11. Kept(o, s)
  BY <1>2, <1>9 DEF Kept
<1>12. PICK q : q = Len(d)
  OBVIOUS
<1>13. q = n + 1 /\ q = Len(o.blocks) /\ o.blocks = d /\ d[q] = e /\ n = Len(s.blocks)
  BY <1>2, <1>3, <1>7, <1>9, <1>12
<1>14. Len(o.blocks) = Len(s.blocks) + 1 /\ o.blocks[Len(o.blocks)].tool = t
  <2>1. d[q].tool = t
    BY <1>5, <1>13
  <2> QED
    BY <1>13, <2>1
<1> QED
  BY <1>9, <1>10, <1>11, <1>14

\* Block i got what, and no other block changed.
GotAt(c, s, i, what) ==
    /\ c \in RelayType /\ Kept(c, s) /\ c.open = s.open /\ Len(c.blocks) = Len(s.blocks)
    /\ \A j \in 1 .. Len(s.blocks) :
         /\ c.blocks[j].kind = s.blocks[j].kind /\ c.blocks[j].tool = s.blocks[j].tool
         /\ c.blocks[j].open = s.blocks[j].open
         /\ j # i => c.blocks[j] = s.blocks[j]
    /\ c.blocks[i].got = s.blocks[i].got \cup {what}
    /\ c.blocks[i].late \subseteq s.blocks[i].late \cup {what}
    /\ s.blocks[i].open => c.blocks[i].late = s.blocks[i].late

LEMMA DeltaAtIs ==
  ASSUME NEW s \in RelayType, NEW i \in 1 .. Len(s.blocks), NEW what \in Delta,
         NEW c, c = deltaEventAt(s, i, what)
  PROVE  GotAt(c, s, i, what)
<1>1. PICK b \in Seq(Block) : b = s.blocks
  BY DEF RelayType
<1>2. b[i] \in Block /\ i \in 1 .. Len(b)
  BY <1>1
<1>3. PICK e : e = Given(b[i], what)
  OBVIOUS
<1>4. /\ e \in Block /\ e.kind = b[i].kind /\ e.tool = b[i].tool /\ e.open = b[i].open
      /\ e.got = b[i].got \cup {what}
      /\ e.late = IF b[i].open THEN b[i].late ELSE b[i].late \cup {what}
  BY <1>2, <1>3 DEF Block, Given
<1>5. PICK d : d = [b EXCEPT ![i] = e]
  OBVIOUS
<1>6. d \in Seq(Block) /\ Len(d) = Len(b) /\ \A j \in 1 .. Len(b) : d[j] = IF j = i THEN e ELSE b[j]
  BY <1>2, <1>4, <1>5, ExceptSeq
<1>7. c = [s EXCEPT !.blocks = d]
  BY <1>1, <1>3, <1>5 DEF deltaEventAt
<1>8. c \in RelayType /\ Kept(c, s) /\ c.open = s.open /\ c.blocks = d
  BY <1>6, <1>7 DEF RelayType, Kept
<1> QED
  BY <1>1, <1>2, <1>4, <1>6, <1>8 DEF GotAt

\* What a block gets is its own, or the arguments of a call that began with them.
LEMMA OwnDelta ==
  ASSUME NEW s \in RelayType, BlocksOK(s), NEW i \in 1 .. Len(s.blocks), NEW what \in Delta,
         what = Own(s.blocks[i]) \/ what \in ArgsOf(s.eager),
         s.blocks[i].open \/ what \in ArgsOf(Tool),
         NEW c, c = deltaEventAt(s, i, what)
  PROVE  BlocksOK(c) /\ c \in RelayType /\ Kept(c, s) /\ c.open = s.open
<1>1. /\ c \in RelayType /\ Kept(c, s) /\ c.open = s.open /\ Len(c.blocks) = Len(s.blocks)
      /\ \A j \in 1 .. Len(s.blocks) :
           /\ c.blocks[j].kind = s.blocks[j].kind /\ c.blocks[j].tool = s.blocks[j].tool
           /\ c.blocks[j].open = s.blocks[j].open
           /\ j # i => c.blocks[j] = s.blocks[j]
      /\ c.blocks[i].got = s.blocks[i].got \cup {what}
      /\ c.blocks[i].late \subseteq s.blocks[i].late \cup {what}
      /\ s.blocks[i].open => c.blocks[i].late = s.blocks[i].late
  <2>1. GotAt(c, s, i, what)
    BY DeltaAtIs
  <2> QED
    BY <2>1 DEF GotAt
<1>2. \A j \in 1 .. Len(s.blocks) : Own(c.blocks[j]) = Own(s.blocks[j])
  BY <1>1 DEF Own
<1>3. \A j \in 1 .. Len(s.blocks) : /\ c.blocks[j].got \subseteq {Own(c.blocks[j])} \cup ArgsOf(c.eager)
                                    /\ c.blocks[j].late \subseteq ArgsOf(Tool)
  <2>1. SUFFICES ASSUME NEW j \in 1 .. Len(s.blocks)
                 PROVE  /\ c.blocks[j].got \subseteq {Own(s.blocks[j])} \cup ArgsOf(s.eager)
                        /\ c.blocks[j].late \subseteq ArgsOf(Tool)
    BY <1>1, <1>2 DEF Kept
  <2>2. s.blocks[j].got \subseteq {Own(s.blocks[j])} \cup ArgsOf(s.eager) /\ s.blocks[j].late \subseteq ArgsOf(Tool)
    BY DEF BlocksOK
  <2>3. CASE j # i
    BY <1>1, <2>2, <2>3
  <2>4. CASE j = i
    BY <1>1, <2>2, <2>4
  <2> QED
    BY <2>3, <2>4
<1>4. \A u \in DOMAIN c.index : /\ c.index[u] \in 1 .. Len(c.blocks)
                                /\ c.blocks[c.index[u]].kind = "call" /\ c.blocks[c.index[u]].tool = u
  <2>1. SUFFICES ASSUME NEW u \in DOMAIN s.index
                 PROVE  /\ s.index[u] \in 1 .. Len(s.blocks)
                        /\ c.blocks[s.index[u]].kind = "call" /\ c.blocks[s.index[u]].tool = u
    BY <1>1 DEF Kept
  <2>2. s.index[u] \in 1 .. Len(s.blocks) /\ s.blocks[s.index[u]].kind = "call" /\ s.blocks[s.index[u]].tool = u
    BY DEF BlocksOK
  <2> QED
    BY <1>1, <2>2
<1>5. /\ c.open # "none" => /\ Len(c.blocks) # 0 /\ c.blocks[Len(c.blocks)].open
                        /\ c.blocks[Len(c.blocks)].kind = c.open
      /\ \A j \in 1 .. Len(c.blocks) : c.blocks[j].open => j = Len(c.blocks) /\ c.open # "none"
  <2>a. PICK n \in Nat : n = Len(s.blocks)
    BY BlocksAre
  <2>b. s.open # "none" => n # 0
    BY <2>a DEF BlocksOK
  <2>c. n # 0 => n \in 1 .. n
    BY <2>a
  <2>1. s.open # "none" => Len(s.blocks) \in 1 .. Len(s.blocks)
    BY <2>a, <2>b, <2>c
  <2>2. /\ s.open # "none" => /\ Len(s.blocks) # 0 /\ s.blocks[Len(s.blocks)].open
                          /\ s.blocks[Len(s.blocks)].kind = s.open
        /\ \A j \in 1 .. Len(s.blocks) : s.blocks[j].open => j = Len(s.blocks) /\ s.open # "none"
    BY DEF BlocksOK
  <2>3. s.open # "none" => LET k == Len(s.blocks) IN c.blocks[k].open = s.blocks[k].open /\ c.blocks[k].kind = s.blocks[k].kind
    BY <1>1, <2>1
  <2> QED
    BY <1>1, <2>1, <2>2, <2>3
<1> QED
  BY <1>1, <1>3, <1>4, <1>5 DEF BlocksOK

\* What is the same when a call begins.
Goes(c, s) ==
    /\ c.wrote = s.wrote /\ c.started = s.started /\ c.reason = s.reason
    /\ c.told = s.told /\ c.ends = s.ends /\ c.terminated = s.terminated

LEMMA SameBlocks ==
  ASSUME NEW s, NEW c, BlocksOK(s),
         c.blocks = s.blocks, c.open = s.open, c.index = s.index, c.eager = s.eager
  PROVE  BlocksOK(c)
<1>1. /\ c.open # "none" => /\ Len(c.blocks) # 0 /\ c.blocks[Len(c.blocks)].open
                        /\ c.blocks[Len(c.blocks)].kind = c.open
      /\ \A i \in 1 .. Len(c.blocks) : c.blocks[i].open => i = Len(c.blocks) /\ c.open # "none"
  BY DEF BlocksOK
<1>2. \A t \in DOMAIN c.index : /\ c.index[t] \in 1 .. Len(c.blocks)
                                /\ c.blocks[c.index[t]].kind = "call" /\ c.blocks[c.index[t]].tool = t
  BY DEF BlocksOK
<1>3. \A i \in 1 .. Len(c.blocks) : /\ c.blocks[i].got \subseteq {Own(c.blocks[i])} \cup ArgsOf(c.eager)
                                    /\ c.blocks[i].late \subseteq ArgsOf(Tool)
  BY DEF BlocksOK
<1> QED
  BY <1>1, <1>2, <1>3 DEF BlocksOK

\* The block that is open is the last one.
LEMMA OpenLast ==
  ASSUME NEW s \in RelayType, BlocksOK(s), s.open # "none"
  PROVE  LET n == Len(s.blocks) IN
         n \in 1 .. Len(s.blocks) /\ s.blocks[n].open /\ s.blocks[n].kind = s.open
<1>1. PICK n \in Nat : n = Len(s.blocks)
  BY BlocksAre
<1>2. n # 0 /\ s.blocks[n].open /\ s.blocks[n].kind = s.open
  BY <1>1 DEF BlocksOK
<1>3. n # 0 => n \in 1 .. n
  BY <1>1
<1> QED
  BY <1>1, <1>2, <1>3

LEMMA TextsAre ==
  ASSUME NEW s \in RelayType, BlocksOK(s), NEW kind \in {"think", "text"}, NEW c, c = Texts(s, kind)
  PROVE  c \in RelayType /\ BlocksOK(c) /\ Goes(c, s)
<1>1. PICK now : now = IF s.open = kind THEN s ELSE openBlock(s, kind, "none")
  OBVIOUS
<1>2. now \in RelayType /\ BlocksOK(now) /\ Goes(now, s) /\ now.open = kind
  <2>1. CASE s.open = kind
    BY <1>1, <2>1 DEF Goes
  <2>2. CASE s.open # kind
    <3>1. now = openBlock(s, kind, "none") /\ kind \in {"think", "text", "call"} /\ "none" \in Tool \cup {"none"}
      BY <1>1, <2>2
    <3>2. now \in RelayType /\ Kept(now, s) /\ now.open = kind /\ BlocksOK(now)
      BY <3>1, OpenIs
    <3> QED
      BY <3>2 DEF Kept, Goes
  <2> QED
    BY <2>1, <2>2
<1>3. PICK n : n = Len(now.blocks)
  OBVIOUS
<1>4. n \in 1 .. Len(now.blocks) /\ now.blocks[n].open /\ now.blocks[n].kind = kind
  <2>1. now.open # "none"
    BY <1>2
  <2> QED
    BY <1>2, <1>3, <2>1, OpenLast
<1>5. PICK what : what = <<kind>>
  OBVIOUS
<1>6. what \in Delta /\ what = Own(now.blocks[n])
  BY <1>4, <1>5, DeltaAre DEF Own
<1>7. c = deltaEventAt(now, n, what)
  BY <1>1, <1>3, <1>5 DEF Texts
<1>8. BlocksOK(c) /\ c \in RelayType /\ Kept(c, now)
  BY <1>2, <1>4, <1>6, <1>7, OwnDelta
<1> QED
  BY <1>2, <1>8 DEF Kept, Goes

IndexWith(s, t) == [u \in DOMAIN s.index \cup {t} |-> IF u = t THEN Len(s.blocks) ELSE s.index[u]]
Knowable(s, t, E) ==
    /\ s \in RelayType /\ BlocksOK(s) /\ t \in Tool /\ s.open = "call"
    /\ s.blocks[Len(s.blocks)].tool = t /\ E \in SUBSET Tool /\ s.eager \subseteq E
Known(s, t, E) == [s EXCEPT !.index = IndexWith(s, t), !.eager = E]

\* The blocks are in order when the call of the last block becomes known.
LEMMA CallKnown ==
  ASSUME NEW s, NEW t, NEW E, Knowable(s, t, E), NEW c, c = Known(s, t, E)
  PROVE  c \in RelayType /\ BlocksOK(c) /\ Goes(c, s) /\ c.eager = E /\ 1 \in 1 .. Len(c.blocks)
<1>b. /\ s \in RelayType /\ BlocksOK(s) /\ t \in Tool /\ s.open = "call" /\ s.open # "none"
      /\ s.blocks[Len(s.blocks)].tool = t /\ E \in SUBSET Tool /\ s.eager \subseteq E
  BY DEF Knowable
<1>a. PICK n : n = Len(s.blocks)
  OBVIOUS
<1>1. n \in 1 .. Len(s.blocks) /\ s.blocks[n].kind = "call" /\ n \in Nat /\ s.blocks[n].tool = t
  BY <1>a, <1>b, OpenLast, BlocksAre
<1>2. PICK x : x = [u \in DOMAIN s.index \cup {t} |-> IF u = t THEN n ELSE s.index[u]]
  OBVIOUS
<1>3. x \in Index
  <2>1. PICK D \in SUBSET Tool : s.index \in [D -> Nat]
    BY <1>b DEF RelayType, Index
  <2>2. x \in [D \cup {t} -> Nat] /\ D \cup {t} \in SUBSET Tool
    BY <1>b, <1>1, <1>2, <2>1
  <2> QED
    BY <2>2 DEF Index
<1>4. c = [s EXCEPT !.index = x, !.eager = E]
  BY <1>a, <1>2 DEF Known, IndexWith
<1>5. c \in RelayType /\ Goes(c, s) /\ c.eager = E /\ c.index = x /\ c.blocks = s.blocks /\ c.open = s.open
  BY <1>b, <1>3, <1>4 DEF RelayType, Goes
<1>6. \A u \in DOMAIN c.index : /\ c.index[u] \in 1 .. Len(c.blocks)
                                /\ c.blocks[c.index[u]].kind = "call" /\ c.blocks[c.index[u]].tool = u
  <2>1. SUFFICES ASSUME NEW u \in DOMAIN s.index \cup {t}
                 PROVE  x[u] \in 1 .. Len(s.blocks) /\ s.blocks[x[u]].kind = "call" /\ s.blocks[x[u]].tool = u
    <3>1. c.index = x /\ c.blocks = s.blocks /\ DOMAIN x = DOMAIN s.index \cup {t}
      BY <1>2, <1>5
    <3> QED
      BY <3>1
  <2>2. CASE u = t
    BY <1>1, <1>2, <2>2
  <2>3. CASE u # t
    <3>1. u \in DOMAIN s.index /\ x[u] = s.index[u]
      BY <1>2, <2>3
    <3> QED
      BY <1>b, <3>1 DEF BlocksOK
  <2> QED
    BY <2>2, <2>3
<1>7. \A i \in 1 .. Len(c.blocks) : /\ c.blocks[i].got \subseteq {Own(c.blocks[i])} \cup ArgsOf(c.eager)
                                    /\ c.blocks[i].late \subseteq ArgsOf(Tool)
  <2>1. ArgsOf(s.eager) \subseteq ArgsOf(E)
    BY <1>b DEF ArgsOf
  <2> QED
    BY <1>b, <1>5, <2>1 DEF BlocksOK
<1>8. BlocksOK(c)
  <2>1. /\ c.open # "none" => /\ Len(c.blocks) # 0 /\ c.blocks[Len(c.blocks)].open
                          /\ c.blocks[Len(c.blocks)].kind = c.open
        /\ \A i \in 1 .. Len(c.blocks) : c.blocks[i].open => i = Len(c.blocks) /\ c.open # "none"
    BY <1>b, <1>5 DEF BlocksOK
  <2> QED
    BY <1>6, <1>7, <2>1 DEF BlocksOK
<1>9. 1 \in 1 .. Len(s.blocks)
  <2>1. PICK k \in Nat : k = Len(s.blocks)
    BY <1>b, BlocksAre
  <2>2. 1 \in 1 .. k
    BY <1>1, <2>1
  <2> QED
    BY <2>1, <2>2
<1> QED
  BY <1>5, <1>8, <1>9

LEMMA CallsAre ==
  ASSUME NEW s \in RelayType, BlocksOK(s), NEW t \in Tool, NEW args \in BOOLEAN, NEW c, c = Calls(s, t, args)
  PROVE  c \in RelayType /\ BlocksOK(c) /\ Goes(c, s)
<1>1. Args(t) \in Delta /\ Args(t) \in ArgsOf(Tool)
  BY DeltaAre DEF ArgsOf
<1>2. CASE t \in DOMAIN s.index /\ args
  <2>1. PICK i : i = s.index[t]
    OBVIOUS
  <2>2. i \in 1 .. Len(s.blocks) /\ Own(s.blocks[i]) = Args(t)
    BY <1>2, <2>1 DEF BlocksOK, Own
  <2>3. PICK what : what = Args(t)
    OBVIOUS
  <2>4. c = deltaEventAt(s, i, what)
    BY <1>2, <2>1, <2>3 DEF Calls, Args
  <2>5. what \in Delta /\ what = Own(s.blocks[i]) /\ what \in ArgsOf(Tool)
    BY <1>1, <2>2, <2>3
  <2>6. BlocksOK(c) /\ c \in RelayType /\ Kept(c, s)
    BY <2>2, <2>4, <2>5, OwnDelta
  <2> QED
    BY <2>6 DEF Kept, Goes
<1>3. CASE t \in DOMAIN s.index /\ ~args
  BY <1>3 DEF Calls, Goes
<1>4. CASE t \notin DOMAIN s.index
  <2>1. PICK now : now = openBlock(s, "call", t)
    OBVIOUS
  <2>2. /\ now \in RelayType /\ Kept(now, s) /\ now.open = "call" /\ BlocksOK(now)
        /\ now.blocks[Len(now.blocks)].tool = t
    <3>1. "call" \in {"think", "text", "call"} /\ t \in Tool \cup {"none"}
      OBVIOUS
    <3> QED
      BY <2>1, <3>1, OpenIs
  <2>4. PICK E : E = IF args THEN now.eager \cup {t} ELSE now.eager
    OBVIOUS
  <2>5. E \in SUBSET Tool /\ now.eager \subseteq E /\ (args => t \in E)
    BY <2>2, <2>4 DEF RelayType
  <2>6. PICK known : known = Known(now, t, E)
    OBVIOUS
  <2>7. /\ known \in RelayType /\ BlocksOK(known) /\ Goes(known, now) /\ known.eager = E
        /\ 1 \in 1 .. Len(known.blocks)
    <3>1. now.open = "call" /\ now.blocks[Len(now.blocks)].tool = t
      BY <2>2
    <3>2. now \in RelayType /\ BlocksOK(now) /\ E \in SUBSET Tool /\ now.eager \subseteq E
      BY <2>2, <2>5
    <3>3. Knowable(now, t, E)
      BY <3>1, <3>2 DEF Knowable
    <3> QED
      BY <2>6, <3>3, CallKnown
  <2>8. known = [now EXCEPT !.index = [u \in DOMAIN @ \cup {t} |-> IF u = t THEN Len(now.blocks) ELSE @[u]],
                            !.eager = IF args THEN @ \cup {t} ELSE @]
    BY <2>4, <2>6 DEF Known, IndexWith
  <2>9. c = IF args THEN deltaEventAt(known, 1, <<"args", t>>) ELSE known
    BY <1>4, <2>1, <2>8 DEF Calls
  <2>10. Goes(known, s)
    BY <2>2, <2>7 DEF Kept, Goes
  <2>11. CASE ~args
    BY <2>7, <2>9, <2>10, <2>11
  <2>12. CASE args
    <3>1. PICK what : what = Args(t)
      OBVIOUS
    <3>2. what \in ArgsOf(known.eager) /\ what \in Delta /\ what \in ArgsOf(Tool)
      BY <1>1, <2>5, <2>7, <2>12, <3>1 DEF ArgsOf
    <3>3. PICK i : i = 1
      OBVIOUS
    <3>4. c = deltaEventAt(known, i, what) /\ i \in 1 .. Len(known.blocks)
      BY <2>7, <2>9, <2>12, <3>1, <3>3 DEF Args
    <3>5. BlocksOK(c) /\ c \in RelayType /\ Kept(c, known)
      BY <2>7, <3>2, <3>4, OwnDelta
    <3> QED
      BY <2>10, <3>5 DEF Kept, Goes
  <2> QED
    BY <2>11, <2>12
<1> QED
  BY <1>2, <1>3, <1>4

LEMMA FinalizeIs ==
  ASSUME NEW s \in RelayType, AnthropicOK(s, TRUE), NEW f, f = FinalizeAnthropic(s)
  PROVE  /\ f \in RelayType /\ BlocksOK(f) /\ f.wrote = s.wrote /\ f.started = s.started
         /\ f.terminated = s.terminated /\ f.reason = s.reason
         /\ f.ends <= 1 /\ (f.ends = 1 => f.open = "none") /\ (f.started => f.ends = 1)
         /\ f.told # "none" => f.ends = 1
         /\ f.told = "tools" => f.reason = "tools"
         /\ ~f.started => f.blocks = <<>>
<1>1. s.ends \in Nat /\ s.ends <= 1 /\ s.reason \in {"none", "end", "tools"} /\ BlocksOK(s)
  BY DEF RelayType, AnthropicOK
<1>2. CASE ~s.started \/ s.ends > 0
  <2>1. f = s
    BY <1>2 DEF FinalizeAnthropic
  <2>2. s.started => s.ends = 1
    <3>1. PICK e \in Nat : e = s.ends
      BY <1>1
    <3> QED
      BY <1>1, <1>2, <3>1
  <2> QED
    BY <1>1, <2>1, <2>2 DEF AnthropicOK
<1>3. CASE s.started /\ ~(s.ends > 0)
  <2>1. PICK c : c = closeBlock(s)
    OBVIOUS
  <2>2. c \in RelayType /\ Kept(c, s) /\ c.open = "none" /\ BlocksOK(c)
    BY <1>1, <2>1, CloseIs
  <2>3. PICK told : told = IF s.reason = "none" THEN "end" ELSE s.reason
    OBVIOUS
  <2>4. /\ told \in {"none", "end", "tools"} /\ told # "none" /\ (told = "tools" => s.reason = "tools")
    BY <1>1, <2>3
  <2>5. f = [c EXCEPT !.ends = 1, !.told = told]
    BY <1>3, <2>1, <2>3 DEF FinalizeAnthropic
  <2>6. /\ f \in RelayType /\ f.ends = 1 /\ f.told = told /\ f.open = "none" /\ f.reason = c.reason
        /\ f.wrote = c.wrote /\ f.started = c.started /\ f.terminated = c.terminated
        /\ f.blocks = c.blocks /\ f.index = c.index /\ f.eager = c.eager
    <3>1. PICK g : g = [c EXCEPT !.ends = 1]
      OBVIOUS
    <3>2. /\ g \in RelayType /\ g.ends = 1 /\ g.open = c.open /\ g.reason = c.reason
          /\ g.wrote = c.wrote /\ g.started = c.started /\ g.terminated = c.terminated
          /\ g.blocks = c.blocks /\ g.index = c.index /\ g.eager = c.eager
      BY <2>2, <3>1 DEF RelayType
    <3>3. f = [g EXCEPT !.told = told]
      BY <2>5, <3>1
    <3>4. /\ f \in RelayType /\ f.ends = g.ends /\ f.told = told /\ f.open = g.open /\ f.reason = g.reason
          /\ f.wrote = g.wrote /\ f.started = g.started /\ f.terminated = g.terminated
          /\ f.blocks = g.blocks /\ f.index = g.index /\ f.eager = g.eager
      BY <2>4, <3>2, <3>3 DEF RelayType
    <3> QED
      BY <2>2, <3>2, <3>4
  <2>7. BlocksOK(f)
    BY <2>2, <2>6, SameBlocks
  <2>8. c.wrote = s.wrote /\ c.started = s.started /\ c.reason = s.reason /\ c.terminated = s.terminated
    BY <2>2 DEF Kept
  <2> QED
    BY <1>3, <2>4, <2>6, <2>7, <2>8
<1> QED
  BY <1>2, <1>3

--------------------------------------------------------------------------
(* A part of a stream that is translated for an Anthropic client *)

LEMMA AnthropicGoesOn ==
  ASSUME NEW s, ~s.terminated, AnthropicOK(s, TRUE), NEW b, b.started, b.wrote, b.told = s.told,
         b.ends = s.ends, b.terminated = s.terminated, s.ends \in Nat,
         NEW c, Goes(c, b), BlocksOK(c)
  PROVE  AnthropicOK(c, TRUE)
<1>1. s.ends # 1 /\ s.told = "none" /\ s.ends <= 1
  BY DEF AnthropicOK
<1> QED
  BY <1>1 DEF AnthropicOK, Goes

WithReason(s, given) == [s EXCEPT !.reason = given]

LEMMA ReasonGiven ==
  ASSUME NEW s \in RelayType, NEW given \in {"none", "end", "tools"}, NEW c, c = WithReason(s, given)
  PROVE  /\ c \in RelayType /\ c.wrote = s.wrote /\ c.started = s.started /\ c.reason = given
         /\ c.told = s.told /\ c.ends = s.ends /\ c.terminated = s.terminated
         /\ c.blocks = s.blocks /\ c.open = s.open /\ c.index = s.index /\ c.eager = s.eager
BY DEF RelayType, WithReason

LEMMA AnthropicPart ==
  ASSUME NEW s \in RelayType, AnthropicOK(s, TRUE), NEW p \in ChatParts, s.terminated => p[1] = "done",
         NEW c, c = ChatToAnthropic(s, p)
  PROVE  c \in RelayType /\ AnthropicOK(c, TRUE)
<1>1. PICK b : b = [s EXCEPT !.started = TRUE, !.wrote = TRUE]
  OBVIOUS
<1>2. /\ b \in RelayType /\ b.started /\ b.wrote /\ b.told = s.told /\ b.ends = s.ends
      /\ b.terminated = s.terminated /\ s.ends \in Nat
      /\ b.blocks = s.blocks /\ b.open = s.open /\ b.index = s.index /\ b.eager = s.eager
  BY <1>1 DEF RelayType
<1>3. BlocksOK(b)
  BY <1>2, SameBlocks DEF AnthropicOK
<1>4. ASSUME p[1] # "done", c \in RelayType, Goes(c, b), BlocksOK(c)
      PROVE  c \in RelayType /\ AnthropicOK(c, TRUE)
  BY <1>2, <1>4, AnthropicGoesOn
<1>5. CASE p = <<"usage">>
  <2>1. c = b /\ p[1] # "done"
    BY <1>1, <1>5 DEF ChatToAnthropic
  <2> QED
    BY <1>2, <1>3, <1>4, <2>1 DEF Goes
<1>6. CASE p \in {<<"think">>, <<"text">>}
  <2>1. PICK kind \in {"think", "text"} : p = <<kind>>
    BY <1>6
  <2>2. c = Texts(b, kind) /\ p[1] # "done"
    BY <1>1, <2>1 DEF ChatToAnthropic
  <2> QED
    BY <1>2, <1>3, <1>4, <2>2, TextsAre
<1>7. CASE p \in {<<"finish", "end">>, <<"finish", "tools">>}
  <2>1. PICK r \in {"end", "tools"} : p = <<"finish", r>>
    BY <1>7
  <2>2. PICK given : given = ReasonOf(s, r)
    OBVIOUS
  <2>3. given \in {"none", "end", "tools"}
    BY <2>2 DEF ReasonOf
  <2>4. c = WithReason(b, given) /\ p[1] # "done"
    BY <1>1, <2>1, <2>2 DEF ChatToAnthropic, WithReason
  <2>5. /\ c \in RelayType /\ c.started = b.started /\ c.wrote = b.wrote /\ c.told = b.told /\ c.ends = b.ends
        /\ c.terminated = b.terminated
        /\ c.blocks = b.blocks /\ c.open = b.open /\ c.index = b.index /\ c.eager = b.eager
    <3>1. b \in RelayType
      BY <1>2
    <3>2. c = WithReason(b, given)
      BY <2>4
    <3> QED
      BY <2>3, <3>1, <3>2, ReasonGiven
  <2>6. BlocksOK(c)
    BY <1>3, <2>5, SameBlocks
  <2>7. s.ends # 1 /\ s.told = "none" /\ s.ends <= 1
    BY <2>4 DEF AnthropicOK
  <2> QED
    BY <1>2, <2>4, <2>5, <2>6, <2>7 DEF AnthropicOK
<1>8. CASE p = <<"done">>
  <2>1. PICK f : f = FinalizeAnthropic(s)
    OBVIOUS
  <2>2. /\ f \in RelayType /\ BlocksOK(f) /\ f.wrote = s.wrote /\ f.started = s.started
        /\ f.terminated = s.terminated /\ f.reason = s.reason
        /\ f.ends <= 1 /\ (f.ends = 1 => f.open = "none") /\ (f.started => f.ends = 1)
        /\ f.told # "none" => f.ends = 1
        /\ f.told = "tools" => f.reason = "tools"
        /\ ~f.started => f.blocks = <<>>
    BY <2>1, FinalizeIs
  <2>3. c = [f EXCEPT !.terminated = TRUE]
    BY <1>8, <2>1 DEF ChatToAnthropic
  <2>4. /\ c \in RelayType /\ c.terminated /\ c.wrote = f.wrote /\ c.started = f.started
        /\ c.reason = f.reason /\ c.ends = f.ends /\ c.told = f.told
        /\ c.blocks = f.blocks /\ c.open = f.open /\ c.index = f.index /\ c.eager = f.eager
    BY <2>2, <2>3 DEF RelayType
  <2>5. BlocksOK(c)
    BY <2>2, <2>4, SameBlocks
  <2>6. s.wrote = s.started
    BY DEF AnthropicOK
  <2> QED
    BY <2>2, <2>4, <2>5, <2>6 DEF AnthropicOK
<1>9. CASE p \in {"call"} \X Tool \X BOOLEAN
  <2>1. PICK t \in Tool, args \in BOOLEAN : p = <<"call", t, args>>
    BY <1>9
  <2>2. c = Calls(b, t, args) /\ p[1] # "done"
    BY <1>1, <2>1 DEF ChatToAnthropic
  <2> QED
    BY <1>2, <1>3, <1>4, <2>2, CallsAre
<1> QED
  BY <1>5, <1>6, <1>7, <1>8, <1>9 DEF ChatParts

--------------------------------------------------------------------------
(* A part of a stream that is translated for a chat client *)

LEMMA SameCalls ==
  ASSUME NEW s, NEW c, ChatBlocks(s), c.blocks = s.blocks, c.open = s.open, c.index = s.index
  PROVE  ChatBlocks(c)
BY DEF ChatBlocks

LEMMA ChatFinish ==
  ASSUME NEW s \in RelayType, ChatOK(s), ~s.terminated, NEW f, f = FinishChat(s)
  PROVE  /\ f \in RelayType /\ ChatBlocks(f) /\ f.ends = 1
         /\ f.told = "tools" => f.reason = "tools"
<1>1. PICK told : told = IF s.reason = "none" THEN "end" ELSE s.reason
  OBVIOUS
<1>2. s.reason \in {"none", "end", "tools"} /\ s.ends = 0 /\ ChatBlocks(s)
  BY DEF RelayType, ChatOK
<1>3. told \in {"none", "end", "tools"} /\ (told = "tools" => s.reason = "tools")
  BY <1>1, <1>2
<1>4. PICK g : g = [s EXCEPT !.ends = 1]
  OBVIOUS
<1>5. /\ g \in RelayType /\ g.ends = 1 /\ g.open = s.open /\ g.reason = s.reason
      /\ g.blocks = s.blocks /\ g.index = s.index
  BY <1>4 DEF RelayType
<1>6. f = [g EXCEPT !.told = told]
  <2>1. s.ends + 1 = 1
    BY <1>2
  <2> QED
    BY <1>1, <1>4, <2>1 DEF FinishChat
<1>7. /\ f \in RelayType /\ f.ends = g.ends /\ f.told = told /\ f.open = g.open /\ f.reason = g.reason
      /\ f.blocks = g.blocks /\ f.index = g.index
  BY <1>3, <1>5, <1>6 DEF RelayType
<1>8. ChatBlocks(f)
  BY <1>2, <1>5, <1>7, SameCalls
<1> QED
  BY <1>3, <1>5, <1>7, <1>8

LEMMA ChatEnd ==
  ASSUME NEW s \in RelayType, ChatBlocks(s), s.told = "tools" => s.reason = "tools", s.started => s.ends = 1,
         NEW c, c = [s EXCEPT !.terminated = TRUE, !.wrote = TRUE]
  PROVE  c \in RelayType /\ ChatOK(c) /\ c.terminated /\ c.wrote
<1>1. /\ c \in RelayType /\ c.terminated /\ c.wrote /\ c.started = s.started /\ c.ends = s.ends
      /\ c.told = s.told /\ c.reason = s.reason
      /\ c.open = s.open /\ c.blocks = s.blocks /\ c.index = s.index
  BY DEF RelayType
<1>2. ChatBlocks(c)
  BY <1>1, SameCalls
<1> QED
  BY <1>1, <1>2 DEF ChatOK

NewIndex(s, x) == [s EXCEPT !.index = x]

LEMMA NewIndexed ==
  ASSUME NEW s \in RelayType, NEW x \in Index, NEW c, c = NewIndex(s, x)
  PROVE  /\ c \in RelayType /\ c.wrote = s.wrote /\ c.terminated = s.terminated /\ c.ends = s.ends
         /\ c.told = s.told /\ c.reason = s.reason /\ c.open = s.open /\ c.blocks = s.blocks /\ c.index = x
BY DEF RelayType, NewIndex

LEMMA ChatCall ==
  ASSUME NEW s \in RelayType, ChatOK(s), NEW t \in Tool, NEW c, c = AnthropicToChat(s, <<"call", t>>)
  PROVE  /\ c \in RelayType /\ ChatBlocks(c) /\ c.wrote /\ c.terminated = s.terminated
         /\ c.ends = s.ends /\ c.told = s.told /\ c.reason = s.reason
<1>1. PICK b \in Seq(Block) : b = s.blocks
  BY DEF RelayType
<1>2. PICK n \in Nat : n = Len(b)
  BY <1>1
<1>3. PICK e : e = [kind |-> "call", tool |-> t, open |-> TRUE, got |-> {}, late |-> {}]
  OBVIOUS
<1>4. e \in Block /\ e.tool = t /\ e.got = {}
  BY <1>3 DEF Block
<1>5. PICK d : d = Append(b, e)
  OBVIOUS
<1>6. d \in Seq(Block) /\ Len(d) = n + 1 /\ d[n + 1] = e /\ \A j \in 1 .. n : d[j] = b[j]
  BY <1>2, <1>4, <1>5, AppendProperties
<1>7. PICK x : x = [u \in DOMAIN s.index \cup {t} |-> IF u = t THEN n + 1 ELSE s.index[u]]
  OBVIOUS
<1>8. x \in Index
  <2>1. PICK D \in SUBSET Tool : s.index \in [D -> Nat]
    BY DEF RelayType, Index
  <2>2. x \in [D \cup {t} -> Nat] /\ D \cup {t} \in SUBSET Tool
    BY <1>7, <2>1
  <2> QED
    BY <2>2 DEF Index
<1>9. c = [s EXCEPT !.wrote = TRUE, !.blocks = d, !.index = x]
  <2>1. PICK p : p = <<"call", t>>
    OBVIOUS
  <2>2. p[1] = "call" /\ p[2] = t /\ c = AnthropicToChat(s, p)
    BY <2>1
  <2>3. c = [s EXCEPT !.wrote = TRUE,
              !.blocks = Append(@, [kind |-> "call", tool |-> p[2], open |-> TRUE, got |-> {}, late |-> {}]),
              !.index = [u \in DOMAIN @ \cup {p[2]} |-> IF u = p[2] THEN Len(s.blocks) + 1 ELSE @[u]]]
    BY <2>2 DEF AnthropicToChat
  <2> QED
    BY <1>1, <1>2, <1>3, <1>5, <1>7, <2>2, <2>3
<1>10. PICK g : g = [s EXCEPT !.wrote = TRUE, !.blocks = d]
  OBVIOUS
<1>11. /\ g \in RelayType /\ g.wrote /\ g.terminated = s.terminated /\ g.ends = s.ends /\ g.told = s.told
       /\ g.reason = s.reason /\ g.open = s.open /\ g.blocks = d
  BY <1>6, <1>10 DEF RelayType
<1>12. c = [g EXCEPT !.index = x]
  BY <1>9, <1>10
<1>13. /\ c \in RelayType /\ c.wrote = g.wrote /\ c.terminated = g.terminated /\ c.ends = g.ends
       /\ c.told = g.told /\ c.reason = g.reason /\ c.open = g.open /\ c.blocks = g.blocks /\ c.index = x
  <2>1. g \in RelayType /\ c = NewIndex(g, x)
    BY <1>11, <1>12 DEF NewIndex
  <2> QED
    BY <1>8, <2>1, NewIndexed
<1>14. \A i \in 1 .. n + 1 : i = n + 1 \/ i \in 1 .. n
  OBVIOUS
<1>15. /\ \A u \in DOMAIN s.index : s.index[u] \in 1 .. n /\ b[s.index[u]].tool = u
       /\ \A i \in 1 .. n : b[i].got \subseteq {Args(b[i].tool)}
       /\ s.open = "none"
  BY <1>1, <1>2 DEF ChatOK, ChatBlocks
<1>16. \A i \in 1 .. n + 1 : d[i].got \subseteq {Args(d[i].tool)}
  BY <1>4, <1>6, <1>14, <1>15
<1>17. \A u \in DOMAIN x : x[u] \in 1 .. n + 1 /\ d[x[u]].tool = u
  <2>1. SUFFICES ASSUME NEW u \in DOMAIN s.index \cup {t}
                 PROVE  x[u] \in 1 .. n + 1 /\ d[x[u]].tool = u
    BY <1>7
  <2>2. CASE u = t
    BY <1>4, <1>6, <1>7, <2>2
  <2>3. CASE u # t
    <3>1. u \in DOMAIN s.index /\ x[u] = s.index[u]
      BY <1>7, <2>3
    <3>2. s.index[u] \in 1 .. n /\ b[s.index[u]].tool = u
      BY <1>15, <3>1
    <3>3. \A k \in 1 .. n : k \in 1 .. n + 1
      OBVIOUS
    <3> QED
      BY <1>6, <3>1, <3>2, <3>3
  <2> QED
    BY <2>2, <2>3
<1>18. ChatBlocks(c)
  <2>1. PICK q : q = Len(d)
    OBVIOUS
  <2>2. q = n + 1 /\ q = Len(c.blocks) /\ c.blocks = d /\ c.index = x /\ c.open = "none"
    BY <1>6, <1>11, <1>13, <1>15, <2>1
  <2>3. \A i \in 1 .. q : d[i].got \subseteq {Args(d[i].tool)}
    BY <1>16, <2>2
  <2>4. \A u \in DOMAIN x : x[u] \in 1 .. q /\ d[x[u]].tool = u
    BY <1>17, <2>2
  <2> QED
    BY <2>2, <2>3, <2>4 DEF ChatBlocks
<1> QED
  BY <1>11, <1>13, <1>18

LEMMA ChatArguments ==
  ASSUME NEW s \in RelayType, ChatOK(s), NEW t \in Tool, t \in DOMAIN s.index, NEW i, i = s.index[t],
         NEW c, c = deltaEventAt(s, i, Args(t))
  PROVE  /\ c \in RelayType /\ ChatBlocks(c) /\ c.terminated = s.terminated
         /\ c.ends = s.ends /\ c.told = s.told /\ c.reason = s.reason
<1>1. i \in 1 .. Len(s.blocks) /\ s.blocks[i].tool = t /\ s.open = "none"
  BY DEF ChatOK, ChatBlocks
<1>2. PICK what \in Delta : what = Args(t)
  BY DeltaAre
<1>3. /\ c \in RelayType /\ Kept(c, s) /\ c.open = s.open /\ Len(c.blocks) = Len(s.blocks)
      /\ \A j \in 1 .. Len(s.blocks) :
           /\ c.blocks[j].kind = s.blocks[j].kind /\ c.blocks[j].tool = s.blocks[j].tool
           /\ c.blocks[j].open = s.blocks[j].open
           /\ j # i => c.blocks[j] = s.blocks[j]
      /\ c.blocks[i].got = s.blocks[i].got \cup {what}
  <2>1. c = deltaEventAt(s, i, what)
    BY <1>2
  <2>2. GotAt(c, s, i, what)
    BY <1>1, <2>1, DeltaAtIs
  <2> QED
    BY <2>2 DEF GotAt
<1>4. \A j \in 1 .. Len(s.blocks) : c.blocks[j].got \subseteq {Args(c.blocks[j].tool)}
  <2>1. TAKE j \in 1 .. Len(s.blocks)
  <2>2. s.blocks[j].got \subseteq {Args(s.blocks[j].tool)}
    BY DEF ChatOK, ChatBlocks
  <2>3. CASE j # i
    BY <1>3, <2>2, <2>3
  <2>4. CASE j = i
    BY <1>1, <1>2, <1>3, <2>2, <2>4
  <2> QED
    BY <2>3, <2>4
<1>5. \A u \in DOMAIN c.index : c.index[u] \in 1 .. Len(c.blocks) /\ c.blocks[c.index[u]].tool = u
  <2>1. SUFFICES ASSUME NEW u \in DOMAIN s.index
                 PROVE  s.index[u] \in 1 .. Len(s.blocks) /\ c.blocks[s.index[u]].tool = u
    BY <1>3 DEF Kept
  <2>2. s.index[u] \in 1 .. Len(s.blocks) /\ s.blocks[s.index[u]].tool = u
    BY DEF ChatOK, ChatBlocks
  <2> QED
    BY <1>3, <2>2
<1>6. ChatBlocks(c)
  <2>1. PICK q : q = Len(c.blocks)
    OBVIOUS
  <2>2. \A j \in 1 .. q : c.blocks[j].got \subseteq {Args(c.blocks[j].tool)}
    BY <1>3, <1>4, <2>1
  <2>3. c.open = "none"
    BY <1>1, <1>3
  <2> QED
    BY <1>5, <2>1, <2>2, <2>3 DEF ChatBlocks
<1> QED
  BY <1>3, <1>6 DEF Kept

LEMMA ChatPart ==
  ASSUME NEW s \in RelayType, ChatOK(s), ~s.terminated, NEW p \in AnthropicParts, NEW c, c = AnthropicToChat(s, p)
  PROVE  c \in RelayType /\ ChatOK(c)
<1>1. s.ends = 0 /\ s.told = "none" /\ ChatBlocks(s)
  BY DEF ChatOK
<1>2. CASE p = <<"message_start">>
  <2>1. c = [s EXCEPT !.started = TRUE]
    BY <1>2 DEF AnthropicToChat
  <2>2. /\ c \in RelayType /\ c.terminated = s.terminated /\ c.ends = s.ends /\ c.told = s.told
        /\ c.wrote = s.wrote /\ c.blocks = s.blocks /\ c.open = s.open /\ c.index = s.index
    BY <2>1 DEF RelayType
  <2>3. ChatBlocks(c)
    BY <1>1, <2>2, SameCalls
  <2> QED
    BY <1>1, <2>2, <2>3 DEF ChatOK
<1>3. CASE p = <<"ping">>
  BY <1>3 DEF AnthropicToChat
<1>4. CASE p = <<"text">>
  <2>1. c = [s EXCEPT !.wrote = TRUE]
    BY <1>4 DEF AnthropicToChat
  <2>2. /\ c \in RelayType /\ c.terminated = s.terminated /\ c.ends = s.ends /\ c.told = s.told
        /\ c.wrote /\ c.blocks = s.blocks /\ c.open = s.open /\ c.index = s.index
    BY <2>1 DEF RelayType
  <2>3. ChatBlocks(c)
    BY <1>1, <2>2, SameCalls
  <2> QED
    BY <1>1, <2>2, <2>3 DEF ChatOK
<1>5. CASE p \in {<<"finish", "end">>, <<"finish", "tools">>}
  <2>1. PICK r \in {"end", "tools"} : p = <<"finish", r>>
    BY <1>5
  <2>2. PICK given : given = ReasonOf(s, r)
    OBVIOUS
  <2>3. given \in {"none", "end", "tools"}
    BY <2>2 DEF ReasonOf
  <2>4. c = WithReason(s, given)
    BY <2>1, <2>2 DEF AnthropicToChat, WithReason
  <2>5. /\ c \in RelayType /\ c.terminated = s.terminated /\ c.ends = s.ends /\ c.told = s.told
        /\ c.wrote = s.wrote /\ c.blocks = s.blocks /\ c.open = s.open /\ c.index = s.index
    BY <2>3, <2>4, ReasonGiven
  <2>6. ChatBlocks(c)
    BY <1>1, <2>5, SameCalls
  <2>7. ~s.wrote => s.blocks = <<>>
    BY DEF ChatOK
  <2> QED
    BY <1>1, <2>5, <2>6, <2>7 DEF ChatOK
<1>6. CASE p = <<"message_stop">>
  <2>1. PICK f : f = FinishChat(s)
    OBVIOUS
  <2>2. f \in RelayType /\ ChatBlocks(f) /\ f.ends = 1 /\ (f.told = "tools" => f.reason = "tools")
    BY <2>1, ChatFinish
  <2>3. c = [f EXCEPT !.terminated = TRUE, !.wrote = TRUE]
    BY <1>6, <2>1 DEF AnthropicToChat
  <2> QED
    BY <2>2, <2>3, ChatEnd
<1>7. CASE p \in {"call"} \X Tool
  <2>1. PICK t \in Tool : p = <<"call", t>>
    BY <1>7
  <2>2. /\ c \in RelayType /\ ChatBlocks(c) /\ c.wrote /\ c.terminated = s.terminated
        /\ c.ends = s.ends /\ c.told = s.told
    BY <2>1, ChatCall
  <2> QED
    BY <1>1, <2>2 DEF ChatOK
<1>8. CASE p \in {"args"} \X Tool
  <2>1. PICK t \in Tool : p = <<"args", t>>
    BY <1>8
  <2>2. CASE t \notin DOMAIN s.index
    BY <2>1, <2>2 DEF AnthropicToChat
  <2>3. CASE t \in DOMAIN s.index
    <3>1. PICK d : d = deltaEventAt(s, s.index[t], Args(t))
      OBVIOUS
    <3>2. /\ d \in RelayType /\ ChatBlocks(d) /\ d.terminated = s.terminated
          /\ d.ends = s.ends /\ d.told = s.told
      BY <2>3, <3>1, ChatArguments
    <3>3. c = [d EXCEPT !.wrote = TRUE]
      BY <2>1, <2>3, <3>1 DEF AnthropicToChat, Args
    <3>4. /\ c \in RelayType /\ c.terminated = d.terminated /\ c.ends = d.ends /\ c.told = d.told
          /\ c.wrote /\ c.blocks = d.blocks /\ c.open = d.open /\ c.index = d.index
      BY <3>2, <3>3 DEF RelayType
    <3>5. ChatBlocks(c)
      BY <3>2, <3>4, SameCalls
    <3> QED
      BY <1>1, <3>2, <3>4, <3>5 DEF ChatOK
  <2> QED
    BY <2>2, <2>3
<1>9. p \in {<<"message_start">>, <<"text">>, <<"finish", "end">>, <<"finish", "tools">>, <<"message_stop">>, <<"ping">>}
        \/ p \in {"call"} \X Tool \/ p \in {"args"} \X Tool
  BY DEF AnthropicParts
<1> QED
  BY <1>2, <1>3, <1>4, <1>5, <1>6, <1>7, <1>8, <1>9

--------------------------------------------------------------------------
(* A part of a stream that is relayed as it is *)

RelayedOK(s, p, c) ==
    /\ c \in RelayType /\ (c.tools <=> s.tools \/ p[1] = "tools")
    /\ c.finishes = s.finishes + (IF p[1] = "finish" THEN 1 ELSE 0)
    /\ c.open = s.open /\ c.blocks = s.blocks /\ c.index = s.index /\ c.told = s.told
    /\ c.split = s.split /\ c.sawTools = s.sawTools /\ c.sawFinish = s.sawFinish

LEMMA RelayedIs ==
  ASSUME NEW s \in RelayType, NEW p, NEW c, c = Relayed(s, p)
  PROVE  RelayedOK(s, p, c)
<1>1. PICK n : n = s.finishes + (IF p[1] = "finish" THEN 1 ELSE 0)
  OBVIOUS
<1>2. s.finishes \in Nat /\ s.tools \in BOOLEAN
  BY DEF RelayType
<1>3. n \in Nat
  BY <1>1, <1>2
<1>4. PICK b : b = (s.tools \/ p[1] = "tools")
  OBVIOUS
<1>5. b \in BOOLEAN
  BY <1>2, <1>4, Zenon
<1>6. c = [s EXCEPT !.tools = b, !.finishes = n]
  BY <1>1, <1>4 DEF Relayed
<1> QED
  BY <1>1, <1>3, <1>4, <1>5, <1>6 DEF RelayType, RelayedOK

ScannedOK(s, p, c) ==
    /\ c \in RelayType /\ (c.sawTools <=> s.sawTools \/ p[1] = "tools")
    /\ (c.sawFinish <=> s.sawFinish \/ p[1] = "finish")
    /\ c.open = s.open /\ c.blocks = s.blocks /\ c.index = s.index /\ c.told = s.told
    /\ c.split = s.split /\ c.tools = s.tools /\ c.finishes = s.finishes

LEMMA ScannedIs ==
  ASSUME NEW s \in RelayType, NEW p, NEW c, c = scanToolCallsAndFinish(s, p)
  PROVE  ScannedOK(s, p, c)
<1>1. s.sawTools \in BOOLEAN /\ s.sawFinish \in BOOLEAN
  BY DEF RelayType
<1>2. PICK a : a = (s.sawTools \/ p[1] = "tools")
  OBVIOUS
<1>3. PICK b : b = (s.sawFinish \/ p[1] = "finish")
  OBVIOUS
<1>4. a \in BOOLEAN /\ b \in BOOLEAN
  BY <1>1, <1>2, <1>3, Zenon
<1>5. c = [s EXCEPT !.sawTools = a, !.sawFinish = b]
  BY <1>2, <1>3 DEF scanToolCallsAndFinish
<1> QED
  BY <1>2, <1>3, <1>4, <1>5 DEF RelayType, ScannedOK

LEMMA PlainOne ==
  ASSUME NEW s \in RelayType, PlainOK(s), NEW p, NEW whole \in BOOLEAN, NEW c, c = Plain(s, p, whole)
  PROVE  c \in RelayType /\ PlainOK(c)
<1>1. PICK r : r = Relayed(s, p)
  OBVIOUS
<1>2. /\ r \in RelayType /\ (r.tools <=> s.tools \/ p[1] = "tools")
      /\ r.finishes = s.finishes + (IF p[1] = "finish" THEN 1 ELSE 0)
      /\ r.open = s.open /\ r.blocks = s.blocks /\ r.index = s.index /\ r.told = s.told
      /\ r.split = s.split /\ r.sawTools = s.sawTools /\ r.sawFinish = s.sawFinish
  <2>1. RelayedOK(s, p, r)
    BY <1>1, RelayedIs
  <2> QED
    BY <2>1 DEF RelayedOK
<1>3. PICK q : q = scanToolCallsAndFinish(r, p)
  OBVIOUS
<1>4. /\ q \in RelayType /\ (q.sawTools <=> r.sawTools \/ p[1] = "tools")
      /\ (q.sawFinish <=> r.sawFinish \/ p[1] = "finish")
      /\ q.open = r.open /\ q.blocks = r.blocks /\ q.index = r.index /\ q.told = r.told
      /\ q.split = r.split /\ q.tools = r.tools /\ q.finishes = r.finishes
  <2>1. r \in RelayType
    BY <1>2
  <2>2. ScannedOK(r, p, q)
    BY <1>3, <2>1, ScannedIs
  <2> QED
    BY <2>2 DEF ScannedOK
<1>5. PICK n \in Nat : n = s.finishes
  BY DEF RelayType
<1>6. /\ s.open = "none" /\ s.blocks = <<>> /\ DOMAIN s.index = {} /\ s.told = "none"
      /\ s.tools /\ ~s.split => s.sawTools
      /\ s.sawFinish => n >= 1
  BY <1>5 DEF PlainOK
<1>7. r.finishes = IF p[1] = "finish" THEN n + 1 ELSE n
  BY <1>2, <1>5
<1>8. PlainOK(q)
  <2>1. q.tools /\ ~q.split => q.sawTools
    BY <1>2, <1>4, <1>6
  <2>2. q.sawFinish => q.finishes >= 1
    <3>1. n >= 1 => n + 1 >= 1
      OBVIOUS
    <3>2. CASE p[1] = "finish"
      BY <1>4, <1>7, <3>2
    <3>3. CASE p[1] # "finish"
      BY <1>2, <1>4, <1>6, <1>7, <3>3
    <3> QED
      BY <3>2, <3>3
  <2> QED
    BY <1>2, <1>4, <1>6, <2>1, <2>2 DEF PlainOK
<1>9. CASE s.wrote /\ whole
  BY <1>1, <1>3, <1>4, <1>8, <1>9 DEF Plain
<1>10. CASE s.wrote /\ ~whole
  <2>1. c = [r EXCEPT !.split = TRUE]
    BY <1>1, <1>10 DEF Plain
  <2>2. /\ c \in RelayType /\ c.split /\ c.open = r.open /\ c.blocks = r.blocks /\ c.index = r.index
        /\ c.told = r.told /\ c.sawFinish = r.sawFinish /\ c.finishes = r.finishes
    BY <1>2, <2>1 DEF RelayType
  <2>3. c.sawFinish => c.finishes >= 1
    <3>1. n >= 1 => n + 1 >= 1
      OBVIOUS
    <3>2. CASE p[1] = "finish"
      BY <1>7, <2>2, <3>2
    <3>3. CASE p[1] # "finish"
      BY <1>2, <1>6, <1>7, <2>2, <3>3
    <3> QED
      BY <3>2, <3>3
  <2> QED
    BY <1>2, <1>6, <2>2, <2>3 DEF PlainOK
<1>11. CASE ~s.wrote /\ Valid(p)
  <2>1. c = [q EXCEPT !.wrote = TRUE, !.bytes = TRUE]
    BY <1>1, <1>3, <1>11 DEF Plain
  <2>2. /\ c \in RelayType /\ c.split = q.split /\ c.open = q.open /\ c.blocks = q.blocks /\ c.index = q.index
        /\ c.told = q.told /\ c.sawFinish = q.sawFinish /\ c.finishes = q.finishes
        /\ c.tools = q.tools /\ c.sawTools = q.sawTools
    BY <1>4, <2>1 DEF RelayType
  <2> QED
    BY <1>8, <2>2 DEF PlainOK
<1>12. CASE ~s.wrote /\ ~Valid(p)
  <2>1. c = [s EXCEPT !.bytes = TRUE]
    BY <1>12 DEF Plain
  <2>2. /\ c \in RelayType /\ c.split = s.split /\ c.open = s.open /\ c.blocks = s.blocks /\ c.index = s.index
        /\ c.told = s.told /\ c.sawFinish = s.sawFinish /\ c.finishes = s.finishes
        /\ c.tools = s.tools /\ c.sawTools = s.sawTools
    BY <2>1 DEF RelayType
  <2> QED
    BY <2>2 DEF PlainOK
<1> QED
  BY <1>9, <1>10, <1>11, <1>12

LEMMA CompletedIs ==
  ASSUME NEW s \in RelayType, PlainOK(s), NEW c, c = [Completed(s) EXCEPT !.wrote = TRUE]
  PROVE  /\ c \in RelayType /\ PlainOK(c)
         /\ way = "openai" /\ c.tools /\ ~c.split => c.finishes >= 1
<1>1. PICK n \in Nat : n = s.finishes
  BY DEF RelayType
<1>2. /\ s.open = "none" /\ s.blocks = <<>> /\ DOMAIN s.index = {} /\ s.told = "none"
      /\ s.tools /\ ~s.split => s.sawTools
      /\ s.sawFinish => n >= 1
  BY <1>1 DEF PlainOK
<1>3. PICK m : m = IF way = "openai" /\ s.sawTools /\ ~s.sawFinish THEN n + 1 ELSE n
  OBVIOUS
<1>4. m \in Nat /\ (s.sawFinish => m >= 1) /\ (way = "openai" /\ s.sawTools => m >= 1)
  <2>1. n + 1 \in Nat /\ n + 1 >= 1
    OBVIOUS
  <2>2. CASE way = "openai" /\ s.sawTools /\ ~s.sawFinish
    BY <1>3, <2>1, <2>2
  <2>3. CASE ~(way = "openai" /\ s.sawTools /\ ~s.sawFinish)
    BY <1>2, <1>3, <2>3
  <2> QED
    BY <2>2, <2>3
<1>5. PICK d : d = Completed(s)
  OBVIOUS
<1>6. d = [s EXCEPT !.finishes = m]
  <2>1. CASE way = "openai" /\ s.sawTools /\ ~s.sawFinish
    BY <1>1, <1>3, <1>5, <2>1 DEF Completed
  <2>2. CASE ~(way = "openai" /\ s.sawTools /\ ~s.sawFinish)
    BY <1>1, <1>3, <1>5, <2>2 DEF Completed, RelayType
  <2> QED
    BY <2>1, <2>2
<1>7. /\ d \in RelayType /\ d.finishes = m /\ d.split = s.split /\ d.open = s.open /\ d.blocks = s.blocks
      /\ d.index = s.index /\ d.told = s.told /\ d.sawFinish = s.sawFinish
      /\ d.tools = s.tools /\ d.sawTools = s.sawTools
  BY <1>4, <1>6 DEF RelayType
<1>8. c = [d EXCEPT !.wrote = TRUE]
  BY <1>5
<1>9. /\ c \in RelayType /\ c.finishes = d.finishes /\ c.split = d.split /\ c.open = d.open /\ c.blocks = d.blocks
      /\ c.index = d.index /\ c.told = d.told /\ c.sawFinish = d.sawFinish
      /\ c.tools = d.tools /\ c.sawTools = d.sawTools
  BY <1>7, <1>8 DEF RelayType
<1> QED
  BY <1>2, <1>4, <1>7, <1>9 DEF PlainOK

--------------------------------------------------------------------------
(* The invariant holds at first and is kept *)

LEMMA StreamInitial == StreamInit => StreamInv
<1>1. SUFFICES ASSUME StreamInit PROVE StreamInv
  OBVIOUS
<1>2. PICK x : x = [t \in {} |-> 1]
  OBVIOUS
<1>3. x \in Index /\ DOMAIN x = {}
  <2>1. x \in [{} -> Nat] /\ {} \in SUBSET Tool
    BY <1>2
  <2> QED
    BY <2>1 DEF Index
<1>4. <<>> \in Seq(Block) /\ Len(<<>>) = 0
  BY EmptySeq
<1>a. relay = [wrote |-> FALSE, bytes |-> FALSE, started |-> FALSE, open |-> "none", blocks |-> <<>>,
               index |-> x, reason |-> "none", told |-> "none", ends |-> 0, terminated |-> FALSE,
               tools |-> FALSE, finishes |-> 0, sawTools |-> FALSE, sawFinish |-> FALSE,
               split |-> FALSE, eager |-> {}]
  BY <1>1, <1>2 DEF StreamInit
<1>5. relay \in RelayType
  BY <1>a, <1>3, <1>4 DEF RelayType
<1>6. /\ relay.open = "none" /\ relay.blocks = <<>> /\ DOMAIN relay.index = {} /\ relay.told = "none"
      /\ relay.tools = FALSE /\ relay.split = FALSE /\ relay.sawFinish = FALSE /\ relay.wrote = FALSE
      /\ relay.started = FALSE /\ relay.terminated = FALSE /\ relay.ends = 0
  BY <1>a, <1>3
<1>7. \A i \in 1 .. Len(relay.blocks) : FALSE
  BY <1>4, <1>6
<1>8. BlocksOK(relay)
  BY <1>6, <1>7 DEF BlocksOK
<1>9. AnthropicOK(relay, outcome = "streaming")
  <2>a. relay.ends = 0
    BY <1>6
  <2>b. relay.ends <= 1 /\ relay.ends # 1
    BY <2>a
  <2>c. relay.wrote = relay.started
    BY <1>6, Zenon
  <2>1. relay.wrote = relay.started /\ relay.ends <= 1 /\ relay.ends # 1
    BY <2>b, <2>c
  <2>2. relay.told # "tools" /\ relay.told = "none" /\ ~relay.terminated /\ relay.blocks = <<>>
    BY <1>6
  <2> QED
    BY <1>8, <2>1, <2>2 DEF AnthropicOK
<1>10. ChatOK(relay)
  BY <1>6, <1>7 DEF ChatOK, ChatBlocks
<1>11. PlainOK(relay)
  BY <1>6 DEF PlainOK
<1>12. way \in Way /\ body = "flows" /\ outcome = "streaming" /\ parts \in 0 .. MaxParts
  BY <1>1, StreamAssumption DEF StreamInit
<1> QED
  BY <1>5, <1>9, <1>10, <1>11, <1>12 DEF StreamInv

LEMMA PartsGrow == ASSUME parts \in 0 .. MaxParts, NEW p, Says(p) PROVE parts' \in 0 .. MaxParts
BY StreamAssumption DEF Says

LEMMA StreamStep == StreamInv /\ [StreamNext]_streamVars => StreamInv'
<1>1. SUFFICES ASSUME StreamInv, [StreamNext]_streamVars PROVE StreamInv'
  OBVIOUS
<1>2. relay \in RelayType /\ parts \in 0 .. MaxParts /\ way \in Way
  BY <1>1 DEF StreamInv
<1>3. CASE UNCHANGED streamVars
  BY <1>1, <1>3 DEF streamVars, StreamInv, AnthropicOK, ChatOK, ChatBlocks, PlainOK, BlocksOK
<1>4. ASSUME NEW p \in IF way = "toAnthropic" THEN ChatParts ELSE AnthropicParts, TranslatedPart(p)
      PROVE  StreamInv'
  <2>1. /\ way \in Translating /\ Says(p) /\ way' = way /\ body' = body /\ outcome' = outcome
        /\ outcome = "streaming" /\ (relay.terminated => p[1] = "done") /\ parts' \in 0 .. MaxParts
    BY <1>2, <1>4, PartsGrow DEF TranslatedPart, Says
  <2>2. PICK s : s = relay
    OBVIOUS
  <2>3. PICK c : c = relay'
    OBVIOUS
  <2>4. CASE way = "toAnthropic"
    <3>1. p \in ChatParts /\ c = ChatToAnthropic(s, p)
      BY <1>4, <2>2, <2>3, <2>4 DEF TranslatedPart
    <3>2. s \in RelayType /\ AnthropicOK(s, TRUE) /\ (s.terminated => p[1] = "done")
      <4>1. AnthropicOK(relay, outcome = "streaming") /\ (outcome = "streaming") = TRUE
        BY <1>1, <2>1, <2>4 DEF StreamInv
      <4> QED
        BY <1>2, <2>1, <2>2, <4>1 DEF AnthropicOK
    <3>3. c \in RelayType /\ AnthropicOK(c, TRUE)
      BY <3>1, <3>2, AnthropicPart
    <3>4. AnthropicOK(relay, outcome = "streaming")'
      BY <2>1, <2>3, <3>3 DEF AnthropicOK, BlocksOK
    <3>5. relay' \in RelayType
      BY <2>3, <3>3
    <3> QED
      BY <1>1, <2>1, <2>4, <3>4, <3>5 DEF StreamInv, Translating
  <2>5. CASE way = "toChat"
    <3>1. p \in AnthropicParts /\ c = AnthropicToChat(s, p)
      BY <1>4, <2>2, <2>3, <2>5 DEF TranslatedPart
    <3>2. s \in RelayType /\ ChatOK(s) /\ ~s.terminated
      <4>1. p[1] # "done"
        BY <3>1 DEF AnthropicParts
      <4>2. ChatOK(relay)
        BY <1>1, <2>5 DEF StreamInv
      <4> QED
        BY <1>2, <2>1, <2>2, <4>1, <4>2
    <3>3. c \in RelayType /\ ChatOK(c)
      BY <3>1, <3>2, ChatPart
    <3>4. ChatOK(relay)'
      BY <2>3, <3>3 DEF ChatOK, ChatBlocks
    <3>5. relay' \in RelayType
      BY <2>3, <3>3
    <3> QED
      BY <1>1, <2>1, <2>5, <3>4, <3>5 DEF StreamInv, Translating
  <2> QED
    BY <2>1, <2>4, <2>5 DEF Translating
<1>5. ASSUME NEW p \in PlainParts, PlainPart(p) PROVE StreamInv'
  <2>1. /\ way \notin Translating /\ way' = way /\ body' = body /\ outcome' = outcome
        /\ outcome = "streaming" /\ parts' \in 0 .. MaxParts
    BY <1>2, <1>5, PartsGrow DEF PlainPart, Says
  <2>2. PICK whole \in BOOLEAN : relay' = Plain(relay, p, whole)
    BY <1>5 DEF PlainPart
  <2>3. PICK s : s = relay
    OBVIOUS
  <2>4. PICK c : c = relay'
    OBVIOUS
  <2>5. s \in RelayType /\ PlainOK(s) /\ c = Plain(s, p, whole)
    <3>1. PlainOK(relay)
      BY <1>1, <2>1 DEF StreamInv
    <3> QED
      BY <1>2, <2>2, <2>3, <2>4, <3>1
  <2>6. c \in RelayType /\ PlainOK(c)
    BY <2>5, PlainOne
  <2>7. relay' \in RelayType /\ PlainOK(relay)'
    BY <2>4, <2>6 DEF PlainOK
  <2> QED
    BY <1>1, <2>1, <2>7 DEF StreamInv, Translating
<1>6. ASSUME NEW p \in PlainParts, ErrorFirst(p) PROVE StreamInv'
  <2>1. /\ way = "openai" /\ ~relay.wrote /\ way' = way /\ body' = body /\ relay' = relay /\ outcome' = "failed"
        /\ parts' \in 0 .. MaxParts
    BY <1>2, <1>6, PartsGrow DEF ErrorFirst
  <2>2. PlainOK(relay)'
    BY <1>1, <2>1 DEF StreamInv, Translating, PlainOK
  <2> QED
    BY <1>1, <2>1, <2>2 DEF StreamInv, Translating
<1>7. ASSUME NEW how \in {"ended", "broken"}, BodyEnds(how) PROVE StreamInv'
  BY <1>1, <1>7 DEF BodyEnds, StreamInv, AnthropicOK, ChatOK, ChatBlocks, PlainOK, BlocksOK
<1>8. CASE TranslatedEnds
  <2>1. /\ outcome = "streaming" /\ way \in Translating /\ relay' = Finalize(relay)
        /\ outcome' = (IF relay'.wrote THEN "served" ELSE "failed")
        /\ way' = way /\ body' = body /\ parts' = parts
    BY <1>8 DEF TranslatedEnds
  <2>2. PICK s : s = relay
    OBVIOUS
  <2>3. PICK c : c = relay'
    OBVIOUS
  <2>4. s \in RelayType /\ c = Finalize(s)
    BY <1>2, <2>1, <2>2, <2>3
  <2>5. CASE way = "toAnthropic"
    <3>1. AnthropicOK(s, TRUE)
      <4>1. AnthropicOK(relay, outcome = "streaming") /\ (outcome = "streaming") = TRUE
        BY <1>1, <2>1, <2>5 DEF StreamInv
      <4> QED
        BY <2>2, <4>1 DEF AnthropicOK
    <3>2. c \in RelayType /\ AnthropicOK(c, FALSE) /\ (c.wrote => c.ends = 1)
      <4>1. CASE s.terminated
        <5>1. c = s
          BY <2>4, <4>1 DEF Finalize
        <5> QED
          BY <2>4, <3>1, <4>1, <5>1 DEF AnthropicOK
      <4>2. CASE ~s.terminated
        <5>1. c = FinalizeAnthropic(s)
          BY <2>4, <2>5, <4>2 DEF Finalize
        <5>2. /\ c \in RelayType /\ BlocksOK(c) /\ c.wrote = s.wrote /\ c.started = s.started
              /\ c.terminated = s.terminated /\ c.reason = s.reason
              /\ c.ends <= 1 /\ (c.ends = 1 => c.open = "none") /\ (c.started => c.ends = 1)
              /\ c.told # "none" => c.ends = 1
              /\ c.told = "tools" => c.reason = "tools"
              /\ ~c.started => c.blocks = <<>>
          BY <2>4, <3>1, <5>1, FinalizeIs
        <5>3. s.wrote = s.started
          BY <3>1 DEF AnthropicOK
        <5> QED
          BY <4>2, <5>2, <5>3 DEF AnthropicOK
      <4> QED
        BY <4>1, <4>2
    <3>3. relay' \in RelayType /\ (relay'.wrote => relay'.ends = 1)
      BY <2>3, <3>2
    <3>4. AnthropicOK(relay, outcome = "streaming")'
      BY <2>1, <2>3, <3>2 DEF AnthropicOK, BlocksOK
    <3> QED
      BY <1>1, <2>1, <2>5, <3>3, <3>4 DEF StreamInv, Translating
  <2>6. CASE way = "toChat"
    <3>1. ChatOK(s)
      BY <1>1, <2>2, <2>6 DEF StreamInv
    <3>2. c \in RelayType /\ ChatOK(c) /\ c.terminated /\ c.wrote
      <4>1. CASE s.terminated
        <5>1. c = s
          BY <2>4, <4>1 DEF Finalize
        <5> QED
          BY <2>4, <3>1, <4>1, <5>1 DEF ChatOK
      <4>2. CASE ~s.terminated /\ s.started
        <5>1. PICK f : f = FinishChat(s)
          OBVIOUS
        <5>2. f \in RelayType /\ ChatBlocks(f) /\ f.ends = 1 /\ (f.told = "tools" => f.reason = "tools")
          BY <2>4, <3>1, <4>2, <5>1, ChatFinish
        <5>3. c = [f EXCEPT !.terminated = TRUE, !.wrote = TRUE]
          BY <2>4, <2>6, <4>2, <5>1 DEF Finalize
        <5> QED
          BY <5>2, <5>3, ChatEnd
      <4>3. CASE ~s.terminated /\ ~s.started
        <5>1. c = [s EXCEPT !.terminated = TRUE, !.wrote = TRUE]
          BY <2>4, <2>6, <4>3 DEF Finalize
        <5>2. ChatBlocks(s) /\ (s.told = "tools" => s.reason = "tools") /\ (s.started => s.ends = 1)
          BY <3>1, <4>3 DEF ChatOK
        <5> QED
          BY <2>4, <5>1, <5>2, ChatEnd
      <4> QED
        BY <4>1, <4>2, <4>3
    <3>3. relay' \in RelayType /\ relay'.wrote /\ relay'.terminated
      BY <2>3, <3>2
    <3>4. ChatOK(relay)'
      BY <2>3, <3>2 DEF ChatOK, ChatBlocks
    <3> QED
      BY <1>1, <2>1, <2>6, <3>3, <3>4 DEF StreamInv, Translating
  <2> QED
    BY <2>1, <2>5, <2>6 DEF Translating
<1>9. CASE PlainEnds
  <2>1. /\ outcome = "streaming" /\ way \notin Translating /\ way' = way /\ body' = body /\ parts' = parts
    BY <1>9 DEF PlainEnds
  <2>2. PICK s : s = relay
    OBVIOUS
  <2>3. PICK c : c = relay'
    OBVIOUS
  <2>4. s \in RelayType /\ PlainOK(s)
    BY <1>1, <1>2, <2>1, <2>2 DEF StreamInv
  <2>5. CASE relay.wrote \/ (relay.bytes /\ body = "ended")
    <3>1. c = [Completed(s) EXCEPT !.wrote = TRUE] /\ outcome' = "served"
      BY <1>9, <2>2, <2>3, <2>5 DEF PlainEnds
    <3>2. /\ c \in RelayType /\ PlainOK(c)
          /\ way = "openai" /\ c.tools /\ ~c.split => c.finishes >= 1
      BY <2>4, <3>1, CompletedIs
    <3>3. relay' \in RelayType /\ PlainOK(relay)'
      BY <2>3, <3>2 DEF PlainOK
    <3>4. way = "openai" /\ relay'.tools /\ ~relay'.split => relay'.finishes >= 1
      BY <2>3, <3>2
    <3> QED
      BY <1>1, <2>1, <3>1, <3>3, <3>4 DEF StreamInv, Translating
  <2>6. CASE ~(relay.wrote \/ (relay.bytes /\ body = "ended"))
    <3>1. relay' = relay /\ outcome' = "failed" /\ ~relay.wrote
      BY <1>9, <2>6 DEF PlainEnds
    <3>2. PlainOK(relay)'
      BY <2>2, <2>4, <3>1 DEF PlainOK
    <3> QED
      BY <1>1, <2>1, <3>1, <3>2 DEF StreamInv, Translating
  <2> QED
    BY <2>5, <2>6
<1> QED
  BY <1>1, <1>3, <1>4, <1>5, <1>6, <1>7, <1>8, <1>9 DEF StreamNext

\* What the invariant means for the clients.
LEMMA StreamGoal == StreamInv => StreamsSound /\ StreamTypeOK
<1>1. SUFFICES ASSUME StreamInv PROVE StreamsSound /\ StreamTypeOK
  OBVIOUS
<1>2. PICK s \in RelayType : s = relay
  BY <1>1 DEF StreamInv
<1>3. AnthropicWellFormed
  <2>1. SUFFICES ASSUME way = "toAnthropic" PROVE AnthropicWellFormed
    BY DEF AnthropicWellFormed
  <2>2. AnthropicOK(relay, outcome = "streaming") /\ BlocksOK(relay) /\ (outcome = "served" => relay.ends = 1)
    BY <1>1, <2>1 DEF StreamInv, AnthropicOK
  <2>3. relay.ends <= 1 /\ (relay.ends = 1 => relay.open = "none")
    BY <2>2 DEF AnthropicOK
  <2>4. /\ \A i \in 1 .. Len(relay.blocks) : relay.blocks[i].open => i = Len(relay.blocks) /\ relay.open # "none"
        /\ \A i \in 1 .. Len(relay.blocks) : /\ relay.blocks[i].got \subseteq {Own(relay.blocks[i])} \cup ArgsOf(relay.eager)
                                             /\ relay.blocks[i].late \subseteq ArgsOf(Tool)
    BY <2>2 DEF BlocksOK
  <2>5. {"args"} \X relay.eager = ArgsOf(relay.eager) /\ {"args"} \X Tool = ArgsOf(Tool)
    BY <1>2, DeltaAre DEF RelayType
  <2>6. ASSUME NEW i \in 1 .. Len(relay.blocks)
        PROVE  LET b == relay.blocks[i]
                   own == IF b.kind = "call" THEN <<"args", b.tool>> ELSE <<b.kind>> IN
               /\ b.open => i = Len(relay.blocks)
               /\ b.got \subseteq {own} \cup ({"args"} \X relay.eager)
               /\ b.late \subseteq {"args"} \X Tool
    BY <2>4, <2>5, <2>6 DEF Own, Args
  <2> QED
    BY <2>2, <2>3, <2>4, <2>6 DEF AnthropicWellFormed
<1>4. ChatWellFormed
  <2>1. SUFFICES ASSUME way = "toChat" PROVE ChatWellFormed
    BY DEF ChatWellFormed
  <2>2. ChatOK(relay) /\ (outcome = "served" => relay.terminated)
    BY <1>1, <2>1 DEF StreamInv
  <2> QED
    BY <2>2 DEF ChatWellFormed, ChatOK, ChatBlocks, Args
<1>5. relay.told = "tools" => relay.reason = "tools"
  BY <1>1 DEF StreamInv, AnthropicOK, ChatOK, PlainOK, Translating
<1>6. outcome = "failed" => ~relay.wrote /\ relay.blocks = <<>>
  BY <1>1 DEF StreamInv, AnthropicOK, ChatOK, PlainOK, Translating
<1>7. StreamsSound
  BY <1>1, <1>3, <1>4, <1>5, <1>6
     DEF StreamsSound, CallsNeedReason, CallsCompleted, FailedUnsent, StreamInv
<1>8. StreamTypeOK
  <2>1. \A i \in 1 .. Len(relay.blocks) : relay.blocks[i] \in Block
    BY <1>2, BlocksAre
  <2>2. DOMAIN relay.index \subseteq Tool
    BY <1>2 DEF RelayType, Index
  <2>3. \A t \in DOMAIN relay.index : relay.index[t] \in 1 .. Len(relay.blocks)
    BY <1>1 DEF StreamInv, AnthropicOK, BlocksOK, ChatOK, ChatBlocks, PlainOK, Translating
  <2>4. relay.open # "none" => relay.blocks # <<>> /\ relay.blocks[Len(relay.blocks)].open
    <3>1. SUFFICES ASSUME relay.open # "none"
                   PROVE  relay.blocks # <<>> /\ relay.blocks[Len(relay.blocks)].open
      OBVIOUS
    <3>2. Len(relay.blocks) # 0 /\ relay.blocks[Len(relay.blocks)].open
      BY <1>1, <3>1 DEF StreamInv, AnthropicOK, BlocksOK, ChatOK, ChatBlocks, PlainOK, Translating
    <3> QED
      BY <3>2, EmptySeq
  <2> QED
    BY <1>1, <2>1, <2>2, <2>3, <2>4 DEF StreamTypeOK, StreamInv
<1> QED
  BY <1>7, <1>8

\* For any tools and any number of parts in any order, wherever the upstream breaks off: the
\* events that a translated or copied stream sends are well formed for its client, calls are
\* complete and run only for a reason that the upstream gave, and a stream of which something
\* was sent is not tried elsewhere (ChatToAnthropicStream, AnthropicToChatStream, flushAndStream).
THEOREM StreamsSoundCorrect == Spec => []StreamsSound
<1>1. ServicesInit => StreamInv
  BY StreamInitial DEF ServicesInit
<1>2. StreamInv /\ [ServicesNext]_vars => StreamInv'
  BY StreamStep, StreamPart
<1>3. StreamInv => StreamsSound
  BY StreamGoal
<1> QED
  BY <1>1, <1>2, <1>3, PTL DEF Spec

--------------------------------------------------------------------------
(* The types of all parts *)

\* The invariants of the parts together: each part keeps its own while the others move.
ServicesInv ==
    /\ focus \in Part
    /\ LogInv /\ JoinInv /\ KeysMade /\ TaskInv /\ CacheInv /\ RateInv /\ FallbackSeen /\ CronInv
    /\ GroupInv /\ AliasInv /\ RouterInv /\ BackupInv /\ StreamInv
    /\ MigrationInv /\ KeysLayered /\ ToolOrdered

\* For every value of the constants, every part keeps the types of its state: what is counted
\* stays in its range, keys in use were made, at most one parent is a child's master, cooled
\* keys were seen, and a run of the migration puts at most one more secret around a key.
THEOREM ServicesTypeCorrect == Spec => []ServicesTypeOK
<1>1. ServicesInit => ServicesInv
  <2>1. ServicesInit => LogInv /\ JoinInv /\ KeysMade /\ TaskInv /\ CacheInv /\ focus \in Part
    BY LogInitial, JoinInitial, KeysMadeInitial, TaskInitial, CacheInitial DEF ServicesInit
  <2>2. ServicesInit => RateInv /\ FallbackSeen /\ CronInv /\ GroupInv /\ AliasInv
    BY RateInitial, FallbackInitial, CronInitial, GroupInitial, AliasInitial DEF ServicesInit
  <2>3. ServicesInit => RouterInv /\ BackupInv /\ StreamInv
    BY RouterInitial, BackupInitial, StreamInitial DEF ServicesInit
  <2>4. ServicesInit => MigrationInv /\ KeysLayered /\ ToolOrdered
    BY MigrationInitial, MigrationTypesInitial DEF ServicesInit
  <2>. QED  BY <2>1, <2>2, <2>3, <2>4 DEF ServicesInv
<1>2. ServicesInv /\ [ServicesNext]_vars => ServicesInv'
  <2>. SUFFICES ASSUME ServicesInv, [ServicesNext]_vars PROVE ServicesInv'
    OBVIOUS
  <2>0. focus' = focus
    BY DEF vars, ServicesNext, LogMove, JoinMove, TaskMove, CacheMove, RateMove, CronMove,
           GroupMove, AliasMove, RouterMove, BackupMove, StreamMove, MigrationMove
  <2>1. LogInv' /\ TaskInv' /\ CacheInv' /\ CronInv'
    BY LogStep, LogPart, TaskStep, TaskPart, CacheStep, CachePart, CronStep, CronPart DEF ServicesInv
  <2>2. JoinInv' /\ KeysMade'
    BY JoinStep, KeysMadeStep, JoinPart DEF ServicesInv
  <2>3. RateInv' /\ FallbackSeen'
    BY RateStep, FallbackStep, RatePart DEF ServicesInv
  <2>4. GroupInv' /\ AliasInv' /\ BackupInv'
    BY GroupStep, GroupPart, AliasStep, AliasPart, BackupStep, BackupPart DEF ServicesInv
  <2>5. RouterInv' /\ StreamInv'
    BY RouterStep, RouterPart, StreamStep, StreamPart DEF ServicesInv
  <2>6. MigrationInv' /\ KeysLayered' /\ ToolOrdered'
    BY MigrationStep, KeysLayeredStep, ToolOrderedStep, MigrationPart DEF ServicesInv
  <2>. QED  BY <2>0, <2>1, <2>2, <2>3, <2>4, <2>5, <2>6 DEF ServicesInv
<1>3. ServicesInv => ServicesTypeOK
  <2>1. ServicesInv => LogTypeOK /\ JoinTypeOK /\ TaskTypeOK /\ CacheTypeOK /\ RateTypeOK /\ CronTypeOK
    BY ServiceTypes, JoinTypes, CacheTypes, RateTypes DEF ServicesInv
  <2>2. ServicesInv => GroupTypeOK /\ AliasTypeOK /\ BackupTypeOK /\ MigrationTypeOK
    BY GroupTypes, AliasGoal, BackupGoal, MigrationTypes DEF ServicesInv
  <2>3. ServicesInv => RouterTypeOK /\ StreamTypeOK
    BY RouterGoal, StreamGoal DEF ServicesInv
  <2>. QED  BY <2>1, <2>2, <2>3 DEF ServicesInv, ServicesTypeOK, Part
<1>. QED  BY <1>1, <1>2, <1>3, PTL DEF Spec
=============================================================================
