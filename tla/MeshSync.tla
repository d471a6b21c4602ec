------------------------------ MODULE MeshSync ------------------------------
(* Nodes that synchronise their configuration (services/sync_service.go,
   sync_snapshot.go, sync_peer_manager.go, handler/sync_handler.go).

   Each node has a database of groups, keys and aliases with local ids. A master
   pushes what changed since a watermark and merges what it is pushed, record by
   record (last writer wins) and field by field. A follower pulls snapshots of its
   master and replaces its rows by them. Frames and pulls may be lost, repeated and
   overtake one another; users edit every node. *)
EXTENDS FieldMerge, Integers, FiniteSets, FiniteSetsExt, Folds

CONSTANTS Node,
          Deployments, \* the possible sets of nodes whose environment says master (IS_SLAVE unset)
          Name,        \* names of groups
          Local,       \* fields that belong to the machine (proxy_url)
          None,
          Applied,     \* what is left of a pull of the loop whose answer was applied
          Stale,       \* a peer not reached for longer does not hold the watermark back
          MaxTime, MaxActs, MaxFrames   \* bounds; MaxActs: of users' requests and reconnections

ASSUME MeshAssumption == /\ Deployments \subseteq SUBSET Node
                         /\ Name # {} /\ Local \subseteq Field
                         /\ Stale \in Nat /\ MaxTime \in Nat \ {0} /\ MaxActs \in Nat /\ MaxFrames \in Nat

VARIABLES env,      \* the deployment
          groups,   \* per node: rows of groups, deleted ones included
          keys,     \* per node: rows of api_keys
          aliases,  \* per node: rows of model_aliases
          slave,    \* per node: the setting node_is_slave, or "unset"
          parent,   \* per node: the peers marked is_master
          synced,   \* per node and peer: last_synced_at, 0 for null
          edit,     \* per node: the UpdateGroup that has read its group, or None
          net,      \* frames under way
          pull,     \* per node: the answers its two pulls wait for, or None
          now, acts

vars == <<env, groups, keys, aliases, slave, parent, synced, edit, net, pull, now, acts>>
data == <<groups, keys, aliases>>
roles == <<env, slave, parent>>

Peers(n) == Node \ {n}
Waiting(n, s) == pull[n][s] \notin {None, Applied}
Slots == {"loop", "manual"}   \* pullLoop and PullPeer
Blank == [f \in Field |-> [val |-> Absent, ver |-> 0]]
Versions == 0 .. MaxTime

--------------------------------------------------------------------------
(* Rows. deleted_at is 0 while a row lives. *)

Times == 1 .. MaxTime
Ids == Nat \ {0}
GroupRow == [id : Ids, name : Name, upd : Times, del : 0 .. MaxTime, by : Node,
             cfg : [Field -> [val : Value \cup {Absent}, ver : Versions]]]
ChildRow == [id : Ids, gid : Ids, upd : Times, del : 0 .. MaxTime]

Live(T) == {r \in T : r.del = 0}
Dead(T) == T \ Live(T)
Eff(r) == IF r.del > r.upd THEN r.del ELSE r.upd
NextId(T) == Cardinality(T) + 1
Oldest(T) == CHOOSE r \in T : \A s \in T : r.id <= s.id
Newest(T) == CHOOSE r \in T : \A s \in T : s.id <= r.id
InTurn(Op(_, _), st, T) ==   \* Op for each row, in the order of their ids
    MapThenFoldSet(LAMBDA r, done : Op(done, r), st, LAMBDA r : r, LAMBDA S : Newest(S), T)
Put(T, r) == {s \in T : s.id # r.id} \cup {r}
Kill(T, S, t) == {IF r \in S THEN [r EXCEPT !.del = t] ELSE r : r \in T}

UniqueIn(T, c) == \A r, q \in T : r[c] = q[c] => r = q
IsMaster(n) == IF slave[n] = "unset" THEN n \in env ELSE slave[n] = "false"

\* Rows are typed, and the unique indexes on living rows hold: no write was refused by them.
TypeOK ==
    /\ env \in Deployments
    /\ \A n \in Node : /\ \A r \in groups[n] : r \in GroupRow
                      /\ \A r \in keys[n] \cup aliases[n] : r \in ChildRow
                      /\ UniqueIn(Live(groups[n]), "name")
                      /\ UniqueIn(Live(keys[n]), "gid")
                      /\ UniqueIn(Live(aliases[n]), "gid")
    /\ slave \in [Node -> {"unset", "true", "false"}]
    /\ parent \in [Node -> SUBSET Node]
    /\ synced \in [Node -> [Node -> 0 .. MaxTime]]
    /\ \A n \in Node : edit[n] # None => edit[n] \in GroupRow
    /\ \A m \in net : m.to \in Node /\ m.via \in {"dialled", "held"}
    /\ \A n \in Node, s \in Slots : Waiting(n, s) => pull[n][s].from \in Peers(n)
    /\ now \in Times /\ acts \in 0 .. MaxActs

\* Nodes start as a first synchronisation of a group with a child of each kind leaves them,
\* the alias deleted and added again.
FirstGroup == [id |-> 1, name |-> CHOOSE g \in Name : TRUE, upd |-> 1, del |-> 0,
               by |-> CHOOSE n \in Node : TRUE, cfg |-> Blank]
FirstChild == [id |-> 1, gid |-> 1, upd |-> 1, del |-> 0]

Init ==
    /\ env \in Deployments
    /\ groups = [n \in Node |-> {FirstGroup}]
    /\ keys = [n \in Node |-> {FirstChild}]
    /\ aliases = [n \in Node |-> {[FirstChild EXCEPT !.del = 1], [FirstChild EXCEPT !.id = 2]}]
    /\ slave = [n \in Node |-> "unset"]
    /\ parent = [n \in Node |-> IF n \in env THEN {} ELSE env]
    /\ synced = [n \in Node |-> [p \in Node |-> 0]]
    /\ edit = [n \in Node |-> None]
    /\ net = {}
    /\ pull = [n \in Node |-> [s \in Slots |-> None]]
    /\ now = 1 /\ acts = 0

Tick == now < MaxTime /\ now' = now + 1
        /\ UNCHANGED <<data, roles, synced, edit, net, pull, acts>>

--------------------------------------------------------------------------
(* Edits of users. *)

Act == acts < MaxActs /\ acts' = acts + 1

\* A node's edit is later than what the node holds: clocks are fine enough that ties occur
\* between nodes only. The last instant is kept for what follows the edits.
Edit(n) == /\ Act
           /\ now < MaxTime
           /\ \A r \in groups[n] \cup keys[n] \cup aliases[n] : Eff(r) < now
EditsOnly(t) == UNCHANGED <<roles, synced, net, pull, now, t>>

\* CreateGroup: names of live groups are unique; no field gets a version.
CreateGroup(n, g, f, v) ==
    /\ Edit(n)
    /\ \A r \in Live(groups[n]) : r.name # g
    /\ groups' = [groups EXCEPT ![n] = @ \cup
         {[id |-> NextId(@), name |-> g, upd |-> now, del |-> 0, by |-> n,
           cfg |-> [Blank EXCEPT ![f].val = v]]}]
    /\ EditsOnly(<<keys, aliases, edit>>)

\* UpdateGroup reads the group, then saves what it read with its changes.
UpdateGroup(n, r, f, v) ==
    /\ Edit(n)
    /\ edit[n] = None
    /\ edit' = [edit EXCEPT ![n] = [r EXCEPT !.cfg = Stamp(r.cfg, f, v, now), !.by = n]]
    /\ EditsOnly(data)

\* Save updates the row by its id or, when it has no live row, inserts or replaces it:
\* a group deleted meanwhile is back, unless its name is taken.
SaveGroup(n) ==
    /\ edit[n] # None
    /\ edit' = [edit EXCEPT ![n] = None]
    /\ groups' = [groups EXCEPT ![n] =
         IF \E r \in Live(@) : r.name = edit[n].name /\ r.id # edit[n].id THEN @
         ELSE Put(@, [edit[n] EXCEPT !.upd = now])]
    /\ UNCHANGED <<keys, aliases, roles, synced, net, pull, now, acts>>

DeleteGroup(n, r) ==
    /\ Edit(n)
    /\ groups' = [groups EXCEPT ![n] = Kill(@, {r}, now)]
    /\ keys' = [keys EXCEPT ![n] = Kill(@, {k \in Live(@) : k.gid = r.id}, now)]
    /\ EditsOnly(<<aliases, edit>>)

\* The same for keys (one credential per group) and aliases (one candidate per group).
AddTo(T, gid) == T \cup {[id |-> NextId(T), gid |-> gid, upd |-> now, del |-> 0]}
Touch(T, r) == Put(T, [r EXCEPT !.upd = now])

EditKey(n) ==
    /\ Edit(n)
    /\ \/ \E g \in Live(groups[n]) :
             /\ \A k \in Live(keys[n]) : k.gid # g.id
             /\ keys' = [keys EXCEPT ![n] = AddTo(@, g.id)]
       \/ \E k \in Live(keys[n]) :
             keys' = [keys EXCEPT ![n] = Touch(@, k)]
       \/ \E k \in Live(keys[n]) :
             keys' = [keys EXCEPT ![n] = Kill(@, {k}, now)]
    /\ EditsOnly(<<groups, aliases, edit>>)

EditAlias(n) ==
    /\ Edit(n)
    /\ \/ \E g \in Live(groups[n]) :
             /\ \A a \in Live(aliases[n]) : a.gid # g.id
             /\ aliases' = [aliases EXCEPT ![n] = AddTo(@, g.id)]
       \/ \E a \in Live(aliases[n]) :
             aliases' = [aliases EXCEPT ![n] = Touch(@, a)]
       \/ \E a \in Live(aliases[n]) :
             aliases' = [aliases EXCEPT ![n] = Kill(@, {a}, now)]
    /\ EditsOnly(<<groups, keys, edit>>)

\* SetRole: a node made master mirrors nobody.
SetRole(n, v) ==
    /\ Act
    /\ slave[n] # v
    /\ slave' = [slave EXCEPT ![n] = v]
    /\ parent' = IF v = "false" THEN [parent EXCEPT ![n] = {}] ELSE parent
    /\ UNCHANGED <<env, data, synced, edit, net, pull, now>>

\* SetPeerMaster: toggles; a node that has a master is a follower.
SetPeerMaster(n, p) ==
    /\ Act
    /\ IF p \in parent[n]
       THEN parent' = [parent EXCEPT ![n] = @ \ {p}] /\ UNCHANGED slave
       ELSE /\ parent' = [parent EXCEPT ![n] = {p}]
            /\ slave' = [slave EXCEPT ![n] = "true"]
    /\ UNCHANGED <<env, data, synced, edit, net, pull, now>>

--------------------------------------------------------------------------
(* ProcessPayload: the merge of a payload, in one transaction. The accumulator st
   holds the tables, the map from the sender's group ids to ours, and whether the
   transaction still stands. *)

\* A group is matched by name, a live row before deleted ones, among them the newest.
MergeGroup(st, in) ==
    LET same == {r \in st.groups : r.name = in.name}
        e == IF Live(same) # {} THEN Newest(Live(same)) ELSE Newest(same)
        wins == Eff(in) > Eff(e)
        base == [(IF wins THEN in ELSE e) EXCEPT
                   !.id = e.id,
                   !.cfg = KeepLocal(MergeColumn(e.cfg, in.cfg, wins), e.cfg, Local)]
    IN  IF same = {}
        THEN LET id == NextId(st.groups)
             IN  [st EXCEPT !.groups = @ \cup {[in EXCEPT !.id = id, !.cfg = KeepLocal(in.cfg, Blank, Local)]},
                            !.map = [i \in DOMAIN @ \cup {in.id} |-> IF i = in.id THEN id ELSE @[i]]]
        ELSE [st EXCEPT
               !.groups = IF wins \/ base.cfg # e.cfg THEN Put(@, base) ELSE @,
               !.keys = IF base.del = 0 THEN @
                        ELSE Kill(@, {k \in Live(@) : k.gid = e.id}, now),
               !.map = [i \in DOMAIN @ \cup {in.id} |-> IF i = in.id THEN e.id ELSE @[i]]]

\* A group that is not in the payload keeps the id that it has at the sender.
LocalId(st, gid) == IF gid \in DOMAIN st.map THEN st.map[gid] ELSE gid

\* An alias is matched with its oldest row, deleted or not; the index admits one live row.
MergeAlias(st, in) ==
    LET row == [in EXCEPT !.gid = LocalId(st, in.gid)]
        same == {a \in st.aliases : a.gid = row.gid}
        e == Oldest(same)
        clash == row.del = 0 /\ \E a \in Live(same) : a.id # e.id
    IN  IF same = {}
        THEN [st EXCEPT !.aliases = @ \cup {[row EXCEPT !.id = NextId(st.aliases)]}]
        ELSE IF Eff(row) <= Eff(e) THEN st
        ELSE IF clash THEN [st EXCEPT !.ok = FALSE]
        ELSE [st EXCEPT !.aliases = Put(@, [row EXCEPT !.id = e.id])]

\* Mutant: a key that was deleted here is created again by an older copy.
MergeKey_Revives(st, in) ==
    LET row == [in EXCEPT !.gid = LocalId(st, in.gid)]
        same == {k \in st.keys : k.gid = row.gid}
    IN  IF row.del = 0 /\ Live(same) = {}
        THEN [st EXCEPT !.keys = @ \cup {[row EXCEPT !.id = NextId(st.keys)]}]
        ELSE st

\* A key is matched with the live row. A living key updates it or is created unless it was
\* deleted here later; a deleted key only deletes an older living one.
MergeKey(st, in) ==
    LET row == [in EXCEPT !.gid = LocalId(st, in.gid)]
        same == {k \in st.keys : k.gid = row.gid}
        live == Live(same)
        newer == \A k \in live : Eff(row) > Eff(k)
        tomb == CHOOSE k \in Dead(same) : \A j \in Dead(same) : j.del <= k.del
    IN  CASE live # {} /\ newer ->
               [st EXCEPT !.keys = Put(@, [row EXCEPT !.id = Oldest(live).id])]
          [] live = {} /\ row.del = 0 /\ (Dead(same) = {} \/ Eff(tomb) <= Eff(row)) ->
               [st EXCEPT !.keys = @ \cup {[row EXCEPT !.id = NextId(st.keys)]}]
          [] OTHER -> st

Start(n) == [groups |-> groups[n], keys |-> keys[n], aliases |-> aliases[n], map |-> <<>>, ok |-> TRUE]

Merge(n, p) ==
    LET st0 == Start(n)
        st1 == InTurn(MergeGroup, st0, p.groups)
        st2 == InTurn(MergeAlias, st1, p.aliases)
        st3 == InTurn(MergeKey, st2, p.keys)
    IN  IF st3.ok THEN st3 ELSE st0

--------------------------------------------------------------------------
(* ApplySnapshot: what the master has replaces what is here, what it lacks is deleted.
   Nothing is compared by time. *)

SnapGroup(st, in) ==
    LET same == {r \in Live(st.groups) : r.name = in.name}
        id == IF same = {} THEN NextId(st.groups) ELSE Oldest(same).id
        mine == IF same = {} THEN Blank ELSE Oldest(same).cfg
    IN  [st EXCEPT !.groups = Put(@, [in EXCEPT !.id = id, !.cfg = KeepLocal(in.cfg, mine, Local)]),
                   !.map = [i \in DOMAIN @ \cup {in.id} |-> IF i = in.id THEN id ELSE @[i]]]

\* Keys match live rows.
SnapKey(st, in) ==
    LET gid == st.map[in.gid]
        live == {k \in Live(st.keys) : k.gid = gid}
    IN  IF in.gid \notin DOMAIN st.map THEN st
        ELSE [st EXCEPT !.keys = Put(@, [in EXCEPT !.gid = gid,
                !.id = IF live = {} THEN NextId(st.keys) ELSE Oldest(live).id])]

\* Mutant: the oldest row, be it deleted.
SnapAlias_Oldest(st, in) ==
    LET gid == st.map[in.gid]
        same == {a \in st.aliases : a.gid = gid}
        id == IF same # {} THEN Oldest(same).id ELSE NextId(st.aliases)
    IN  IF in.gid \notin DOMAIN st.map THEN st
        ELSE [st EXCEPT !.aliases = Put(@, [in EXCEPT !.gid = gid, !.id = id])]

\* Aliases match live rows, else the oldest deleted one, which comes back.
SnapAlias(st, in) ==
    LET gid == st.map[in.gid]
        same == {a \in st.aliases : a.gid = gid}
        id == IF Live(same) # {} THEN Oldest(Live(same)).id
              ELSE IF same # {} THEN Oldest(same).id
              ELSE NextId(st.aliases)
    IN  IF in.gid \notin DOMAIN st.map THEN st
        ELSE [st EXCEPT !.aliases = Put(@, [in EXCEPT !.gid = gid, !.id = id])]

\* Mutant: groups that the master does not have stay.
Replace_KeepExtra(n, p) ==
    LET st1 == InTurn(SnapGroup, Start(n), p.groups)
        st2 == InTurn(SnapKey, st1, p.keys)
    IN  InTurn(SnapAlias, st2, p.aliases)

\* Mutant: of a group that stays no key is deleted.
Replace_KeysStay(n, p) ==
    LET st1 == InTurn(SnapGroup, Start(n), p.groups)
        extra == {g \in Live(st1.groups) : \A r \in p.groups : r.name # g.name}
        st2 == [st1 EXCEPT !.groups = Kill(@, extra, now),
                           !.keys = Kill(@, {k \in Live(@) : \E g \in extra : k.gid = g.id}, now)]
        st3 == InTurn(SnapAlias, InTurn(SnapKey, st2, p.keys), p.aliases)
        here(in) == IF in.gid \in DOMAIN st3.map THEN st3.map[in.gid] ELSE 0
    IN  [st3 EXCEPT !.aliases = Kill(@, {a \in Live(@) : \A in \in p.aliases : here(in) # a.gid}, now)]

Replace(n, p) ==
    LET st1 == InTurn(SnapGroup, Start(n), p.groups)
        extra == {g \in Live(st1.groups) : \A r \in p.groups : r.name # g.name}
        st2 == [st1 EXCEPT !.groups = Kill(@, extra, now),
                           !.keys = Kill(@, {k \in Live(@) : \E g \in extra : k.gid = g.id}, now)]
        st3 == InTurn(SnapKey, st2, p.keys)
        here(in) == IF in.gid \in DOMAIN st3.map THEN st3.map[in.gid] ELSE 0
        mirrored == {st3.map[i] : i \in DOMAIN st3.map}
        st4 == [st3 EXCEPT !.keys = Kill(@, {k \in Live(@) : k.gid \in mirrored
                                              /\ \A in \in p.keys : here(in) # k.gid}, now)]
        st5 == InTurn(SnapAlias, st4, p.aliases)
    IN  [st5 EXCEPT !.aliases = Kill(@, {a \in Live(@) : \A in \in p.aliases : here(in) # a.gid}, now)]

Install(n, st) ==
    /\ groups' = [groups EXCEPT ![n] = st.groups]
    /\ keys' = [keys EXCEPT ![n] = st.keys]
    /\ aliases' = [aliases EXCEPT ![n] = st.aliases]

--------------------------------------------------------------------------
(* Push: what changed since the oldest watermark goes to the connected peers. *)

Since(n) ==
    LET known == {synced[n][p] : p \in Peers(n)} \ {0}
        fresh == {t \in known : now - t <= Stale}
    IN  IF fresh = {} THEN 0 ELSE Min(fresh)

Changed(T, since) == {r \in T : r.upd > since \/ r.del > since}
Payload(n) == [groups |-> Changed(groups[n], Since(n)),
               keys |-> Changed(keys[n], Since(n)),
               aliases |-> Changed(aliases[n], Since(n))]
Empty == [groups |-> {}, keys |-> {}, aliases |-> {}]

\* pushToPeers, after a local change or by hand: to the connections this node dialled,
\* which stamps their watermark, and to those that others dialled.
Push(n, dialled, held, forced) ==
    /\ IF forced THEN dialled # {} /\ Act ELSE n \in env /\ UNCHANGED acts
    /\ Payload(n) # Empty
    /\ Cardinality(net) + Cardinality(dialled) + Cardinality(held) <= MaxFrames
    /\ net' = net \cup {[to |-> p, via |-> "dialled", body |-> Payload(n)] : p \in dialled}
                  \cup {[to |-> p, via |-> "held", body |-> Payload(n)] : p \in held}
    /\ synced' = [synced EXCEPT ![n] = [p \in Node |-> IF p \in dialled THEN now ELSE @[p]]]
    /\ UNCHANGED <<data, roles, edit, pull, now>>

\* The server end asks the database for its role, the client end the environment.
Accepts(m) == IF m.via = "dialled" THEN IsMaster(m.to) ELSE m.to \in env

\* A key takes a tick to travel.
Travelled(body) == \A k \in Live(body.keys) : k.upd < now

Receive(m) ==
    /\ Travelled(m.body)
    /\ net' = net \ {m}
    /\ IF Accepts(m) THEN Install(m.to, Merge(m.to, m.body)) ELSE UNCHANGED data
    /\ UNCHANGED <<roles, synced, edit, pull, now, acts>>

FrameLost(m) == net' = net \ {m} /\ UNCHANGED <<data, roles, synced, edit, pull, now, acts>>

\* A node that connects is taken to be up to date.
Handshake(n, p) ==
    /\ Act
    /\ synced' = [synced EXCEPT ![p][n] = now]
    /\ UNCHANGED <<data, roles, edit, net, pull, now>>

--------------------------------------------------------------------------
(* Pull: a follower's loop asks its masters, a user may ask any peer. The answer is
   taken at one time and applied at another. *)

Snapshot(m) == [groups |-> Live(groups[m]), keys |-> Live(keys[m]), aliases |-> Live(aliases[m])]

PullServed(n, m, s) ==
    /\ ~Waiting(n, s)
    /\ IF s = "loop" THEN ~IsMaster(n) /\ m \in parent[n] /\ UNCHANGED acts ELSE Act
    /\ pull' = [pull EXCEPT ![n][s] = [from |-> m, body |-> Snapshot(m)]]
    /\ synced' = [synced EXCEPT ![m][n] = now]
    /\ UNCHANGED <<data, roles, edit, net, now>>

\* pullOnePeer merges or replaces as the environment says.
PullApplied(n, s) ==
    /\ Waiting(n, s)
    /\ Travelled(pull[n][s].body)
    /\ Install(n, IF n \in env THEN Merge(n, pull[n][s].body)
                                     ELSE Replace(n, pull[n][s].body))
    /\ synced' = [synced EXCEPT ![n][pull[n][s].from] = now]
    /\ pull' = [pull EXCEPT ![n][s] = IF s = "loop" THEN Applied ELSE None]
    /\ UNCHANGED <<roles, edit, net, now, acts>>

PullLost(n, s) ==
    /\ Waiting(n, s)
    /\ pull' = [pull EXCEPT ![n][s] = None]
    /\ UNCHANGED <<data, roles, synced, edit, net, now, acts>>

--------------------------------------------------------------------------

UserEdits(n) ==
    \/ \E g \in Name, f \in Field, v \in Value : CreateGroup(n, g, f, v)
    \/ \E r \in Live(groups[n]), f \in Field, v \in Value \cup {Absent} : UpdateGroup(n, r, f, v)
    \/ \E r \in Live(groups[n]) : DeleteGroup(n, r)
    \/ EditKey(n)
    \/ EditAlias(n)
    \/ \E v \in {"true", "false"} : SetRole(n, v)
    \/ \E p \in Peers(n) : SetPeerMaster(n, p)

Next ==
    \/ Tick
    \/ \E n \in Node : UserEdits(n) \/ SaveGroup(n)
    \/ \E n \in Node, forced \in BOOLEAN : \E D, H \in SUBSET Peers(n) : Push(n, D, H, forced)
    \/ \E m \in net : Receive(m) \/ FrameLost(m)
    \/ \E n, p \in Node : n # p /\ Handshake(n, p)
    \/ \E n \in Node, s \in Slots : PullApplied(n, s) \/ PullLost(n, s)
    \/ \E n, m \in Node, s \in Slots : n # m /\ PullServed(n, m, s)

\* Time passes; handlers that started end; the loop keeps pulling; of its pulls not all are lost; a
\* pull ends by its timeout.
Fairness ==
    /\ WF_vars(Tick)
    /\ \A n \in Node :
      /\ WF_vars(SaveGroup(n))
      /\ WF_vars(\E m \in Peers(n) : PullServed(n, m, "loop"))
      /\ []<>Waiting(n, "loop") => []<>(pull[n]["loop"] = Applied)
      /\ []<>~Waiting(n, "manual")

Spec == Init /\ [][Next]_vars /\ Fairness

--------------------------------------------------------------------------
(* Properties *)

\* On a node that merges, no living key is older than its own deletion there: an old copy
\* that arrives late does not bring a deleted key back (ProcessPayload, part 5).
NoStaleRevival ==
    \A n \in env : \A k \in Live(keys[n]), d \in Dead(keys[n]) :
        k.gid = d.gid => Eff(d) <= Eff(k)

\* Merging is symmetric: whoever receives the other's group ends with the same fields,
\* machine-local ones aside, so that two masters cannot each keep their own
\* (mergeGroupJSONColumns). Columns without versions whose records are equally old are the
\* exception that the code makes.
Shared(col) == [f \in Field \ Local |-> col[f]]
MergeSymmetric ==
    \A n, p \in Node : \A a \in Live(groups[n]), b \in Live(groups[p]) :
        a.name = b.name /\ (Eff(a) # Eff(b) \/ ~Unversioned(a.cfg) \/ ~Unversioned(b.cfg)) =>
            Shared(MergeColumn(a.cfg, b.cfg, Eff(b) > Eff(a)))
              = Shared(MergeColumn(b.cfg, a.cfg, Eff(a) > Eff(b)))

\* What a node routes by: its living groups, and what lives in them.
In(gs, rows) == {<<p[1].name, p[2].upd>> : p \in {q \in gs \X rows : q[2].gid = q[1].id}}
View(p) ==
    [groups |-> {<<g.name, g.upd, g.by, Shared(g.cfg)>> : g \in p.groups},
     keys |-> In(p.groups, p.keys),
     aliases |-> In(p.groups, p.aliases)]

\* When an answer is applied on a node that was started as a follower, the node shows what
\* the master showed when it answered, no more and no less, whatever was created, edited,
\* deleted or merged on either side meanwhile (ApplySnapshot).
AnswersMirrored ==
    [][\A n \in Node \ env, s \in Slots :
          PullApplied(n, s) => View(Snapshot(n))' = View(pull[n][s].body)]_vars

Follows(n, m) == ~IsMaster(n) /\ parent[n] = {m}

\* Once the edits are over, a node that was started as a follower ends up with exactly the
\* groups, keys and aliases of the master it follows, whatever it did before, whichever
\* pulls overtook one another (ApplySnapshot, pullLoop).
FollowerMirrors ==
    \A n, m \in Node :
        <>[](n \notin env /\ Follows(n, m) => View(Snapshot(n)) = View(Snapshot(m)))

\* The comments promise the same of a node whose role was switched while it ran: it merges,
\* because pullOnePeer asks the environment.
SwitchedFollowerMirrors ==
    \A n, m \in Node :
        <>[](Follows(n, m) => View(Snapshot(n)) = View(Snapshot(m)))
=============================================================================
