----------------------------- MODULE GroupAdmin -----------------------------
(* Administration of groups and aggregates: services/group_service.go and
   services/aggregate_group_service.go. An aggregate lists standard groups as its
   sub-groups; deleted rows stay as tombstones. AddSubGroups and UpdateGroup check in one
   query and write in a later one, and requests of several administrators overlap. *)
EXTENDS Naturals, FiniteSets

CONSTANTS GroupChannel,     \* channel types
          Translated,       \* pairs <<aggregate's, sub-group's>> of channels with a translation
          MaxGroups, MaxGroupActs,   \* bounds: rows, requests
          Admin             \* requests at the same time

ASSUME GroupAdminAssumption ==
    Translated \subseteq GroupChannel \X GroupChannel /\ MaxGroups \in Nat

Gid == 1 .. MaxGroups
Row == [state : {"free", "live", "gone"}, kind : {"standard", "aggregate"},
        channel : GroupChannel, path : {"default", "custom"}, system : BOOLEAN]

VARIABLES group,      \* the table of groups
          link,       \* per aggregate and sub-group: "none", "live" or "gone"
          request,    \* per administrator: the request under way
          raced,      \* groups that two requests touched at once
          groupActs

groupVars == <<group, link, request, raced, groupActs>>

IdleAdmin == [at |-> "idle"]
Touched(r) == IF r.at = "idle" THEN {} ELSE r.touches

GroupTypeOK ==
    /\ \A g \in Gid : group[g].state = "free" \/ group[g] \in Row
    /\ link \in [Gid \X Gid -> {"none", "live", "gone"}]
    /\ \A a \in Admin : /\ request[a].at \in {"idle", "join", "check sub", "insert", "check use", "save"}
                        /\ Touched(request[a]) \subseteq Gid
    /\ raced \subseteq Gid

GroupInit ==
    /\ group = [g \in Gid |-> [state |-> "free"]]
    /\ link = [l \in Gid \X Gid |-> "none"]
    /\ request = [a \in Admin |-> IdleAdmin]
    /\ raced = {}
    /\ groupActs = 0

Is(g, state) == group[g].state = state
FreeId == CHOOSE g \in Gid : Is(g, "free") /\ \A h \in Gid : Is(h, "free") => g <= h
Subs(agg) == {s \in Gid : link[<<agg, s>>] = "live"}

\* A request that touches T begins beside the others.
Begins(a, T) ==
    /\ request[a].at = "idle" /\ groupActs < MaxGroupActs
    /\ groupActs' = groupActs + 1
    /\ raced' = raced \cup (T \cap UNION {Touched(request[b]) : b \in Admin \ {a}})

GoesOn(a, r) == request' = [request EXCEPT ![a] = r]
Ends(a) == GoesOn(a, IdleAdmin)

--------------------------------------------------------------------------
(* CreateGroup, CopyGroup, EnsureSystemAggregates *)

NewRow(kind, c, p, system) ==
    [state |-> "live", kind |-> kind, channel |-> c, path |-> p, system |-> system]

\* The first row with the role of a channel.
SystemAggregate(c) ==
    LET roles == {g \in Gid : Is(g, "live") /\ group[g].system /\ group[g].channel = c}
    IN  {g \in roles : \A h \in roles : g <= h}

\* A new standard group goes on to join the system aggregate of its channel.
CreateGroup(a, kind, c, p) ==
    /\ \E g \in Gid : Is(g, "free")
    /\ Begins(a, {FreeId})
    /\ group' = [group EXCEPT ![FreeId] = NewRow(kind, c, p, FALSE)]
    /\ IF kind = "standard"
       THEN GoesOn(a, [at |-> "join", sub |-> FreeId, touches |-> {FreeId}])
       ELSE UNCHANGED request
    /\ UNCHANGED link

\* The copy has all columns of its source, the mark of a system group included.
CopyGroup(a, source) ==
    /\ Is(source, "live")
    /\ \E g \in Gid : Is(g, "free")
    /\ Begins(a, {FreeId})
    /\ group' = [group EXCEPT ![FreeId] = group[source]]
    /\ UNCHANGED <<link, request>>

\* At a start; a user's group may have taken the name, then nothing happens.
EnsureSystemAggregates(a, c) ==
    /\ SystemAggregate(c) = {}
    /\ \E g \in Gid : Is(g, "free")
    /\ Begins(a, {FreeId})
    /\ group' = [group EXCEPT ![FreeId] = NewRow("aggregate", c, "default", TRUE)]
    /\ UNCHANGED <<link, request>>

--------------------------------------------------------------------------
(* AddSubGroups, by hand, after CreateGroup and at a start *)

\* GetValidationEndpoint: an empty one is the default of the channel.
EndpointOf(row) == IF row.path = "custom" THEN "custom" ELSE row.channel

\* The rows that AddSubGroups reads first: the aggregate, its links, the first sub-group.
AggregateRead(a, agg, sub) ==
    LET listed == Subs(agg)
        adds(expected) == GoesOn(a, [at |-> "check sub", agg |-> agg, sub |-> sub, expects |-> expected,
                                     listed |-> listed, touches |-> {agg, sub}])
    IN  IF listed = {} THEN adds("none")
        ELSE \E first \in listed :
               adds(IF Is(first, "live") THEN EndpointOf(group[first]) ELSE "none")

AddSubGroups(a, agg, sub) ==
    /\ Is(agg, "live") /\ group[agg].kind = "aggregate"
    /\ Begins(a, {agg, sub})
    /\ AggregateRead(a, agg, sub)
    /\ UNCHANGED <<group, link>>

AutoJoinSystemAggregate(a) ==
    /\ request[a].at = "join"
    /\ LET sub == request[a].sub
           aggregates == SystemAggregate(group[sub].channel) IN
         \/ aggregates = {} /\ Ends(a) /\ UNCHANGED raced
         \/ \E agg \in aggregates :
              /\ AggregateRead(a, agg, sub)
              /\ raced' = raced \cup ({agg, sub} \cap UNION {Touched(request[b]) : b \in Admin \ {a}})
    /\ UNCHANGED <<group, link, groupActs>>

BackfillSystemAggregates(a, sub) ==
    /\ Is(sub, "live") /\ group[sub].kind = "standard"
    /\ \E agg \in SystemAggregate(group[sub].channel) :
         /\ sub \notin Subs(agg)
         /\ Begins(a, {agg, sub})
         /\ AggregateRead(a, agg, sub)
    /\ UNCHANGED <<group, link>>

crossProtocolAllowed(c, d) == <<c, d>> \in Translated

\* Endpoints are compared within one protocol only.
SubGroupAllowed(r, row) ==
    /\ row.state = "live" /\ row.kind = "standard"
    /\ IF row.channel = group[r.agg].channel
       THEN r.expects \in {"none", EndpointOf(row)}
       ELSE crossProtocolAllowed(group[r.agg].channel, row.channel)

ValidateSubGroups(a) ==
    LET r == request[a] IN
    /\ r.at = "check sub"
    /\ IF SubGroupAllowed(r, group[r.sub]) /\ r.sub \notin r.listed
       THEN GoesOn(a, [r EXCEPT !.at = "insert"])
       ELSE Ends(a)
    /\ UNCHANGED <<group, link, raced, groupActs>>

\* The unique index also counts tombstones: a link that was removed never returns.
SubGroupInserted(a) ==
    LET r == request[a] IN
    /\ r.at = "insert"
    /\ link' = IF link[<<r.agg, r.sub>>] = "none"
               THEN [link EXCEPT ![<<r.agg, r.sub>>] = "live"] ELSE link
    /\ Ends(a)
    /\ UNCHANGED <<group, raced, groupActs>>

DeleteSubGroup(a, agg, sub) ==
    /\ Is(agg, "live") /\ link[<<agg, sub>>] = "live"
    /\ Begins(a, {agg, sub})
    /\ link' = [link EXCEPT ![<<agg, sub>>] = "gone"]
    /\ UNCHANGED <<group, request>>

--------------------------------------------------------------------------
(* UpdateGroup, DeleteGroup *)

\* The row as the request would have it; an aggregate keeps its channel.
Edited(row, c, p) == [row EXCEPT !.channel = IF row.kind = "aggregate" THEN @ ELSE c, !.path = p]

UpdateGroup(a, g, c, p) ==
    /\ Is(g, "live")
    /\ group[g].system => c = group[g].channel
    /\ Begins(a, {g})
    /\ GoesOn(a, [at |-> "check use", sub |-> g, row |-> Edited(group[g], c, p),
                  old |-> group[g], touches |-> {g}])
    /\ UNCHANGED <<group, link>>

\* Mutant: a group that aggregates use may change like any other.
CannotModify_Never(r) == FALSE
CannotModify(r) ==
    /\ r.row.kind # "aggregate"
    /\ \E agg \in Gid : r.sub \in Subs(agg)
    /\ r.row.channel # r.old.channel \/ r.row.path # r.old.path

CountAggregateGroupsUsingSubGroup(a) ==
    LET r == request[a] IN
    /\ r.at = "check use"
    /\ IF CannotModify(r) THEN Ends(a) ELSE GoesOn(a, [r EXCEPT !.at = "save"])
    /\ UNCHANGED <<group, link, raced, groupActs>>

\* Save writes every column as it was read, over a deletion as well.
GroupSaved(a) ==
    LET r == request[a] IN
    /\ r.at = "save"
    /\ group' = [group EXCEPT ![r.sub] = r.row]
    /\ Ends(a)
    /\ UNCHANGED <<link, raced, groupActs>>

\* One transaction: the links on both sides, the keys, the row.
DeleteGroup(a, g) ==
    /\ Is(g, "live") /\ ~group[g].system
    /\ Begins(a, {g})
    /\ group' = [group EXCEPT ![g].state = "gone"]
    /\ link' = [l \in Gid \X Gid |-> IF g \in {l[1], l[2]} /\ link[l] = "live" THEN "gone" ELSE link[l]]
    /\ UNCHANGED request

\* The request is refused for another reason, a query fails or the process dies.
RequestFails(a) ==
    /\ request[a].at # "idle"
    /\ Ends(a)
    /\ UNCHANGED <<group, link, raced, groupActs>>

GroupNext ==
    \E a \in Admin :
        \/ \E c \in GroupChannel :
             \/ EnsureSystemAggregates(a, c)
             \/ \E p \in {"default", "custom"} :
                  \/ \E kind \in {"standard", "aggregate"} : CreateGroup(a, kind, c, p)
                  \/ \E g \in Gid : UpdateGroup(a, g, c, p)
        \/ \E g \in Gid :
             \/ CopyGroup(a, g) \/ DeleteGroup(a, g) \/ BackfillSystemAggregates(a, g)
             \/ \E h \in Gid : AddSubGroups(a, g, h) \/ DeleteSubGroup(a, g, h)
        \/ AutoJoinSystemAggregate(a) \/ ValidateSubGroups(a) \/ SubGroupInserted(a)
        \/ CountAggregateGroupsUsingSubGroup(a) \/ GroupSaved(a) \/ RequestFails(a)

--------------------------------------------------------------------------
(* Properties *)

\* Whatever overlaps, an aggregate never becomes a sub-group (ValidateSubGroups).
NoNesting == \A l \in Gid \X Gid : link[l] # "none" =>
                 group[l[1]].kind = "aggregate" /\ group[l[2]].kind = "standard"

\* Any sequence of requests leaves links that routing can serve: both ends exist, and their
\* protocols are the same or translated, but for groups that two requests touched at once
\* (AddSubGroups, UpdateGroup, DeleteGroup).
LinksFit == \A l \in Gid \X Gid :
    link[l] = "live" /\ l[1] \notin raced /\ l[2] \notin raced =>
        /\ Is(l[1], "live") /\ Is(l[2], "live")
        /\ LET c == group[l[1]].channel  d == group[l[2]].channel
           IN  c = d \/ crossProtocolAllowed(c, d)

GroupsSound == NoNesting /\ LinksFit
=============================================================================
