------------------------ MODULE AdministrationProofs ------------------------
(* What administration never breaks, for every number of administrators, groups, models,
   rows and keys: groups and their links, aliases and exposed models, backups, and the
   migration of the key encryption. A part of Services moves on its own, so an invariant of
   a part is proved for the part's own actions and then lifted to the whole. *)
EXTENDS Services, DataLemmas, FiniteSetTheorems, SequenceTheorems

--------------------------------------------------------------------------
(* A step of the whole is, for each part, a step of the part or nothing *)

LEMMA GroupPart == [ServicesNext]_vars => [GroupNext]_groupVars
  BY DEF vars, ServicesNext, LogMove, JoinMove, TaskMove, CacheMove, RateMove, CronMove,
         GroupMove, AliasMove, RouterMove, BackupMove, StreamMove, MigrationMove

LEMMA AliasPart == [ServicesNext]_vars => [AliasNext]_aliasVars
  BY DEF vars, ServicesNext, LogMove, JoinMove, TaskMove, CacheMove, RateMove, CronMove,
         GroupMove, AliasMove, RouterMove, BackupMove, StreamMove, MigrationMove

LEMMA BackupPart == [ServicesNext]_vars => [BackupNext]_backupVars
  BY DEF vars, ServicesNext, LogMove, JoinMove, TaskMove, CacheMove, RateMove, CronMove,
         GroupMove, AliasMove, RouterMove, BackupMove, StreamMove, MigrationMove

LEMMA MigrationPart == [ServicesNext]_vars => [MigrationNext]_migrationVars
  BY DEF vars, ServicesNext, LogMove, JoinMove, TaskMove, CacheMove, RateMove, CronMove,
         GroupMove, AliasMove, RouterMove, BackupMove, StreamMove, MigrationMove

--------------------------------------------------------------------------
(* Groups and aggregates *)

Expected == {"none", "custom"} \cup GroupChannel
AutoJoinRequest == [at : {"join"}, sub : Gid, touches : SUBSET Gid]
LinkRequest == [at : {"check sub", "insert"}, agg : Gid, sub : Gid, expects : Expected,
                listed : SUBSET Gid, touches : SUBSET Gid]
EditRequest == [at : {"check use", "save"}, sub : Gid, row : Row, old : Row, touches : SUBSET Gid]

RowTyped(g) == IF Is(g, "free") THEN group[g] = [state |-> "free"]
               ELSE group[g] \in Row /\ (group[g].system => group[g].kind = "aggregate")

ChannelsFit(agg, sub) == \/ group[agg].channel = group[sub].channel
                         \/ crossProtocolAllowed(group[agg].channel, group[sub].channel)

\* What each request may rely on: a group that no other request has touched is as it was read.
JoinOK(r) == r.touches = {r.sub} /\ ~Is(r.sub, "free")
LinkOK(r) ==
    /\ r.touches = {r.agg, r.sub}
    /\ ~Is(r.agg, "free") /\ group[r.agg].kind = "aggregate"
    /\ r.agg \notin raced => Is(r.agg, "live")
    /\ r.at = "insert" =>
         /\ ~Is(r.sub, "free") /\ group[r.sub].kind = "standard"
         /\ r.sub \notin raced => Is(r.sub, "live")
         /\ r.agg \notin raced /\ r.sub \notin raced => ChannelsFit(r.agg, r.sub)
GroupEditOK(r) ==
    /\ r.touches = {r.sub}
    /\ ~Is(r.sub, "free") /\ r.row.kind = group[r.sub].kind /\ r.row.state = "live"
    /\ r.row.system => r.row.kind = "aggregate"
    /\ r.row.kind = "aggregate" => r.row.channel = r.old.channel
    /\ r.sub \notin raced => r.old.channel = group[r.sub].channel
    /\ r.at = "save" /\ r.sub \notin raced =>
         r.row.channel = r.old.channel \/ \A agg \in Gid : link[<<agg, r.sub>>] # "live"

RequestOK(r) == \/ r = IdleAdmin
                \/ r \in AutoJoinRequest /\ JoinOK(r)
                \/ r \in LinkRequest /\ LinkOK(r)
                \/ r \in EditRequest /\ GroupEditOK(r)

GroupsTyped ==
    /\ DOMAIN group = Gid /\ \A g \in Gid : RowTyped(g)
    /\ link \in [Gid \X Gid -> {"none", "live", "gone"}]
    /\ DOMAIN request = Admin
    /\ raced \subseteq Gid

\* Only a group in raced is touched by two requests under way.
TouchedApart == \A a, b \in Admin : a # b => Touched(request[a]) \cap Touched(request[b]) \subseteq raced

LinkOfGroups == \A l \in Gid \X Gid : link[l] # "none" => ~Is(l[1], "free") /\ ~Is(l[2], "free")

GroupInv ==
    /\ GroupsTyped /\ TouchedApart /\ LinkOfGroups /\ NoNesting /\ LinksFit
    /\ \A a \in Admin : RequestOK(request[a])

LEMMA FreeIdIsFree ==
  ASSUME \E g \in Gid : Is(g, "free")
  PROVE  FreeId \in Gid /\ Is(FreeId, "free")
<1> DEFINE T == {g \in Gid : Is(g, "free")}
<1>1. T \subseteq Nat /\ T # {}
  BY DEF Gid
<1> HIDE DEF T
<1>2. PICK g \in T : \A h \in T : g <= h
  BY <1>1, LeastNumber
<1>3. \E g_1 \in Gid : Is(g_1, "free") /\ \A h \in Gid : Is(h, "free") => g_1 <= h
  BY <1>2 DEF T
<1> QED
  BY <1>3 DEF FreeId

\* A request that has not begun.
LEMMA IdleIs ==
  ASSUME GroupInv, NEW a \in Admin
  PROVE  /\ request[a].at = "idle" <=> request[a] = IdleAdmin
         /\ request[a] # IdleAdmin => Touched(request[a]) = request[a].touches
         /\ Touched(IdleAdmin) = {}
<1>1. IdleAdmin.at = "idle"
  BY DEF IdleAdmin
<1>2. request[a] = IdleAdmin \/ request[a].at # "idle"
  BY DEF GroupInv, RequestOK, AutoJoinRequest, LinkRequest, EditRequest
<1> QED
  BY <1>1, <1>2 DEF Touched

LEMMA TouchedGroups ==
  ASSUME GroupInv, NEW a \in Admin
  PROVE  Touched(request[a]) \subseteq Gid
<1>1. request[a] = IdleAdmin \/ request[a].touches \subseteq Gid
  BY DEF GroupInv, RequestOK, AutoJoinRequest, LinkRequest, EditRequest
<1> QED
  BY <1>1, IdleIs

LEMMA RequestAt ==
  ASSUME GroupInv, NEW a \in Admin
  PROVE  LET r == request[a] IN
         /\ r.at = "join" => r \in AutoJoinRequest /\ JoinOK(r)
         /\ r.at \in {"check sub", "insert"} => r \in LinkRequest /\ LinkOK(r)
         /\ r.at \in {"check use", "save"} => r \in EditRequest /\ GroupEditOK(r)
<1> DEFINE r == request[a]
<1>1. RequestOK(r)
  BY DEF GroupInv
<1>2. r = IdleAdmin => r.at = "idle"
  BY DEF IdleAdmin
<1>3. r \in AutoJoinRequest => r.at = "join"
  BY DEF AutoJoinRequest
<1>4. r \in LinkRequest => r.at \in {"check sub", "insert"}
  BY DEF LinkRequest
<1>5. r \in EditRequest => r.at \in {"check use", "save"}
  BY DEF EditRequest
<1> QED
  BY <1>1, <1>2, <1>3, <1>4, <1>5 DEF RequestOK

\* A request under way is not disturbed by what others do to groups that it does not touch,
\* or to those that are then in raced.
LEMMA OthersKept ==
  ASSUME GroupInv, NEW b \in Admin, request'[b] = request[b], raced \subseteq raced',
         \A g \in Gid : ~Is(g, "free") => ~Is(g, "free")' /\ group'[g].kind = group[g].kind,
         \A g \in Touched(request[b]) \ raced' : group'[g] = group[g],
         \A g \in Touched(request[b]) \ raced' : \A x \in Gid :
            link'[<<x, g>>] = "live" => link[<<x, g>>] = "live"
  PROVE  RequestOK(request[b])'
<1>1. RequestOK(request[b])
  BY DEF GroupInv
<1> DEFINE r == request[b]
<1>2. CASE r = IdleAdmin
  BY <1>2 DEF RequestOK
<1>3. CASE r \in AutoJoinRequest /\ JoinOK(r)
  <2>1. r.sub \in Gid
    BY <1>3 DEF AutoJoinRequest
  <2> QED
    BY <1>3, <2>1 DEF RequestOK, JoinOK
<1>4. CASE r \in LinkRequest /\ LinkOK(r)
  <2>1. r.agg \in Gid /\ r.sub \in Gid /\ Touched(r) = {r.agg, r.sub} /\ r.at \in {"check sub", "insert"}
    BY <1>4 DEF LinkRequest, LinkOK, Touched
  <2>2. ~Is(r.agg, "free")' /\ group'[r.agg].kind = "aggregate"
    BY <1>4, <2>1 DEF LinkOK
  <2>3. r.agg \notin raced' => group'[r.agg] = group[r.agg] /\ r.agg \notin raced
    BY <2>1
  <2>4. r.sub \notin raced' => group'[r.sub] = group[r.sub] /\ r.sub \notin raced
    BY <2>1
  <2>5. r.agg \notin raced' => Is(r.agg, "live")'
    BY <1>4, <2>3 DEF LinkOK, Is
  <2>6. ASSUME r.at = "insert"
        PROVE  /\ ~Is(r.sub, "free")' /\ group'[r.sub].kind = "standard"
               /\ r.sub \notin raced' => Is(r.sub, "live")'
               /\ r.agg \notin raced' /\ r.sub \notin raced' => ChannelsFit(r.agg, r.sub)'
    <3>1. ~Is(r.sub, "free")' /\ group'[r.sub].kind = "standard"
      BY <1>4, <2>1, <2>6 DEF LinkOK
    <3>2. r.sub \notin raced' => Is(r.sub, "live")'
      BY <1>4, <2>4, <2>6 DEF LinkOK, Is
    <3>3. r.agg \notin raced' /\ r.sub \notin raced' => ChannelsFit(r.agg, r.sub)'
      BY <1>4, <2>3, <2>4, <2>6 DEF LinkOK, ChannelsFit
    <3> QED
      BY <3>1, <3>2, <3>3
  <2>7. LinkOK(r)'
    BY <1>4, <2>2, <2>5, <2>6 DEF LinkOK
  <2>8. (r \in LinkRequest)'
    BY <1>4
  <2> QED
    BY <2>7, <2>8 DEF RequestOK
<1>5. CASE r \in EditRequest /\ GroupEditOK(r)
  <2>1. r.sub \in Gid /\ Touched(r) = {r.sub} /\ r.at \in {"check use", "save"}
    BY <1>5 DEF EditRequest, GroupEditOK, Touched
  <2>2. ~Is(r.sub, "free")' /\ r.row.kind = group'[r.sub].kind
    BY <1>5, <2>1 DEF GroupEditOK
  <2>3. r.sub \notin raced' => group'[r.sub] = group[r.sub] /\ r.sub \notin raced
    BY <2>1
  <2>4. r.sub \notin raced' => \A agg \in Gid : link'[<<agg, r.sub>>] = "live" => link[<<agg, r.sub>>] = "live"
    BY <2>1
  <2>5. GroupEditOK(r)'
    BY <1>5, <2>2, <2>3, <2>4 DEF GroupEditOK
  <2>6. (r \in EditRequest)'
    BY <1>5
  <2> QED
    BY <2>5, <2>6 DEF RequestOK
<1> QED
  BY <1>1, <1>2, <1>3, <1>4, <1>5 DEF RequestOK

LEMMA ApartKept ==
  ASSUME GroupInv, NEW a \in Admin, NEW r, request' = [request EXCEPT ![a] = r], raced \subseteq raced',
         \A b \in Admin \ {a} : Touched(r) \cap Touched(request[b]) \subseteq raced'
  PROVE  TouchedApart'
<1>1. request'[a] = r /\ \A b \in Admin \ {a} : request'[b] = request[b]
  BY DEF GroupInv, GroupsTyped
<1>2. ASSUME NEW b \in Admin, NEW c \in Admin, b # c
      PROVE  Touched(request'[b]) \cap Touched(request'[c]) \subseteq raced'
  <2>1. CASE b = a
    BY <1>1, <1>2, <2>1
  <2>2. CASE c = a
    BY <1>1, <1>2, <2>2
  <2>3. CASE b # a /\ c # a
    <3>1. Touched(request[b]) \cap Touched(request[c]) \subseteq raced
      BY <1>2 DEF GroupInv, TouchedApart
    <3> QED
      BY <1>1, <2>3, <3>1
  <2> QED
    BY <2>1, <2>2, <2>3
<1>3. \A x : Touched(x)' = Touched(x)
  BY DEF Touched
<1> QED
  BY <1>2 DEF TouchedApart, Touched

\* Nothing that a property speaks of changes but what a request has read.
LEMMA RequestsMove ==
  ASSUME GroupInv, NEW a \in Admin, NEW r, GoesOn(a, r), UNCHANGED <<group, link>>,
         raced \subseteq raced', raced' \subseteq Gid,
         \A b \in Admin \ {a} : Touched(r) \cap Touched(request[b]) \subseteq raced',
         RequestOK(r)'
  PROVE  GroupInv'
<1>1. request' = [request EXCEPT ![a] = r]
  BY DEF GoesOn
<1>2. /\ DOMAIN request' = Admin /\ request'[a] = r
      /\ \A b \in Admin \ {a} : request'[b] = request[b]
  BY <1>1 DEF GroupInv, GroupsTyped
<1>3. GroupsTyped'
  BY <1>2 DEF GroupInv, GroupsTyped, RowTyped, Is
<1>4. TouchedApart'
  BY <1>1, ApartKept
<1>5. LinkOfGroups' /\ NoNesting'
  BY DEF GroupInv, LinkOfGroups, NoNesting, Is
<1>6. LinksFit'
  BY DEF GroupInv, LinksFit, Is
<1>7. ASSUME NEW b \in Admin PROVE RequestOK(request[b])'
  <2>1. CASE b = a
    BY <1>2, <2>1
  <2>2. CASE b # a
    <3>1. \A g \in Gid : ~Is(g, "free") => ~Is(g, "free")' /\ group'[g].kind = group[g].kind
      BY DEF Is
    <3> QED
      BY <1>2, <2>2, <3>1, OthersKept
  <2> QED
    BY <2>1, <2>2
<1> QED
  BY <1>3, <1>4, <1>5, <1>6, <1>7 DEF GroupInv

LEMMA EndsKeeps ==
  ASSUME GroupInv, NEW a \in Admin, Ends(a), UNCHANGED <<group, link>>,
         raced \subseteq raced', raced' \subseteq Gid
  PROVE  GroupInv'
<1>1. Touched(IdleAdmin) = {} /\ RequestOK(IdleAdmin)'
  BY DEF Touched, IdleAdmin, RequestOK
<1> QED
  BY <1>1, RequestsMove DEF Ends

\* A request that touches T makes of those that others touch ones of raced.
LEMMA BeginsRaces ==
  ASSUME NEW a \in Admin, NEW T, NEW races, races = raced \cup (T \cap UNION {Touched(request[b]) : b \in Admin \ {a}})
  PROVE  raced \subseteq races /\ \A b \in Admin \ {a} : T \cap Touched(request[b]) \subseteq races
  OBVIOUS

LEMMA AggregateReadKeeps ==
  ASSUME GroupInv, NEW a \in Admin, NEW agg \in Gid, NEW sub \in Gid,
         Is(agg, "live"), group[agg].kind = "aggregate",
         AggregateRead(a, agg, sub), UNCHANGED <<group, link>>,
         raced' = raced \cup ({agg, sub} \cap UNION {Touched(request[b]) : b \in Admin \ {a}})
  PROVE  GroupInv'
<1> DEFINE seeks(e) == [at |-> "check sub", agg |-> agg, sub |-> sub, expects |-> e,
                       listed |-> Subs(agg), touches |-> {agg, sub}]
<1>1. \E e \in Expected : GoesOn(a, seeks(e))
  <2>1. "none" \in Expected /\ "custom" \in Expected /\ \A c \in GroupChannel : c \in Expected
    BY DEF Expected
  <2>2. CASE Subs(agg) = {}
    BY <2>1, <2>2 DEF AggregateRead
  <2>3. CASE Subs(agg) # {}
    <3>1. PICK first \in Subs(agg) :
             GoesOn(a, seeks(IF Is(first, "live") THEN EndpointOf(group[first]) ELSE "none"))
      BY <2>3 DEF AggregateRead
    <3>2. Is(first, "live") => group[first] \in Row
      BY DEF GroupInv, GroupsTyped, RowTyped, Subs, Is
    <3>3. Is(first, "live") => EndpointOf(group[first]) \in Expected
      BY <2>1, <3>2 DEF EndpointOf, Row
    <3> QED
      BY <2>1, <3>1, <3>3
  <2> QED
    BY <2>2, <2>3
<1>2. PICK r \in LinkRequest : /\ GoesOn(a, r) /\ r.at = "check sub"
                               /\ r.agg = agg /\ r.sub = sub /\ r.touches = {agg, sub}
  <2>1. \A e \in Expected : seeks(e) \in LinkRequest
    BY DEF LinkRequest, Subs
  <2> QED
    BY <1>1, <2>1
<1>3. Touched(r) = {agg, sub}
  BY <1>2 DEF Touched
<1>4. RequestOK(r)'
  <2>1. ~Is(agg, "free")' /\ group'[agg].kind = "aggregate" /\ Is(agg, "live")'
    BY DEF Is
  <2>2. LinkOK(r)'
    BY <1>2, <2>1 DEF LinkOK
  <2> QED
    BY <2>2 DEF RequestOK, LinkRequest
<1>5. raced \subseteq raced' /\ raced' \subseteq Gid /\ \A b \in Admin \ {a} : {agg, sub} \cap Touched(request[b]) \subseteq raced'
  BY DEF GroupInv, GroupsTyped
<1> QED
  BY <1>2, <1>3, <1>4, <1>5, RequestsMove

\* A new row.
LEMMA RowAdded ==
  ASSUME GroupInv, NEW a \in Admin, NEW f \in Gid, Is(f, "free"), NEW row \in Row, row.state = "live",
         row.system => row.kind = "aggregate", group' = [group EXCEPT ![f] = row], link' = link,
         raced' = raced \cup ({f} \cap UNION {Touched(request[b]) : b \in Admin \ {a}}),
         \/ UNCHANGED request
         \/ GoesOn(a, [at |-> "join", sub |-> f, touches |-> {f}]), request[a] = IdleAdmin
  PROVE  GroupInv'
<1>1. group'[f] = row /\ DOMAIN group' = Gid /\ \A g \in Gid \ {f} : group'[g] = group[g]
  BY DEF GroupInv, GroupsTyped
<1>2. /\ raced \subseteq raced' /\ raced' \subseteq Gid
      /\ \A b \in Admin \ {a} : {f} \cap Touched(request[b]) \subseteq raced'
  BY DEF GroupInv, GroupsTyped
<1>3. DOMAIN request' = Admin /\ \A b \in Admin \ {a} : request'[b] = request[b]
  BY DEF GroupInv, GroupsTyped, GoesOn
<1>4. /\ \A g \in Gid : ~Is(g, "free") => g # f
      /\ \A g \in Gid : ~Is(g, "free") => ~Is(g, "free")' /\ group'[g] = group[g]
      /\ ~Is(f, "free")'
  BY <1>1 DEF Is
<1>5. GroupsTyped'
  <2>1. ASSUME NEW g \in Gid PROVE RowTyped(g)'
    <3>1. CASE g = f
      BY <1>1, <1>4, <3>1 DEF RowTyped
    <3>2. CASE g # f
      <4>1. group'[g] = group[g] /\ RowTyped(g)
        BY <1>1, <3>2 DEF GroupInv, GroupsTyped
      <4> QED
        BY <4>1 DEF RowTyped, Is
    <3> QED
      BY <3>1, <3>2
  <2> QED
    BY <1>1, <1>2, <1>3, <2>1 DEF GroupInv, GroupsTyped
<1>6. \A l \in Gid \X Gid : link'[l] # "none" =>
        /\ l[1] \in Gid /\ l[2] \in Gid /\ ~Is(l[1], "free") /\ ~Is(l[2], "free")
        /\ group'[l[1]] = group[l[1]] /\ group'[l[2]] = group[l[2]]
  BY <1>4 DEF GroupInv, LinkOfGroups
<1>7. LinkOfGroups' /\ NoNesting'
  BY <1>4, <1>6 DEF GroupInv, LinkOfGroups, NoNesting
<1>8. LinksFit'
  <2>1. ASSUME NEW l \in Gid \X Gid, link'[l] = "live", l[1] \notin raced', l[2] \notin raced'
        PROVE  /\ Is(l[1], "live")' /\ Is(l[2], "live")' /\ ChannelsFit(l[1], l[2])'
    <3>1. l[1] \notin raced /\ l[2] \notin raced /\ link[l] = "live"
      BY <1>2, <2>1
    <3>2. Is(l[1], "live") /\ Is(l[2], "live") /\ ChannelsFit(l[1], l[2])
      BY <3>1 DEF GroupInv, LinksFit, ChannelsFit
    <3>3. group'[l[1]] = group[l[1]] /\ group'[l[2]] = group[l[2]]
      BY <1>6, <2>1
    <3> QED
      BY <3>2, <3>3 DEF Is, ChannelsFit
  <2> QED
    BY <2>1 DEF LinksFit, ChannelsFit
<1>9. ASSUME NEW b \in Admin, request'[b] = request[b], request[b] = IdleAdmin \/ b # a
      PROVE  RequestOK(request[b])'
  <2>1. CASE request[b] = IdleAdmin
    BY <1>9, <2>1 DEF RequestOK
  <2>2. CASE b # a
    <3>1. \A g \in Touched(request[b]) \ raced' : g # f
      BY <1>2, <2>2
    <3>2. \A g \in Touched(request[b]) : g \in Gid
      BY TouchedGroups
    <3>3. \A g \in Touched(request[b]) \ raced' : group'[g] = group[g]
      BY <1>1, <3>1, <3>2
    <3>4. \A g \in Gid : ~Is(g, "free") => ~Is(g, "free")' /\ group'[g].kind = group[g].kind
      BY <1>4
    <3> QED
      BY <1>2, <1>9, <3>3, <3>4, OthersKept
  <2> QED
    BY <1>9, <2>1, <2>2
<1>10. TouchedApart' /\ \A b \in Admin : RequestOK(request[b])'
  <2>1. CASE UNCHANGED request
    <3>1. TouchedApart'
      BY <1>2, <2>1 DEF GroupInv, TouchedApart, Touched
    <3> QED
      BY <1>9, <2>1, <3>1
  <2>2. CASE GoesOn(a, [at |-> "join", sub |-> f, touches |-> {f}])
    <3> DEFINE r == [at |-> "join", sub |-> f, touches |-> {f}]
    <3>1. Touched(r) = {f} /\ r \in AutoJoinRequest
      BY DEF Touched, AutoJoinRequest
    <3>2. RequestOK(r)'
      BY <1>4, <3>1 DEF RequestOK, JoinOK
    <3>3. request' = [request EXCEPT ![a] = r]
      BY <2>2 DEF GoesOn
    <3> HIDE DEF r
    <3>4. TouchedApart'
      BY <1>2, <3>1, <3>3, ApartKept
    <3>5. request'[a] = r /\ \A b \in Admin \ {a} : request'[b] = request[b]
      BY <3>3 DEF GroupInv, GroupsTyped
    <3>6. ASSUME NEW b \in Admin PROVE RequestOK(request[b])'
      <4>1. CASE b = a
        BY <3>2, <3>5, <4>1
      <4>2. CASE b # a
        BY <1>9, <3>5, <4>2
      <4> QED
        BY <4>1, <4>2
    <3> QED
      BY <3>4, <3>6
  <2> QED
    BY <2>1, <2>2
<1> QED
  BY <1>5, <1>7, <1>8, <1>10 DEF GroupInv

LEMMA CreateGroupKeeps ==
  ASSUME GroupInv, NEW a \in Admin, NEW kind \in {"standard", "aggregate"}, NEW c \in GroupChannel,
         NEW p \in {"default", "custom"}, CreateGroup(a, kind, c, p)
  PROVE  GroupInv'
<1> DEFINE row == NewRow(kind, c, p, FALSE)
<1>1. FreeId \in Gid /\ Is(FreeId, "free")
  BY FreeIdIsFree DEF CreateGroup
<1>2. row \in Row /\ row.state = "live" /\ (row.system => row.kind = "aggregate")
  BY DEF NewRow, Row
<1>3. PICK f \in Gid : f = FreeId
  BY <1>1
<1>4. request[a] = IdleAdmin
  BY IdleIs DEF CreateGroup, Begins
<1>5. /\ group' = [group EXCEPT ![f] = row] /\ link' = link
      /\ raced' = raced \cup ({f} \cap UNION {Touched(request[b]) : b \in Admin \ {a}})
      /\ \/ UNCHANGED request
         \/ GoesOn(a, [at |-> "join", sub |-> f, touches |-> {f}])
  BY <1>3 DEF CreateGroup, Begins
<1> HIDE DEF row
<1> QED
  BY <1>1, <1>2, <1>3, <1>4, <1>5, RowAdded

LEMMA CopyGroupKeeps ==
  ASSUME GroupInv, NEW a \in Admin, NEW source \in Gid, CopyGroup(a, source)
  PROVE  GroupInv'
<1>1. FreeId \in Gid /\ Is(FreeId, "free")
  BY FreeIdIsFree DEF CopyGroup
<1>2. Is(source, "live")
  BY DEF CopyGroup
<1>3. PICK row \in Row : row = group[source] /\ row.state = "live" /\ (row.system => row.kind = "aggregate")
  BY <1>2 DEF GroupInv, GroupsTyped, RowTyped, Is
<1>4. PICK f \in Gid : f = FreeId
  BY <1>1
<1>5. request[a] = IdleAdmin
  BY IdleIs DEF CopyGroup, Begins
<1>6. /\ group' = [group EXCEPT ![f] = row] /\ UNCHANGED <<link, request>>
      /\ raced' = raced \cup ({f} \cap UNION {Touched(request[b]) : b \in Admin \ {a}})
  BY <1>3, <1>4 DEF CopyGroup, Begins
<1> QED
  BY <1>1, <1>3, <1>4, <1>5, <1>6, RowAdded

LEMMA EnsureKeeps ==
  ASSUME GroupInv, NEW a \in Admin, NEW c \in GroupChannel, EnsureSystemAggregates(a, c)
  PROVE  GroupInv'
<1> DEFINE row == NewRow("aggregate", c, "default", TRUE)
<1>1. FreeId \in Gid /\ Is(FreeId, "free")
  BY FreeIdIsFree DEF EnsureSystemAggregates
<1>2. row \in Row /\ row.state = "live" /\ (row.system => row.kind = "aggregate")
  BY DEF NewRow, Row
<1>3. PICK f \in Gid : f = FreeId
  BY <1>1
<1>4. request[a] = IdleAdmin
  BY IdleIs DEF EnsureSystemAggregates, Begins
<1>5. /\ group' = [group EXCEPT ![f] = row] /\ UNCHANGED <<link, request>>
      /\ raced' = raced \cup ({f} \cap UNION {Touched(request[b]) : b \in Admin \ {a}})
  BY <1>3 DEF EnsureSystemAggregates, Begins
<1> HIDE DEF row
<1> QED
  BY <1>1, <1>2, <1>3, <1>4, <1>5, RowAdded

\* A system group is an aggregate.
LEMMA SystemAggregateIs ==
  ASSUME GroupInv, NEW c, NEW agg \in SystemAggregate(c)
  PROVE  agg \in Gid /\ Is(agg, "live") /\ group[agg].kind = "aggregate"
  BY DEF SystemAggregate, GroupInv, GroupsTyped, RowTyped, Is

LEMMA AddSubGroupsKeeps ==
  ASSUME GroupInv, NEW a \in Admin, NEW agg \in Gid, NEW sub \in Gid, AddSubGroups(a, agg, sub)
  PROVE  GroupInv'
  BY AggregateReadKeeps DEF AddSubGroups, Begins

LEMMA BackfillKeeps ==
  ASSUME GroupInv, NEW a \in Admin, NEW sub \in Gid, BackfillSystemAggregates(a, sub)
  PROVE  GroupInv'
<1>1. PICK agg \in SystemAggregate(group[sub].channel) : Begins(a, {agg, sub}) /\ AggregateRead(a, agg, sub)
  BY DEF BackfillSystemAggregates
<1>2. agg \in Gid /\ Is(agg, "live") /\ group[agg].kind = "aggregate"
  BY SystemAggregateIs
<1>3. UNCHANGED <<group, link>> /\ raced' = raced \cup ({agg, sub} \cap UNION {Touched(request[b]) : b \in Admin \ {a}})
  BY <1>1 DEF BackfillSystemAggregates, Begins
<1> QED
  BY <1>1, <1>2, <1>3, AggregateReadKeeps

LEMMA AutoJoinKeeps ==
  ASSUME GroupInv, NEW a \in Admin, AutoJoinSystemAggregate(a)
  PROVE  GroupInv'
<1> DEFINE r == request[a]
<1>1. r \in AutoJoinRequest
  BY RequestAt DEF AutoJoinSystemAggregate
<1>2. r.sub \in Gid
  BY <1>1 DEF AutoJoinRequest
<1>3. UNCHANGED <<group, link>>
  BY DEF AutoJoinSystemAggregate
<1>4. CASE Ends(a) /\ UNCHANGED raced
  BY <1>3, <1>4, EndsKeeps DEF GroupInv, GroupsTyped
<1>5. CASE \E agg \in SystemAggregate(group[r.sub].channel) :
              /\ AggregateRead(a, agg, r.sub)
              /\ raced' = raced \cup ({agg, r.sub} \cap UNION {Touched(request[b]) : b \in Admin \ {a}})
  <2>1. PICK agg \in SystemAggregate(group[r.sub].channel) :
              /\ AggregateRead(a, agg, r.sub)
              /\ raced' = raced \cup ({agg, r.sub} \cap UNION {Touched(request[b]) : b \in Admin \ {a}})
    BY <1>5
  <2>2. agg \in Gid /\ Is(agg, "live") /\ group[agg].kind = "aggregate"
    BY SystemAggregateIs
  <2>3. PICK sub \in Gid : sub = r.sub
    BY <1>2
  <2>4. /\ AggregateRead(a, agg, sub)
        /\ raced' = raced \cup ({agg, sub} \cap UNION {Touched(request[b]) : b \in Admin \ {a}})
    BY <2>1, <2>3
  <2> QED
    BY <1>3, <2>2, <2>4, AggregateReadKeeps
<1> QED
  BY <1>4, <1>5 DEF AutoJoinSystemAggregate

LEMMA ValidateKeeps ==
  ASSUME GroupInv, NEW a \in Admin, ValidateSubGroups(a)
  PROVE  GroupInv'
<1> DEFINE r == request[a]
<1>1. r \in LinkRequest /\ LinkOK(r) /\ r.at = "check sub" /\ UNCHANGED <<group, link, raced>>
  BY RequestAt DEF ValidateSubGroups
<1>2. r.sub \in Gid /\ r.agg \in Gid
  BY <1>1 DEF LinkRequest
<1>3. raced \subseteq raced' /\ raced' \subseteq Gid
  BY <1>1 DEF GroupInv, GroupsTyped
<1>4. CASE Ends(a)
  BY <1>1, <1>3, <1>4, EndsKeeps
<1>5. CASE SubGroupAllowed(r, group[r.sub]) /\ GoesOn(a, [r EXCEPT !.at = "insert"])
  <2>1. PICK q \in LinkRequest : /\ GoesOn(a, q) /\ q.at = "insert" /\ q.agg = r.agg /\ q.sub = r.sub
                                 /\ q.touches = r.touches
    <3>1. LET q == [r EXCEPT !.at = "insert"] IN
            q \in LinkRequest /\ q.at = "insert" /\ q.agg = r.agg /\ q.sub = r.sub /\ q.touches = r.touches
      BY <1>1 DEF LinkRequest
    <3> QED
      BY <1>5, <3>1
  <2>2. group[r.sub].state = "live" /\ group[r.sub].kind = "standard" /\ ChannelsFit(r.agg, r.sub)
    BY <1>5 DEF SubGroupAllowed, ChannelsFit
  <2>3. LinkOK(q)
    BY <1>1, <2>1, <2>2 DEF LinkOK, Is
  <2>4. RequestOK(q)'
    BY <1>1, <2>3 DEF RequestOK, LinkOK, ChannelsFit, Is, LinkRequest
  <2>5. Touched(q) = Touched(r)
    BY <1>1, <2>1 DEF Touched
  <2>6. \A b \in Admin \ {a} : Touched(q) \cap Touched(request[b]) \subseteq raced'
    BY <1>1, <2>5 DEF GroupInv, TouchedApart
  <2> QED
    BY <1>1, <1>3, <2>1, <2>4, <2>6, RequestsMove
<1> QED
  BY <1>4, <1>5 DEF ValidateSubGroups

LEMMA UpdateGroupKeeps ==
  ASSUME GroupInv, NEW a \in Admin, NEW g \in Gid, NEW c \in GroupChannel, NEW p \in {"default", "custom"},
         UpdateGroup(a, g, c, p)
  PROVE  GroupInv'
<1> DEFINE seeks == [at |-> "check use", sub |-> g, row |-> Edited(group[g], c, p), old |-> group[g],
                    touches |-> {g}]
<1>1. /\ Is(g, "live") /\ GoesOn(a, seeks) /\ UNCHANGED <<group, link>>
      /\ raced' = raced \cup ({g} \cap UNION {Touched(request[b]) : b \in Admin \ {a}})
  BY DEF UpdateGroup, Begins
<1>2. group[g] \in Row /\ (group[g].system => group[g].kind = "aggregate")
  BY <1>1 DEF GroupInv, GroupsTyped, RowTyped, Is
<1>3. /\ Edited(group[g], c, p) \in Row /\ Edited(group[g], c, p).kind = group[g].kind
      /\ Edited(group[g], c, p).state = "live" /\ Edited(group[g], c, p).system = group[g].system
      /\ group[g].kind = "aggregate" => Edited(group[g], c, p).channel = group[g].channel
  BY <1>1, <1>2 DEF Edited, Row, Is
<1>4. PICK q \in EditRequest : /\ GoesOn(a, q) /\ q.at = "check use" /\ q.sub = g /\ q.touches = {g}
                               /\ q.row = Edited(group[g], c, p) /\ q.old = group[g]
  <2>1. seeks \in EditRequest
    BY <1>2, <1>3 DEF EditRequest
  <2>2. /\ seeks.at = "check use" /\ seeks.sub = g /\ seeks.touches = {g}
        /\ seeks.row = Edited(group[g], c, p) /\ seeks.old = group[g]
    OBVIOUS
  <2> HIDE DEF seeks
  <2> QED
    BY <1>1, <2>1, <2>2
<1>5. GroupEditOK(q)
  BY <1>1, <1>2, <1>3, <1>4 DEF GroupEditOK, Is
<1>6. raced \subseteq raced' /\ raced' \subseteq Gid /\ \A b \in Admin \ {a} : {g} \cap Touched(request[b]) \subseteq raced'
  <2>1. raced' = raced \cup ({g} \cap UNION {Touched(request[b]) : b \in Admin \ {a}})
    BY <1>1
  <2>2. raced \subseteq Gid
    BY DEF GroupInv, GroupsTyped
  <2> QED
    BY <2>1, <2>2
<1>7. GroupEditOK(q)'
  BY <1>1, <1>4, <1>5, <1>6 DEF GroupEditOK, Is
<1>8. RequestOK(q)'
  BY <1>7 DEF RequestOK, EditRequest
<1>9. Touched(q) = {g}
  BY <1>4 DEF Touched
<1> QED
  BY <1>1, <1>4, <1>6, <1>8, <1>9, RequestsMove

LEMMA CountKeeps ==
  ASSUME GroupInv, NEW a \in Admin, CountAggregateGroupsUsingSubGroup(a)
  PROVE  GroupInv'
<1> DEFINE r == request[a]
<1>1. r \in EditRequest /\ GroupEditOK(r) /\ r.at = "check use" /\ UNCHANGED <<group, link, raced>>
  BY RequestAt DEF CountAggregateGroupsUsingSubGroup
<1>2. raced \subseteq raced' /\ raced' \subseteq Gid
  BY <1>1 DEF GroupInv, GroupsTyped
<1>3. CASE Ends(a)
  BY <1>1, <1>2, <1>3, EndsKeeps
<1>4. CASE ~CannotModify(r) /\ GoesOn(a, [r EXCEPT !.at = "save"])
  <2>1. PICK q \in EditRequest : /\ GoesOn(a, q) /\ q.at = "save" /\ q.sub = r.sub /\ q.touches = r.touches
                                 /\ q.row = r.row /\ q.old = r.old
    <3>1. LET q == [r EXCEPT !.at = "save"] IN
            q \in EditRequest /\ q.at = "save" /\ q.sub = r.sub /\ q.touches = r.touches
            /\ q.row = r.row /\ q.old = r.old
      BY <1>1 DEF EditRequest
    <3> QED
      BY <1>4, <3>1
  <2>2. r.row.channel = r.old.channel \/ \A agg \in Gid : link[<<agg, r.sub>>] # "live"
    <3>1. r.row.kind = "aggregate" => r.row.channel = r.old.channel
      BY <1>1 DEF GroupEditOK
    <3>2. (\A agg \in Gid : r.sub \notin Subs(agg)) => \A agg \in Gid : link[<<agg, r.sub>>] # "live"
      BY <1>1 DEF Subs, EditRequest
    <3> QED
      BY <1>4, <3>1, <3>2 DEF CannotModify
  <2>3. GroupEditOK(q)
    BY <1>1, <2>1, <2>2 DEF GroupEditOK
  <2>4. RequestOK(q)'
    BY <1>1, <2>3 DEF RequestOK, GroupEditOK, Is, EditRequest
  <2>5. Touched(q) = Touched(r)
    BY <1>1, <2>1 DEF Touched
  <2>6. \A b \in Admin \ {a} : Touched(q) \cap Touched(request[b]) \subseteq raced'
    BY <1>1, <2>5 DEF GroupInv, TouchedApart
  <2> QED
    BY <1>1, <1>2, <2>1, <2>4, <2>6, RequestsMove
<1> QED
  BY <1>3, <1>4 DEF CountAggregateGroupsUsingSubGroup

LEMMA InsertedKeeps ==
  ASSUME GroupInv, NEW a \in Admin, SubGroupInserted(a)
  PROVE  GroupInv'
<1> DEFINE r == request[a]
           made == <<r.agg, r.sub>>
<1>1. r \in LinkRequest /\ LinkOK(r) /\ r.at = "insert" /\ UNCHANGED <<group, raced>> /\ Ends(a)
  BY RequestAt DEF SubGroupInserted
<1>2. r.sub \in Gid /\ r.agg \in Gid /\ made \in Gid \X Gid /\ Touched(r) = {r.agg, r.sub}
  BY <1>1 DEF LinkRequest, LinkOK, Touched
<1>3. /\ link' \in [Gid \X Gid -> {"none", "live", "gone"}]
      /\ \A l \in Gid \X Gid : l # made => link'[l] = link[l]
  BY <1>2 DEF SubGroupInserted, GroupInv, GroupsTyped
<1>4. /\ DOMAIN request' = Admin /\ request'[a] = IdleAdmin
      /\ \A b \in Admin \ {a} : request'[b] = request[b]
  BY <1>1 DEF Ends, GoesOn, GroupInv, GroupsTyped
<1>5. GroupsTyped'
  BY <1>1, <1>3, <1>4 DEF GroupInv, GroupsTyped, RowTyped, Is
<1>6. TouchedApart'
  <2>1. Touched(IdleAdmin) = {}
    BY DEF Touched, IdleAdmin
  <2>2. request' = [request EXCEPT ![a] = IdleAdmin]
    BY <1>1 DEF Ends, GoesOn
  <2> QED
    BY <1>1, <2>1, <2>2, ApartKept
<1>7. LinkOfGroups' /\ NoNesting'
  <2>1. ASSUME NEW l \in Gid \X Gid, link'[l] # "none"
        PROVE  /\ ~Is(l[1], "free") /\ ~Is(l[2], "free")
               /\ group[l[1]].kind = "aggregate" /\ group[l[2]].kind = "standard"
    <3>1. CASE l = made
      BY <1>1, <3>1 DEF LinkOK
    <3>2. CASE l # made
      BY <1>3, <2>1, <3>2 DEF GroupInv, LinkOfGroups, NoNesting
    <3> QED
      BY <3>1, <3>2
  <2> QED
    BY <1>1, <2>1 DEF LinkOfGroups, NoNesting, Is
<1>8. LinksFit'
  <2>1. ASSUME NEW l \in Gid \X Gid, link'[l] = "live", l[1] \notin raced, l[2] \notin raced
        PROVE  Is(l[1], "live") /\ Is(l[2], "live") /\ ChannelsFit(l[1], l[2])
    <3>1. CASE l = made
      BY <1>1, <2>1, <3>1 DEF LinkOK
    <3>2. CASE l # made
      BY <1>3, <2>1, <3>2 DEF GroupInv, LinksFit, ChannelsFit
    <3> QED
      BY <3>1, <3>2
  <2> QED
    BY <1>1, <2>1 DEF LinksFit, ChannelsFit, Is
<1>9. ASSUME NEW b \in Admin PROVE RequestOK(request[b])'
  <2>1. CASE b = a
    BY <1>4, <2>1 DEF RequestOK
  <2>2. CASE b # a
    <3>1. \A g \in Touched(request[b]) \ raced' : g # r.sub
      BY <1>1, <1>2, <2>2 DEF GroupInv, TouchedApart
    <3>2. ASSUME NEW g \in Touched(request[b]) \ raced', NEW x \in Gid
          PROVE  link'[<<x, g>>] = "live" => link[<<x, g>>] = "live"
      <4>1. <<x, g>> \in Gid \X Gid /\ <<x, g>> # made
        BY <3>1, TouchedGroups
      <4> QED
        BY <1>3, <4>1
    <3>3. /\ \A g \in Gid : ~Is(g, "free") => ~Is(g, "free")' /\ group'[g].kind = group[g].kind
          /\ \A g \in Touched(request[b]) \ raced' : group'[g] = group[g]
      BY <1>1 DEF Is
    <3> QED
      BY <1>1, <1>4, <2>2, <3>2, <3>3, OthersKept
  <2> QED
    BY <2>1, <2>2
<1> QED
  BY <1>5, <1>6, <1>7, <1>8, <1>9 DEF GroupInv

LEMMA DeleteSubGroupKeeps ==
  ASSUME GroupInv, NEW a \in Admin, NEW agg \in Gid, NEW sub \in Gid, DeleteSubGroup(a, agg, sub)
  PROVE  GroupInv'
<1> DEFINE cut == <<agg, sub>>
<1>1. /\ link[cut] = "live" /\ link' = [link EXCEPT ![cut] = "gone"] /\ UNCHANGED <<group, request>>
      /\ raced' = raced \cup ({agg, sub} \cap UNION {Touched(request[b]) : b \in Admin \ {a}})
  BY DEF DeleteSubGroup, Begins
<1>2. raced \subseteq raced' /\ raced' \subseteq Gid
  BY <1>1 DEF GroupInv, GroupsTyped
<1>3. /\ link' \in [Gid \X Gid -> {"none", "live", "gone"}]
      /\ \A l \in Gid \X Gid : /\ link'[l] = "live" => link[l] = "live"
                               /\ link'[l] # "none" => link[l] # "none"
  BY <1>1 DEF GroupInv, GroupsTyped
<1>4. GroupsTyped'
  BY <1>1, <1>2, <1>3 DEF GroupInv, GroupsTyped, RowTyped, Is
<1>5. TouchedApart'
  BY <1>1, <1>2 DEF GroupInv, TouchedApart, Touched
<1>6. LinkOfGroups' /\ NoNesting' /\ LinksFit'
  <2>1. LinkOfGroups'
    BY <1>1, <1>3 DEF GroupInv, LinkOfGroups, Is
  <2>2. NoNesting'
    BY <1>1, <1>3 DEF GroupInv, NoNesting
  <2>3. LinksFit'
    BY <1>1, <1>2, <1>3 DEF GroupInv, LinksFit, Is
  <2> QED
    BY <2>1, <2>2, <2>3
<1>7. ASSUME NEW b \in Admin PROVE RequestOK(request[b])'
  <2>1. \A g \in Touched(request[b]) \ raced' : \A x \in Gid : link'[<<x, g>>] = "live" => link[<<x, g>>] = "live"
    BY <1>3, TouchedGroups
  <2>2. /\ \A g \in Gid : ~Is(g, "free") => ~Is(g, "free")' /\ group'[g].kind = group[g].kind
        /\ \A g \in Touched(request[b]) \ raced' : group'[g] = group[g]
    BY <1>1 DEF Is
  <2> QED
    BY <1>1, <1>2, <2>1, <2>2, OthersKept
<1> QED
  BY <1>4, <1>5, <1>6, <1>7 DEF GroupInv

\* A row changes, its kind does not.
LEMMA RowChanged ==
  ASSUME GroupInv, NEW g \in Gid, ~Is(g, "free"), NEW row \in Row, row.state # "free",
         row.kind = group[g].kind, row.system => row.kind = "aggregate",
         group' = [group EXCEPT ![g] = row]
  PROVE  /\ DOMAIN group' = Gid /\ \A h \in Gid : RowTyped(h)'
         /\ \A h \in Gid : ~Is(h, "free") => ~Is(h, "free")' /\ group'[h].kind = group[h].kind
         /\ group'[g] = row /\ \A h \in Gid \ {g} : group'[h] = group[h]
<1>1. DOMAIN group' = Gid /\ group'[g] = row /\ \A h \in Gid \ {g} : group'[h] = group[h]
  BY DEF GroupInv, GroupsTyped
<1>2. ASSUME NEW h \in Gid
      PROVE  RowTyped(h)' /\ (~Is(h, "free") => ~Is(h, "free")' /\ group'[h].kind = group[h].kind)
  <2>1. CASE h = g
    BY <1>1, <2>1 DEF RowTyped, Is
  <2>2. CASE h # g
    <3>1. group'[h] = group[h] /\ RowTyped(h)
      BY <1>1, <2>2 DEF GroupInv, GroupsTyped
    <3> QED
      BY <3>1 DEF RowTyped, Is
  <2> QED
    BY <2>1, <2>2
<1> QED
  BY <1>1, <1>2

LEMMA SavedKeeps ==
  ASSUME GroupInv, NEW a \in Admin, GroupSaved(a)
  PROVE  GroupInv'
<1> DEFINE r == request[a]
<1>1. r \in EditRequest /\ GroupEditOK(r) /\ r.at = "save" /\ UNCHANGED <<link, raced>> /\ Ends(a)
  BY RequestAt DEF GroupSaved
<1>2. PICK g \in Gid, row \in Row : g = r.sub /\ row = r.row
  BY <1>1 DEF EditRequest
<1>3. /\ ~Is(g, "free") /\ row.state = "live" /\ row.kind = group[g].kind
      /\ row.system => row.kind = "aggregate"
      /\ group' = [group EXCEPT ![g] = row]
  BY <1>1, <1>2 DEF GroupEditOK, GroupSaved
<1>4. /\ DOMAIN group' = Gid /\ \A h \in Gid : RowTyped(h)'
      /\ \A h \in Gid : ~Is(h, "free") => ~Is(h, "free")' /\ group'[h].kind = group[h].kind
      /\ group'[g] = row /\ \A h \in Gid \ {g} : group'[h] = group[h]
  BY <1>3, RowChanged
<1>5. /\ DOMAIN request' = Admin /\ request'[a] = IdleAdmin
      /\ \A b \in Admin \ {a} : request'[b] = request[b]
  BY <1>1 DEF Ends, GoesOn, GroupInv, GroupsTyped
<1>6. GroupsTyped'
  BY <1>1, <1>4, <1>5 DEF GroupInv, GroupsTyped
<1>7. TouchedApart'
  <2>1. Touched(IdleAdmin) = {}
    BY DEF Touched, IdleAdmin
  <2>2. request' = [request EXCEPT ![a] = IdleAdmin]
    BY <1>1 DEF Ends, GoesOn
  <2> QED
    BY <1>1, <2>1, <2>2, ApartKept
<1>8. LinkOfGroups' /\ NoNesting'
  <2>1. ASSUME NEW l \in Gid \X Gid, link'[l] # "none"
        PROVE  /\ ~Is(l[1], "free")' /\ ~Is(l[2], "free")'
               /\ group'[l[1]].kind = "aggregate" /\ group'[l[2]].kind = "standard"
    <3>1. /\ ~Is(l[1], "free") /\ ~Is(l[2], "free")
          /\ group[l[1]].kind = "aggregate" /\ group[l[2]].kind = "standard"
      BY <1>1, <2>1 DEF GroupInv, LinkOfGroups, NoNesting
    <3> QED
      BY <1>4, <3>1
  <2> QED
    BY <2>1 DEF LinkOfGroups, NoNesting
<1>9. LinksFit'
  <2>1. ASSUME NEW l \in Gid \X Gid, link[l] = "live", l[1] \notin raced, l[2] \notin raced
        PROVE  Is(l[1], "live")' /\ Is(l[2], "live")' /\ ChannelsFit(l[1], l[2])'
    <3>1. /\ Is(l[1], "live") /\ Is(l[2], "live") /\ ChannelsFit(l[1], l[2])
          /\ group[l[1]].kind = "aggregate" /\ group[l[2]].kind = "standard"
      BY <2>1 DEF GroupInv, LinksFit, NoNesting, ChannelsFit
    <3>2. g \in {l[1], l[2]} => row.channel = group[g].channel
      <4>1. g \notin raced /\ g \in {l[1], l[2]} => r.old.channel = group[g].channel
        BY <1>1, <1>2 DEF GroupEditOK
      <4>2. g = l[1] => row.channel = r.old.channel
        BY <1>1, <1>2, <1>3, <3>1 DEF GroupEditOK
      <4>3. g = l[2] => row.channel = r.old.channel
        <5>1. l = <<l[1], l[2]>> /\ l[1] \in Gid
          OBVIOUS
        <5> QED
          BY <1>1, <1>2, <2>1, <5>1 DEF GroupEditOK
      <4> QED
        BY <2>1, <4>1, <4>2, <4>3
    <3>3. group'[l[1]].channel = group[l[1]].channel /\ group'[l[2]].channel = group[l[2]].channel
      BY <1>4, <3>2
    <3>4. Is(l[1], "live")' /\ Is(l[2], "live")'
      BY <1>3, <1>4, <3>1 DEF Is
    <3> QED
      BY <3>1, <3>3, <3>4 DEF ChannelsFit
  <2> QED
    BY <1>1, <2>1 DEF LinksFit, ChannelsFit
<1>10. ASSUME NEW b \in Admin PROVE RequestOK(request[b])'
  <2>1. CASE b = a
    BY <1>5, <2>1 DEF RequestOK
  <2>2. CASE b # a
    <3>1. \A h \in Touched(request[b]) \ raced' : h # g
      <4>1. g \in Touched(r)
        BY <1>1, <1>2 DEF GroupEditOK, Touched
      <4> QED
        BY <1>1, <2>2, <4>1 DEF GroupInv, TouchedApart
    <3>2. \A h \in Touched(request[b]) \ raced' : group'[h] = group[h]
      BY <1>4, <3>1, TouchedGroups
    <3> QED
      BY <1>1, <1>4, <1>5, <2>2, <3>2, OthersKept
  <2> QED
    BY <2>1, <2>2
<1> QED
  BY <1>6, <1>7, <1>8, <1>9, <1>10 DEF GroupInv

LEMMA DeleteGroupKeeps ==
  ASSUME GroupInv, NEW a \in Admin, NEW g \in Gid, DeleteGroup(a, g)
  PROVE  GroupInv'
<1>1. /\ Is(g, "live") /\ group' = [group EXCEPT ![g].state = "gone"] /\ UNCHANGED request
      /\ link' = [l \in Gid \X Gid |-> IF g \in {l[1], l[2]} /\ link[l] = "live" THEN "gone" ELSE link[l]]
      /\ raced' = raced \cup ({g} \cap UNION {Touched(request[b]) : b \in Admin \ {a}})
      /\ request[a].at = "idle"
  BY DEF DeleteGroup, Begins
<1>2. group[g] \in Row /\ ~Is(g, "free") /\ (group[g].system => group[g].kind = "aggregate")
  BY <1>1 DEF GroupInv, GroupsTyped, RowTyped, Is
<1>3. PICK row \in Row : row = [group[g] EXCEPT !.state = "gone"] /\ row.state = "gone" /\ row.kind = group[g].kind
                         /\ (row.system => row.kind = "aggregate")
  <2> DEFINE q == [group[g] EXCEPT !.state = "gone"]
  <2>1. q \in Row /\ q.state = "gone" /\ q.kind = group[g].kind /\ q.system = group[g].system
    BY <1>2 DEF Row
  <2> HIDE DEF q
  <2>2. q.system => q.kind = "aggregate"
    BY <1>2, <2>1
  <2> QED
    BY <2>1, <2>2 DEF q
<1>4. group' = [group EXCEPT ![g] = row]
  BY <1>1, <1>3
<1>5. /\ DOMAIN group' = Gid /\ \A h \in Gid : RowTyped(h)'
      /\ \A h \in Gid : ~Is(h, "free") => ~Is(h, "free")' /\ group'[h].kind = group[h].kind
      /\ group'[g] = row /\ \A h \in Gid \ {g} : group'[h] = group[h]
  BY <1>2, <1>3, <1>4, RowChanged
<1>6. raced \subseteq raced' /\ raced' \subseteq Gid
  BY <1>1 DEF GroupInv, GroupsTyped
<1>7. /\ link' \in [Gid \X Gid -> {"none", "live", "gone"}]
      /\ \A l \in Gid \X Gid : /\ link'[l] = "live" => link[l] = "live" /\ g # l[1] /\ g # l[2]
                               /\ link'[l] # "none" => link[l] # "none"
  <2>1. ASSUME NEW l \in Gid \X Gid
        PROVE  /\ link'[l] \in {"none", "live", "gone"}
               /\ link'[l] = "live" => link[l] = "live" /\ g # l[1] /\ g # l[2]
               /\ link'[l] # "none" => link[l] # "none"
    <3>1. link'[l] = IF g \in {l[1], l[2]} /\ link[l] = "live" THEN "gone" ELSE link[l]
      BY <1>1
    <3>2. link[l] \in {"none", "live", "gone"}
      BY DEF GroupInv, GroupsTyped
    <3> QED
      BY <3>1, <3>2
  <2>2. DOMAIN link' = Gid \X Gid /\ link' = [l \in DOMAIN link' |-> link'[l]]
    BY <1>1
  <2> QED
    BY <2>1, <2>2
<1>8. GroupsTyped'
  BY <1>1, <1>5, <1>6, <1>7 DEF GroupInv, GroupsTyped
<1>9. TouchedApart'
  BY <1>1, <1>6 DEF GroupInv, TouchedApart, Touched
<1>10. LinkOfGroups' /\ NoNesting'
  <2>1. ASSUME NEW l \in Gid \X Gid, link'[l] # "none"
        PROVE  /\ ~Is(l[1], "free")' /\ ~Is(l[2], "free")'
               /\ group'[l[1]].kind = "aggregate" /\ group'[l[2]].kind = "standard"
    <3>1. /\ ~Is(l[1], "free") /\ ~Is(l[2], "free")
          /\ group[l[1]].kind = "aggregate" /\ group[l[2]].kind = "standard"
      BY <1>7, <2>1 DEF GroupInv, LinkOfGroups, NoNesting
    <3> QED
      BY <1>5, <3>1
  <2> QED
    BY <2>1 DEF LinkOfGroups, NoNesting
<1>11. LinksFit'
  <2>1. ASSUME NEW l \in Gid \X Gid, link'[l] = "live", l[1] \notin raced', l[2] \notin raced'
        PROVE  Is(l[1], "live")' /\ Is(l[2], "live")' /\ ChannelsFit(l[1], l[2])'
    <3>1. Is(l[1], "live") /\ Is(l[2], "live") /\ ChannelsFit(l[1], l[2])
      BY <1>6, <1>7, <2>1 DEF GroupInv, LinksFit, ChannelsFit
    <3>2. group'[l[1]] = group[l[1]] /\ group'[l[2]] = group[l[2]]
      BY <1>5, <1>7, <2>1
    <3> QED
      BY <3>1, <3>2 DEF Is, ChannelsFit
  <2> QED
    BY <2>1 DEF LinksFit, ChannelsFit
<1>12. ASSUME NEW b \in Admin PROVE RequestOK(request[b])'
  <2>1. \A h \in Touched(request[b]) \ raced' : h # g
    <3>1. CASE b = a
      BY <1>1, <3>1, IdleIs
    <3>2. CASE b # a
      BY <1>1, <3>2
    <3> QED
      BY <3>1, <3>2
  <2>2. \A h \in Touched(request[b]) \ raced' : group'[h] = group[h]
    BY <1>5, <2>1, TouchedGroups
  <2>3. \A h \in Touched(request[b]) \ raced' : \A x \in Gid : link'[<<x, h>>] = "live" => link[<<x, h>>] = "live"
    BY <1>7, TouchedGroups
  <2> QED
    BY <1>1, <1>5, <1>6, <2>2, <2>3, OthersKept
<1> QED
  BY <1>8, <1>9, <1>10, <1>11, <1>12 DEF GroupInv

LEMMA GroupInitial == GroupInit => GroupInv
<1> SUFFICES ASSUME GroupInit PROVE GroupInv
  OBVIOUS
<1>1. GroupsTyped
  BY DEF GroupInit, GroupsTyped, RowTyped, Is
<1>2. \A a \in Admin : RequestOK(request[a]) /\ Touched(request[a]) = {}
  BY DEF GroupInit, RequestOK, Touched, IdleAdmin
<1>3. TouchedApart /\ LinkOfGroups /\ NoNesting /\ LinksFit
  BY <1>2 DEF GroupInit, TouchedApart, LinkOfGroups, NoNesting, LinksFit
<1> QED
  BY <1>1, <1>2, <1>3 DEF GroupInv

LEMMA GroupStep == GroupInv /\ [GroupNext]_groupVars => GroupInv'
<1> SUFFICES ASSUME GroupInv, [GroupNext]_groupVars PROVE GroupInv'
  OBVIOUS
<1>1. CASE UNCHANGED groupVars
  <2>1. UNCHANGED <<group, link, request, raced>>
    BY <1>1 DEF groupVars
  <2>2. GroupsTyped' /\ TouchedApart'
    BY <2>1 DEF GroupInv, GroupsTyped, RowTyped, Is, TouchedApart, Touched
  <2>3. LinkOfGroups' /\ NoNesting' /\ LinksFit'
    BY <2>1 DEF GroupInv, LinkOfGroups, NoNesting, LinksFit, Is
  <2>4. ASSUME NEW a \in Admin PROVE RequestOK(request[a])'
    BY <2>1 DEF GroupInv, RequestOK, JoinOK, LinkOK, GroupEditOK, ChannelsFit, Is
  <2> QED
    BY <2>2, <2>3, <2>4 DEF GroupInv
<1>2. ASSUME NEW a \in Admin, RequestFails(a) PROVE GroupInv'
  BY <1>2, EndsKeeps DEF RequestFails, GroupInv, GroupsTyped
<1> QED
  BY <1>1, <1>2, CreateGroupKeeps, CopyGroupKeeps, EnsureKeeps, AddSubGroupsKeeps, BackfillKeeps,
     AutoJoinKeeps, ValidateKeeps, InsertedKeeps, DeleteSubGroupKeeps, UpdateGroupKeeps, CountKeeps,
     SavedKeeps, DeleteGroupKeeps DEF GroupNext

--------------------------------------------------------------------------
(* Aliases *)

AliasName == Movable \cup {ReservedName}
AliasTargets == AliasTarget \cup {Nowhere}
GroupList == [specified : BOOLEAN, exposed : SUBSET AliasModel, blocked : SUBSET AliasModel]

AliasesTyped ==
    /\ aliasId \in 0 .. MaxAliasRows /\ DOMAIN aliasRows \subseteq 1 .. aliasId
    /\ aliasRows \in [DOMAIN aliasRows -> AliasRow]
    /\ pool \in [DOMAIN aliasRows -> 0 .. aliasId]
    /\ boot \in {"placeholder", "legacy", "seed", "done"} /\ unseated \in BOOLEAN
    /\ overlap \subseteq {"pools", "lists"}

\* A row without a target is a placeholder; one of the old name is still there only in a
\* database in which nobody has yet worked.
PlaceholdersOnly ==
    /\ \A i \in DOMAIN aliasRows : aliasRows[i].target = Nowhere =>
         \/ aliasRows[i] = Reserved(ReservedName)
         \/ aliasRows[i] = Reserved(LegacyName) /\ boot \in {"placeholder", "legacy"}
    /\ \A i \in DOMAIN aliasRows : aliasRows[i].reserved /\ ~unseated => aliasRows[i].target = Nowhere
    /\ (\E i \in DOMAIN aliasRows : aliasRows[i] = Reserved(LegacyName)) =>
         Distinct(aliasRows) /\ \A i \in DOMAIN aliasRows : aliasRows[i].alias = LegacyName
    /\ boot = "done" /\ ~unseated => Seated

PoolsApart ==
    "pools" \notin overlap =>
      \A a, b \in Movable : \A i \in CandidatesOf(a), j \in CandidatesOf(b) : a = b <=> pool[i] = pool[j]

RowsInv == AliasesTyped /\ PlaceholdersOnly /\ PoolsApart

ListsInv ==
    /\ lists \in [AliasGroup -> GroupList] /\ promised \in [AliasGroup -> SUBSET AliasModel]
    /\ "lists" \notin overlap => \A g \in AliasGroup : promised[g] \subseteq lists[g].exposed \ lists[g].blocked

\* What a request has read, and what of it still holds unless another one wrote.
ReplaceOK(r) ==
    /\ DOMAIN r.seen \subseteq 1 .. aliasId
    /\ \A i \in DOMAIN r.seen \cap DOMAIN aliasRows : aliasRows[i].target # Nowhere
RenameOK(r) ==
    ~r.stale => CandidatesOf(r.to) = {}
ExposeOK(r) ==
    /\ r.target.model \notin lists[r.target.group].blocked
    /\ ~r.stale => r.seen = lists[r.target.group].exposed
UpdateOK(r) ==
    ~r.stale => r.seen = lists[r.group].exposed

Seen == UNION {[ids -> AliasTarget] : ids \in SUBSET (1 .. MaxAliasRows)}
ReplaceEdit == [at : {"replace"}, stale : BOOLEAN, alias : AliasName, want : SUBSET AliasTarget, seen : Seen]
RenameEdit == [at : {"rename"}, stale : BOOLEAN, from : Movable, to : Movable]
ExposeEdit == [at : {"expose"}, stale : BOOLEAN, target : AliasTarget, seen : SUBSET AliasModel]
UpdateEdit == [at : {"update"}, stale : BOOLEAN, group : AliasGroup, seen : SUBSET AliasModel]
EditTyped(r) == r \in ReplaceEdit \/ r \in RenameEdit \/ r \in ExposeEdit \/ r \in UpdateEdit \/ r = NoEdit
EditOK(r) ==
    /\ r.at = "replace" => ReplaceOK(r)
    /\ r.at = "rename" => RenameOK(r)
    /\ r.at = "expose" => ExposeOK(r)
    /\ r.at = "update" => UpdateOK(r)

EditsInv ==
    /\ DOMAIN edit = Editor
    /\ \A e \in Editor : EditTyped(edit[e]) /\ EditOK(edit[e])
    /\ boot # "done" => \A e \in Editor : edit[e] = NoEdit

AliasInv == RowsInv /\ ListsInv /\ EditsInv

LEMMA AliasNames ==
  /\ Movable \subseteq AliasName /\ LegacyName # ReservedName
  /\ ReservedName \notin Movable
  BY AliasAssumption DEF AliasName, Movable, LegacyName, ReservedName

LEMMA AliasConstants ==
  /\ AliasTarget # {} /\ IsFiniteSet(AliasTarget) /\ Nowhere \notin AliasTarget
  /\ MaxAliasRows \in Nat /\ MaxAliasRows >= 2
  /\ LegacyName \in Movable /\ Movable \subseteq AliasName /\ ReservedName \in AliasName
  /\ LegacyName # ReservedName
  /\ Reserved(ReservedName) # Reserved(LegacyName)
  /\ \A a : Reserved(a).target = Nowhere /\ Reserved(a).alias = a /\ Reserved(a).reserved
<1>1. Nowhere \notin AliasTarget
  BY AliasAssumption DEF Nowhere
<1>2. LegacyName # ReservedName
  BY DEF LegacyName, ReservedName
<1> QED
  BY <1>1, <1>2, AliasAssumption DEF AliasName, Movable, Reserved

LEMMA CandidateIs ==
  ASSUME NEW a \in AliasName, NEW t \in AliasTarget
  PROVE  /\ Candidate(a, t) \in AliasRow
         /\ Candidate(a, t).alias = a /\ Candidate(a, t).target = t /\ ~Candidate(a, t).reserved
         /\ Candidate(a, t).target # Nowhere
  BY AliasConstants DEF Candidate, AliasRow, AliasName

\* The targets of new candidates, in some order.
LEMMA NewTargets ==
  ASSUME NEW n \in Nat, NEW ts, IsFiniteSet(ts)
  PROVE  /\ Cardinality(ts) \in Nat
         /\ LET ids == n + 1 .. n + Cardinality(ts)
                at == CHOOSE f \in [ids -> ts] : \A t \in ts : \E i \in ids : f[i] = t
            IN  at \in [ids -> ts]
<1> DEFINE m == Cardinality(ts)
           ids == n + 1 .. n + m
<1>1. m \in Nat /\ ExistsBijection(1 .. m, ts)
  BY FS_CardinalityType
<1> HIDE DEF m
<1>2. PICK f \in Bijection(1 .. m, ts) : TRUE
  BY <1>1 DEF ExistsBijection
<1>3. f \in [1 .. m -> ts] /\ \A t \in ts : \E i \in 1 .. m : f[i] = t
  BY <1>2 DEF Bijection, Injection, Surjection
<1> DEFINE g == [i \in ids |-> f[i - n]]
<1>4. \A i \in ids : i - n \in 1 .. m
  BY <1>1
<1>5. g \in [ids -> ts]
  BY <1>3, <1>4
<1>6. \A t \in ts : \E i \in ids : g[i] = t
  <2>1. SUFFICES ASSUME NEW t \in ts PROVE \E i \in ids : g[i] = t
    OBVIOUS
  <2>2. PICK i \in 1 .. m : f[i] = t
    BY <1>3
  <2>3. i + n \in ids /\ (i + n) - n = i
    BY <1>1, <2>2
  <2> QED
    BY <2>2, <2>3
<1>7. \E h \in [ids -> ts] : \A t \in ts : \E i \in ids : h[i] = t
  BY <1>5, <1>6
<1>8. (CHOOSE h \in [ids -> ts] : \A t \in ts : \E i \in ids : h[i] = t) \in [ids -> ts]
  BY <1>7
<1> QED
  BY <1>1, <1>8 DEF m

RowsWith(all, rs, a, ts) ==
  LET new == aliasId + 1 .. aliasId + Cardinality(ts) IN
  /\ Cardinality(ts) \in Nat
  /\ DOMAIN all = DOMAIN rs \cup new
  /\ \A i \in new : \E t \in AliasTarget : all[i] = Candidate(a, t)
  /\ \A i \in DOMAIN rs \ new : all[i] = rs[i]
  /\ all = [i \in DOMAIN rs \cup new |-> all[i]]

LEMMA InsertedIs ==
  ASSUME aliasId \in Nat, NEW rs, NEW a \in AliasName, NEW ts \in SUBSET AliasTarget
  PROVE  RowsWith(Inserted(rs, a, ts), rs, a, ts)
<1> DEFINE ids == aliasId + 1 .. aliasId + Cardinality(ts)
           at == CHOOSE f \in [ids -> ts] : \A t \in ts : \E i \in ids : f[i] = t
<1>1. IsFiniteSet(ts)
  BY AliasConstants, FS_Subset
<1>2. Cardinality(ts) \in Nat /\ at \in [ids -> ts]
  BY <1>1, NewTargets
<1>3. Inserted(rs, a, ts) = [i \in DOMAIN rs \cup ids |-> IF i \in ids THEN Candidate(a, at[i]) ELSE rs[i]]
  BY DEF Inserted
<1> HIDE DEF at
<1>4. \A i \in ids : at[i] \in AliasTarget
  BY <1>2
<1> QED
  BY <1>2, <1>3, <1>4 DEF RowsWith

--------------------------------------------------------------------------

LEMMA CandidatesIn ==
  ASSUME NEW a, NEW i
  PROVE  /\ i \in CandidatesOf(a) <=>
              i \in DOMAIN aliasRows /\ aliasRows[i].alias = a /\ aliasRows[i].target # Nowhere
         /\ i \in CandidatesOf(a)' <=>
              i \in DOMAIN aliasRows' /\ aliasRows'[i].alias = a /\ aliasRows'[i].target # Nowhere
  BY DEF CandidatesOf

\* Where no candidate comes to a pool, pools stay apart.
LEMMA PoolsApartKept ==
  ASSUME PoolsApart, overlap \subseteq overlap',
         \A a \in Movable : \A i \in CandidatesOf(a)' : i \in CandidatesOf(a) /\ pool'[i] = pool[i]
  PROVE  PoolsApart'
<1>1. SUFFICES ASSUME "pools" \notin overlap', NEW a \in Movable, NEW b \in Movable,
                      NEW i \in CandidatesOf(a)', NEW j \in CandidatesOf(b)'
               PROVE  a = b <=> pool'[i] = pool'[j]
  BY DEF PoolsApart
<1>2. i \in CandidatesOf(a) /\ pool'[i] = pool[i] /\ j \in CandidatesOf(b) /\ pool'[j] = pool[j]
  OBVIOUS
<1> QED
  BY <1>1, <1>2 DEF PoolsApart

\* When the service runs, the placeholder is that of the reserved name.
LEMMA RunningPlaceholder ==
  ASSUME RowsInv, boot = "done", NEW i \in DOMAIN aliasRows
  PROVE  /\ aliasRows[i].target = Nowhere => aliasRows[i] = Reserved(ReservedName)
         /\ aliasRows[i] # Reserved(LegacyName)
  BY AliasConstants DEF RowsInv, PlaceholdersOnly

\* A placeholder stays where the rows that have none to lose change.
LEMMA SeatKept ==
  ASSUME RowsInv, boot = "done", boot' = "done", unseated \in BOOLEAN, unseated => unseated',
         \A i \in DOMAIN aliasRows :
           aliasRows[i] = Reserved(ReservedName) =>
             unseated' \/ (i \in DOMAIN aliasRows' /\ aliasRows'[i] = aliasRows[i]),
         \A i \in DOMAIN aliasRows' :
           \/ i \in DOMAIN aliasRows /\ aliasRows'[i] = aliasRows[i]
           \/ /\ aliasRows'[i].target # Nowhere
              /\ aliasRows'[i].reserved =>
                   i \in DOMAIN aliasRows /\ aliasRows[i].reserved
                   /\ (aliasRows[i].target = Nowhere => unseated')
  PROVE  PlaceholdersOnly'
<1>1. \A i \in DOMAIN aliasRows' : aliasRows'[i].target = Nowhere => aliasRows'[i] = Reserved(ReservedName)
  BY RunningPlaceholder
<1>2. \A i \in DOMAIN aliasRows' : aliasRows'[i].reserved /\ ~unseated' => aliasRows'[i].target = Nowhere
  BY DEF RowsInv, PlaceholdersOnly
<1>3. \A i \in DOMAIN aliasRows' : aliasRows'[i] # Reserved(LegacyName)
  BY RunningPlaceholder, AliasConstants
<1>4. ~unseated' => Seated'
  <2>1. SUFFICES ASSUME ~unseated' PROVE Seated'
    OBVIOUS
  <2>2. PICK i \in DOMAIN aliasRows : aliasRows[i] = Reserved(ReservedName)
    BY <2>1 DEF RowsInv, PlaceholdersOnly, Seated
  <2>3. i \in DOMAIN aliasRows' /\ aliasRows'[i] = Reserved(ReservedName)
    BY <2>1, <2>2
  <2> QED
    BY <2>3 DEF Seated
<1> QED
  BY <1>1, <1>2, <1>3, <1>4 DEF PlaceholdersOnly

\* New candidates of one name, after some were dropped.
LEMMA InsertKeeps ==
  ASSUME RowsInv, boot = "done", boot' = "done", unseated' = unseated, overlap \subseteq overlap',
         overlap' \subseteq {"pools", "lists"},
         NEW rs, DOMAIN rs \subseteq DOMAIN aliasRows,
         \A i \in DOMAIN rs : rs[i] = aliasRows[i],
         \A i \in DOMAIN aliasRows \ DOMAIN rs : aliasRows[i].target # Nowhere,
         NEW a \in AliasName, NEW ts \in SUBSET AliasTarget, aliasId + Cardinality(ts) <= MaxAliasRows,
         aliasRows' = Inserted(rs, a, ts), pool' = Joined(Inserted(rs, a, ts), a),
         aliasId' = aliasId + Cardinality(ts)
  PROVE  RowsInv'
<1> DEFINE new == aliasId + 1 .. aliasId + Cardinality(ts)
           n == Cardinality(ts)
<1>0. aliasId \in 0 .. MaxAliasRows /\ DOMAIN aliasRows \subseteq 1 .. aliasId /\ MaxAliasRows \in Nat
  BY AliasConstants DEF RowsInv, AliasesTyped
<1>1. /\ n \in Nat /\ DOMAIN aliasRows' = DOMAIN rs \cup new
      /\ \A i \in new : \E t \in AliasTarget : aliasRows'[i] = Candidate(a, t)
      /\ \A i \in DOMAIN rs \ new : aliasRows'[i] = rs[i]
      /\ aliasRows' = [i \in DOMAIN aliasRows' |-> aliasRows'[i]]
  <2> DEFINE all == Inserted(rs, a, ts)
  <2>1. aliasId \in Nat
    BY <1>0
  <2>2. /\ n \in Nat /\ DOMAIN all = DOMAIN rs \cup new
        /\ \A i \in new : \E t \in AliasTarget : all[i] = Candidate(a, t)
        /\ \A i \in DOMAIN rs \ new : all[i] = rs[i]
        /\ all = [i \in DOMAIN rs \cup new |-> all[i]]
    <3>1. RowsWith(all, rs, a, ts)
      BY <2>1, InsertedIs
    <3> QED
      BY <3>1, Zenon DEF RowsWith
  <2>3. aliasRows' = all
    OBVIOUS
  <2> HIDE DEF all, new, n
  <2> QED
    BY <2>2, <2>3
<1>2. new \cap DOMAIN aliasRows = {}
  BY <1>0, <1>1
<1>3. \A i \in new : /\ aliasRows'[i] \in AliasRow /\ aliasRows'[i].alias = a
                      /\ aliasRows'[i].target # Nowhere /\ ~aliasRows'[i].reserved
  BY <1>1, CandidateIs
<1>4. \A i \in DOMAIN rs : i \notin new /\ i \in DOMAIN aliasRows /\ aliasRows'[i] = aliasRows[i]
  BY <1>1, <1>2
<1>5. /\ pool' = [i \in DOMAIN aliasRows' |-> pool'[i]]
      /\ \A i \in DOMAIN rs : pool'[i] = pool[i]
      /\ \A i \in new :
           \/ CandidatesOf(a) = {} /\ pool'[i] = aliasId + 1
           \/ \E j \in CandidatesOf(a) : pool'[i] = pool[j]
  <2>1. DOMAIN pool = DOMAIN aliasRows
    BY DEF RowsInv, AliasesTyped
  <2>2. pool' = [i \in DOMAIN aliasRows' |-> IF i \in DOMAIN pool THEN pool[i]
                                             ELSE IF CandidatesOf(a) = {} THEN aliasId + 1
                                             ELSE pool[CHOOSE j \in CandidatesOf(a) : TRUE]]
    BY DEF Joined
  <2>3. CandidatesOf(a) # {} => (CHOOSE j \in CandidatesOf(a) : TRUE) \in CandidatesOf(a)
    OBVIOUS
  <2>4. \A i \in new : i \in DOMAIN aliasRows' /\ i \notin DOMAIN pool
    BY <1>1, <1>2, <2>1
  <2>5. \A i \in DOMAIN rs : i \in DOMAIN aliasRows' /\ i \in DOMAIN pool
    BY <1>1, <2>1
  <2> HIDE DEF new
  <2> QED
    BY <2>2, <2>3, <2>4, <2>5
<1>6. \A j \in CandidatesOf(a) : j \in DOMAIN aliasRows
  BY CandidatesIn
<1>7. AliasesTyped'
  <2>1. aliasId' \in 0 .. MaxAliasRows /\ aliasId <= aliasId'
    BY <1>0, <1>1
  <2>2. DOMAIN aliasRows' \subseteq 1 .. aliasId'
    BY <1>0, <1>1
  <2>3. \A i \in DOMAIN aliasRows' : aliasRows'[i] \in AliasRow
    BY <1>1, <1>3, <1>4 DEF RowsInv, AliasesTyped
  <2>4. \A i \in DOMAIN aliasRows' : pool'[i] \in 0 .. aliasId'
    <3>1. \A i \in DOMAIN aliasRows : pool[i] \in 0 .. aliasId'
      BY <1>0, <2>1 DEF RowsInv, AliasesTyped
    <3>2. \A i \in new : pool'[i] \in 0 .. aliasId'
      <4>1. new # {} => aliasId + 1 \in 0 .. aliasId'
        BY <1>0, <1>1
      <4> QED
        BY <1>5, <1>6, <3>1, <4>1
    <3> QED
      BY <1>1, <1>4, <1>5, <3>1, <3>2
  <2> HIDE DEF new
  <2>5. aliasRows' \in [DOMAIN aliasRows' -> AliasRow]
    BY <1>1, <2>3
  <2>6. pool' \in [DOMAIN aliasRows' -> 0 .. aliasId']
    BY <1>5, <2>4
  <2> QED
    BY <2>1, <2>2, <2>5, <2>6 DEF RowsInv, AliasesTyped
<1>8. PlaceholdersOnly'
  <2>0. unseated \in BOOLEAN
    BY DEF RowsInv, AliasesTyped
  <2>1. \A i \in DOMAIN aliasRows : aliasRows[i] = Reserved(ReservedName) => i \in DOMAIN rs
    BY AliasConstants
  <2> HIDE DEF new
  <2>2. \A i \in DOMAIN aliasRows :
           aliasRows[i] = Reserved(ReservedName) => i \in DOMAIN aliasRows' /\ aliasRows'[i] = aliasRows[i]
    BY <1>1, <1>4, <2>1
  <2>3. \A i \in DOMAIN aliasRows' :
           \/ i \in DOMAIN aliasRows /\ aliasRows'[i] = aliasRows[i]
           \/ aliasRows'[i].target # Nowhere /\ ~aliasRows'[i].reserved
    BY <1>1, <1>3, <1>4
  <2> QED
    BY <2>0, <2>2, <2>3, SeatKept
<1>9. PoolsApart'
  <2>1. SUFFICES ASSUME "pools" \notin overlap', NEW b \in Movable, NEW c \in Movable,
                        NEW i \in CandidatesOf(b)', NEW j \in CandidatesOf(c)'
                 PROVE  b = c <=> pool'[i] = pool'[j]
    BY DEF PoolsApart
  <2>2. \A k \in DOMAIN aliasRows' : aliasRows'[k].target # Nowhere =>
          \/ k \in new /\ aliasRows'[k].alias = a
          \/ /\ k \in DOMAIN rs /\ pool'[k] = pool[k]
             /\ \A d : d = aliasRows'[k].alias => k \in CandidatesOf(d)
    <3> HIDE DEF new
    <3> QED
      BY <1>1, <1>3, <1>4, <1>5 DEF CandidatesOf
  <2>a. \/ i \in new /\ b = a
        \/ i \in CandidatesOf(b) /\ pool'[i] = pool[i]
    <3> HIDE DEF new
    <3>1. i \in DOMAIN aliasRows' /\ aliasRows'[i].alias = b /\ aliasRows'[i].target # Nowhere
      BY CandidatesIn
    <3> QED
      BY <2>2, <3>1
  <2>b. \/ j \in new /\ c = a
        \/ j \in CandidatesOf(c) /\ pool'[j] = pool[j]
    <3> HIDE DEF new
    <3>1. j \in DOMAIN aliasRows' /\ aliasRows'[j].alias = c /\ aliasRows'[j].target # Nowhere
      BY CandidatesIn
    <3> QED
      BY <2>2, <3>1
  <2>3. \A d, e \in Movable : \A k \in CandidatesOf(d), l \in CandidatesOf(e) : d = e <=> pool[k] = pool[l]
    BY <2>1 DEF RowsInv, PoolsApart
  <2>4. \A k \in DOMAIN aliasRows : pool[k] # aliasId + 1
    BY <1>0 DEF RowsInv, AliasesTyped
  <2>5. \A d, k : k \in CandidatesOf(d) => pool[k] # aliasId + 1
    BY <2>4, CandidatesIn
  <2> HIDE DEF new
  <2>6. CASE i \in new /\ b = a
    <3>1. CASE j \in new /\ c = a
      <4>1. CASE CandidatesOf(a) = {}
        BY <1>5, <2>6, <3>1, <4>1
      <4>2. CASE CandidatesOf(a) # {}
        BY <1>5, <2>3, <2>6, <3>1, <4>2
      <4> QED
        BY <4>1, <4>2
    <3>2. CASE j \in CandidatesOf(c) /\ pool'[j] = pool[j]
      <4>1. CASE CandidatesOf(a) = {}
        <5>1. c # a
          BY <3>2, <4>1
        <5> QED
          BY <1>5, <2>5, <2>6, <3>2, <4>1, <5>1
      <4>2. CASE CandidatesOf(a) # {}
        BY <1>5, <2>3, <2>6, <3>2, <4>2
      <4> QED
        BY <4>1, <4>2
    <3> QED
      BY <2>b, <3>1, <3>2
  <2>7. CASE i \in CandidatesOf(b) /\ pool'[i] = pool[i]
    <3>1. CASE j \in new /\ c = a
      <4>1. CASE CandidatesOf(a) = {}
        <5>1. b # a
          BY <2>7, <4>1
        <5> QED
          BY <1>5, <2>5, <2>7, <3>1, <4>1, <5>1
      <4>2. CASE CandidatesOf(a) # {}
        BY <1>5, <2>3, <2>7, <3>1, <4>2
      <4> QED
        BY <4>1, <4>2
    <3>2. CASE j \in CandidatesOf(c) /\ pool'[j] = pool[j]
      BY <2>3, <2>7, <3>2
    <3> QED
      BY <2>b, <3>1, <3>2
  <2> QED
    BY <2>a, <2>6, <2>7
<1> QED
  BY <1>7, <1>8, <1>9 DEF RowsInv

LEMMA AliasRowChanged ==
  ASSUME RowsInv, NEW i \in DOMAIN aliasRows, NEW t \in AliasTarget, boot = "done", boot' = "done",
         aliasRows' = [aliasRows EXCEPT ![i].target = t], UNCHANGED <<aliasId, pool, overlap>>,
         unseated' \in BOOLEAN, unseated => unseated', aliasRows[i] = Reserved(ReservedName) => unseated'
  PROVE  RowsInv'
<1>1. /\ DOMAIN aliasRows' = DOMAIN aliasRows
      /\ \A j \in DOMAIN aliasRows \ {i} : aliasRows'[j] = aliasRows[j]
      /\ aliasRows'[i] = [aliasRows[i] EXCEPT !.target = t]
  OBVIOUS
<1>2. aliasRows[i] \in AliasRow /\ unseated \in BOOLEAN
  BY DEF RowsInv, AliasesTyped
<1>3. /\ aliasRows'[i] \in AliasRow /\ aliasRows'[i].alias = aliasRows[i].alias
      /\ aliasRows'[i].reserved = aliasRows[i].reserved /\ aliasRows'[i].target = t /\ t # Nowhere
  BY <1>1, <1>2, AliasConstants DEF AliasRow
<1>4. AliasesTyped'
  BY <1>1, <1>3 DEF RowsInv, AliasesTyped
<1>5. PlaceholdersOnly'
  <2>1. \A j \in DOMAIN aliasRows :
          aliasRows[j] = Reserved(ReservedName) => unseated' \/ (j \in DOMAIN aliasRows' /\ aliasRows'[j] = aliasRows[j])
    BY <1>1
  <2>2. aliasRows[i].target = Nowhere => unseated'
    BY RunningPlaceholder
  <2>3. unseated => unseated'
    OBVIOUS
  <2> QED
    BY <1>1, <1>2, <1>3, <2>1, <2>2, <2>3, SeatKept
<1>6. PoolsApart'
  <2>1. ASSUME NEW a \in Movable, NEW j \in CandidatesOf(a)'
        PROVE  j \in CandidatesOf(a) /\ pool'[j] = pool[j]
    <3>1. j \in DOMAIN aliasRows' /\ aliasRows'[j].alias = a /\ aliasRows'[j].target # Nowhere
      BY CandidatesIn
    <3>2. CASE j = i
      <4>1. aliasRows[i].target = Nowhere => aliasRows[i].alias = ReservedName
        BY RunningPlaceholder, AliasConstants
      <4>2. ReservedName \notin Movable
        BY AliasNames
      <4> QED
        BY <1>3, <3>1, <3>2, <4>1, <4>2, CandidatesIn
    <3>3. CASE j # i
      BY <1>1, <3>1, <3>3, CandidatesIn
    <3> QED
      BY <3>2, <3>3
  <2> QED
    BY <2>1, PoolsApartKept DEF RowsInv
<1> QED
  BY <1>4, <1>5, <1>6 DEF RowsInv

\* Some rows go, and their pools with them.
LEMMA RowsWithout ==
  ASSUME RowsInv, NEW ids, aliasRows' = Without(aliasRows, ids), pool' = Without(pool, ids),
         UNCHANGED <<aliasId, overlap, unseated>>, boot' \in {"placeholder", "legacy", "seed", "done"}
  PROVE  /\ AliasesTyped' /\ PoolsApart'
         /\ DOMAIN aliasRows' = DOMAIN aliasRows \ ids
         /\ \A j \in DOMAIN aliasRows' : aliasRows'[j] = aliasRows[j]
<1>1. DOMAIN pool = DOMAIN aliasRows
  BY DEF RowsInv, AliasesTyped
<1>2. /\ aliasRows' = [j \in DOMAIN aliasRows \ ids |-> aliasRows[j]]
      /\ pool' = [j \in DOMAIN aliasRows \ ids |-> pool[j]]
  BY <1>1 DEF Without
<1>3. AliasesTyped'
  BY <1>2 DEF RowsInv, AliasesTyped
<1>4. ASSUME NEW a \in Movable, NEW j \in CandidatesOf(a)'
      PROVE  j \in CandidatesOf(a) /\ pool'[j] = pool[j]
  <2>1. j \in DOMAIN aliasRows' /\ aliasRows'[j].alias = a /\ aliasRows'[j].target # Nowhere
    BY CandidatesIn
  <2> QED
    BY <1>2, <2>1, CandidatesIn
<1>5. PoolsApart'
  BY <1>4, PoolsApartKept DEF RowsInv
<1> QED
  BY <1>2, <1>3, <1>5

LEMMA RowDeleted ==
  ASSUME RowsInv, NEW i \in DOMAIN aliasRows, Deletable(aliasRows[i]), boot = "done", boot' = "done",
         aliasRows' = Without(aliasRows, {i}), pool' = Without(pool, {i}),
         UNCHANGED <<aliasId, overlap, unseated>>
  PROVE  RowsInv'
<1>1. /\ AliasesTyped' /\ PoolsApart' /\ DOMAIN aliasRows' = DOMAIN aliasRows \ {i}
      /\ \A j \in DOMAIN aliasRows' : aliasRows'[j] = aliasRows[j]
  BY RowsWithout
<1>2. aliasRows[i] # Reserved(ReservedName) /\ unseated \in BOOLEAN
  BY AliasConstants DEF Deletable, RowsInv, AliasesTyped
<1>3. PlaceholdersOnly'
  BY <1>1, <1>2, SeatKept
<1> QED
  BY <1>1, <1>3 DEF RowsInv

\* A pool is moved to a name that has none.
LEMMA PoolRenamed ==
  ASSUME RowsInv, boot = "done", boot' = "done", NEW from \in Movable, NEW to \in Movable,
         aliasRows' = [i \in DOMAIN aliasRows |-> IF i \in CandidatesOf(from)
                                                  THEN [aliasRows[i] EXCEPT !.alias = to] ELSE aliasRows[i]],
         UNCHANGED <<aliasId, pool, unseated>>, overlap \subseteq overlap', overlap' \subseteq {"pools", "lists"},
         CandidatesOf(to) = {} \/ "pools" \in overlap'
  PROVE  RowsInv'
<1>1. /\ DOMAIN aliasRows' = DOMAIN aliasRows
      /\ \A j \in DOMAIN aliasRows : aliasRows[j] \in AliasRow
      /\ \A j \in CandidatesOf(from) : j \in DOMAIN aliasRows /\ aliasRows[j].target # Nowhere
      /\ \A j \in CandidatesOf(from) : aliasRows'[j] = [aliasRows[j] EXCEPT !.alias = to]
      /\ \A j \in DOMAIN aliasRows \ CandidatesOf(from) : aliasRows'[j] = aliasRows[j]
  BY DEF RowsInv, AliasesTyped, CandidatesOf
<1>2. to \in AliasName
  BY AliasConstants
<1>3. \A j \in CandidatesOf(from) :
        /\ aliasRows'[j] \in AliasRow /\ aliasRows'[j].alias = to
        /\ aliasRows'[j].target = aliasRows[j].target /\ aliasRows'[j].reserved = aliasRows[j].reserved
  BY <1>1, <1>2 DEF AliasRow, AliasName
<1>4. AliasesTyped'
  BY <1>1, <1>3 DEF RowsInv, AliasesTyped
<1>5. PlaceholdersOnly'
  <2>1. unseated \in BOOLEAN
    BY DEF RowsInv, AliasesTyped
  <2>2. \A j \in DOMAIN aliasRows : aliasRows[j] = Reserved(ReservedName) => j \notin CandidatesOf(from)
    BY <1>1, AliasConstants
  <2> QED
    BY <1>1, <1>3, <2>1, <2>2, SeatKept
<1>6. ASSUME "pools" \notin overlap' PROVE PoolsApart'
  <2>1. CandidatesOf(to) = {}
    BY <1>6
  <2>2. \A j \in DOMAIN aliasRows' : aliasRows'[j].target # Nowhere =>
          \/ j \in CandidatesOf(from) /\ aliasRows'[j].alias = to
          \/ /\ j \notin CandidatesOf(from) /\ aliasRows'[j] = aliasRows[j]
             /\ \A d : d = aliasRows'[j].alias => j \in CandidatesOf(d)
    BY <1>1, <1>3, CandidatesIn
  <2>3. SUFFICES ASSUME NEW a \in Movable, NEW b \in Movable, NEW i \in CandidatesOf(a)', NEW j \in CandidatesOf(b)'
                 PROVE  a = b <=> pool[i] = pool[j]
    BY DEF PoolsApart
  <2>4. /\ i \in DOMAIN aliasRows' /\ aliasRows'[i].alias = a /\ aliasRows'[i].target # Nowhere
        /\ j \in DOMAIN aliasRows' /\ aliasRows'[j].alias = b /\ aliasRows'[j].target # Nowhere
    BY CandidatesIn
  <2>a. \/ i \in CandidatesOf(from) /\ a = to
        \/ i \notin CandidatesOf(from) /\ i \in CandidatesOf(a) /\ a # to
    BY <2>1, <2>2, <2>4
  <2>b. \/ j \in CandidatesOf(from) /\ b = to
        \/ j \notin CandidatesOf(from) /\ j \in CandidatesOf(b) /\ b # to
    BY <2>1, <2>2, <2>4
  <2>6. \A d, e \in Movable : \A k \in CandidatesOf(d), l \in CandidatesOf(e) : d = e <=> pool[k] = pool[l]
    BY <1>6 DEF RowsInv, PoolsApart
  <2>7. i \notin CandidatesOf(from) => a # from
    BY <2>a
  <2>8. j \notin CandidatesOf(from) => b # from
    BY <2>b
  <2> QED
    BY <2>a, <2>b, <2>6, <2>7, <2>8
<1>7. PoolsApart'
  BY <1>6 DEF PoolsApart
<1> QED
  BY <1>4, <1>5, <1>7 DEF RowsInv

\* Seeding at the start.
LEMMA DropKeepsRows == RowsInv /\ PlaceholderDropped => RowsInv'
<1> SUFFICES ASSUME RowsInv, PlaceholderDropped PROVE RowsInv'
  OBVIOUS
<1> DEFINE old == {i \in DOMAIN aliasRows : Seated /\ aliasRows[i] = Reserved(LegacyName)}
<1>1. aliasRows' = Without(aliasRows, old) /\ pool' = Without(pool, old) /\ boot' = "legacy"
      /\ UNCHANGED <<aliasId, overlap, unseated>>
  BY DEF PlaceholderDropped
<1> HIDE DEF old
<1>2. /\ AliasesTyped' /\ PoolsApart' /\ DOMAIN aliasRows' = DOMAIN aliasRows \ old
      /\ \A j \in DOMAIN aliasRows' : aliasRows'[j] = aliasRows[j]
  BY <1>1, RowsWithout
<1>3. \A i \in DOMAIN aliasRows' : aliasRows'[i].target = Nowhere =>
        aliasRows'[i] = Reserved(ReservedName) \/ aliasRows'[i] = Reserved(LegacyName)
  BY <1>2 DEF RowsInv, PlaceholdersOnly
<1>4. \A i \in DOMAIN aliasRows' : aliasRows'[i].reserved /\ ~unseated' => aliasRows'[i].target = Nowhere
  BY <1>1, <1>2 DEF RowsInv, PlaceholdersOnly
<1>5. ASSUME NEW i \in DOMAIN aliasRows', aliasRows'[i] = Reserved(LegacyName)
      PROVE  Distinct(aliasRows') /\ \A j \in DOMAIN aliasRows' : aliasRows'[j].alias = LegacyName
  <2>1. Distinct(aliasRows) /\ \A j \in DOMAIN aliasRows : aliasRows[j].alias = LegacyName
    BY <1>2, <1>5 DEF RowsInv, PlaceholdersOnly
  <2> QED
    BY <1>2, <2>1 DEF Distinct
<1> QED
  BY <1>1, <1>2, <1>3, <1>4, <1>5 DEF RowsInv, PlaceholdersOnly

LEMMA RenameKeepsRows == RowsInv /\ LegacyRenamed => RowsInv'
<1> SUFFICES ASSUME RowsInv, LegacyRenamed PROVE RowsInv'
  OBVIOUS
<1> DEFINE rs == [i \in DOMAIN aliasRows |-> IF aliasRows[i].alias = LegacyName
                                             THEN [aliasRows[i] EXCEPT !.alias = ReservedName]
                                             ELSE aliasRows[i]]
<1>0. UNCHANGED <<aliasId, overlap>>
  BY DEF LegacyRenamed
<1>1. \A i \in DOMAIN aliasRows : aliasRows[i] \in AliasRow
  BY DEF RowsInv, AliasesTyped
<1>2. \A i \in DOMAIN aliasRows : aliasRows[i].alias = LegacyName =>
        /\ rs[i] \in AliasRow /\ rs[i].alias = ReservedName
        /\ rs[i].target = aliasRows[i].target /\ rs[i].reserved = aliasRows[i].reserved
  BY <1>1 DEF AliasRow
<1>3. \A i \in DOMAIN aliasRows : aliasRows[i].alias # LegacyName => rs[i] = aliasRows[i]
  OBVIOUS
<1>4. DOMAIN rs = DOMAIN aliasRows /\ rs = [i \in DOMAIN rs |-> rs[i]]
  OBVIOUS
<1>5. \A i \in DOMAIN aliasRows : aliasRows[i] = Reserved(LegacyName) => rs[i] = Reserved(ReservedName)
  BY AliasConstants DEF Reserved
<1>a. \/ aliasRows' = rs /\ pool' = pool /\ boot' = "seed" /\ unseated' = unseated
      \/ ~Distinct(rs) /\ boot' = "done" /\ unseated' = (unseated \/ ~Seated) /\ UNCHANGED <<aliasRows, pool>>
  BY DEF LegacyRenamed, RowsBecome
<1> HIDE DEF rs
<1>6. CASE aliasRows' = rs /\ pool' = pool /\ boot' = "seed" /\ unseated' = unseated
  <2>1. AliasesTyped'
    BY <1>0, <1>1, <1>2, <1>3, <1>4, <1>6 DEF RowsInv, AliasesTyped
  <2>2. PlaceholdersOnly'
    <3>1. \A i \in DOMAIN aliasRows' : aliasRows'[i].target = Nowhere => aliasRows'[i] = Reserved(ReservedName)
      BY <1>2, <1>3, <1>4, <1>5, <1>6, AliasConstants DEF RowsInv, PlaceholdersOnly
    <3>2. \A i \in DOMAIN aliasRows' : aliasRows'[i].reserved /\ ~unseated' => aliasRows'[i].target = Nowhere
      BY <1>2, <1>3, <1>4, <1>6 DEF RowsInv, PlaceholdersOnly
    <3>3. \A i \in DOMAIN aliasRows' : aliasRows'[i].alias # LegacyName
      BY <1>2, <1>3, <1>4, <1>6, AliasConstants
    <3>4. \A i \in DOMAIN aliasRows' : aliasRows'[i] # Reserved(LegacyName)
      BY <3>3, AliasConstants
    <3> QED
      BY <1>6, <3>1, <3>2, <3>4 DEF PlaceholdersOnly
  <2>3. ASSUME NEW a \in Movable, NEW j \in CandidatesOf(a)'
        PROVE  j \in CandidatesOf(a) /\ pool'[j] = pool[j]
    <3>1. j \in DOMAIN aliasRows' /\ aliasRows'[j].alias = a /\ aliasRows'[j].target # Nowhere
      BY CandidatesIn
    <3> QED
      BY <1>2, <1>3, <1>4, <1>6, <3>1, AliasNames, CandidatesIn
  <2>4. PoolsApart'
    BY <1>0, <2>3, PoolsApartKept DEF RowsInv
  <2> QED
    BY <2>1, <2>2, <2>4 DEF RowsInv
<1>7. CASE ~Distinct(rs) /\ boot' = "done" /\ unseated' = (unseated \/ ~Seated) /\ UNCHANGED <<aliasRows, pool>>
  <2>1. \A i \in DOMAIN aliasRows : aliasRows[i] # Reserved(LegacyName)
    <3>1. SUFFICES ASSUME NEW i \in DOMAIN aliasRows, aliasRows[i] = Reserved(LegacyName) PROVE Distinct(rs)
      BY <1>7
    <3>2. Distinct(aliasRows) /\ \A j \in DOMAIN aliasRows : aliasRows[j].alias = LegacyName
      BY <3>1 DEF RowsInv, PlaceholdersOnly
    <3> QED
      BY <1>2, <1>4, <3>2 DEF Distinct
  <2>2. unseated \in BOOLEAN /\ Seated \in BOOLEAN
    BY DEF RowsInv, AliasesTyped, Seated
  <2>3. unseated' \in BOOLEAN /\ (~unseated' => ~unseated /\ Seated)
    BY <1>7, <2>2
  <2>4. AliasesTyped'
    BY <1>0, <1>7, <2>3 DEF RowsInv, AliasesTyped
  <2>5. PlaceholdersOnly'
    <3>1. Seated => Seated'
      BY <1>7 DEF Seated
    <3>2. \A i \in DOMAIN aliasRows : aliasRows[i].target = Nowhere => aliasRows[i] = Reserved(ReservedName)
      BY <2>1 DEF RowsInv, PlaceholdersOnly
    <3>3. \A i \in DOMAIN aliasRows : aliasRows[i].reserved /\ ~unseated' => aliasRows[i].target = Nowhere
      BY <2>3 DEF RowsInv, PlaceholdersOnly
    <3> QED
      BY <1>7, <2>1, <2>3, <3>1, <3>2, <3>3 DEF PlaceholdersOnly
  <2>6. ASSUME NEW a \in Movable, NEW j \in CandidatesOf(a)'
        PROVE  j \in CandidatesOf(a) /\ pool'[j] = pool[j]
    BY <1>7, CandidatesIn
  <2>7. PoolsApart'
    BY <1>0, <2>6, PoolsApartKept DEF RowsInv
  <2> QED
    BY <2>4, <2>5, <2>7 DEF RowsInv
<1> QED
  BY <1>a, <1>6, <1>7

LEMMA SeedKeepsRows == RowsInv /\ Seeded => RowsInv'
<1> SUFFICES ASSUME RowsInv, Seeded PROVE RowsInv'
  OBVIOUS
<1>0. boot = "seed" /\ boot' = "done" /\ UNCHANGED <<unseated, overlap>>
  BY DEF Seeded
<1>1. \A i \in DOMAIN aliasRows :
        /\ aliasRows[i].target = Nowhere => aliasRows[i] = Reserved(ReservedName)
        /\ aliasRows[i].reserved /\ ~unseated => aliasRows[i].target = Nowhere
        /\ aliasRows[i] # Reserved(LegacyName)
  BY <1>0, AliasConstants DEF RowsInv, PlaceholdersOnly
<1>2. CASE \E i \in DOMAIN aliasRows : aliasRows[i].alias = ReservedName /\ aliasRows[i].reserved
  <2>1. UNCHANGED <<aliasRows, aliasId, pool>>
    BY <1>2 DEF Seeded
  <2>2. AliasesTyped'
    BY <1>0, <2>1 DEF RowsInv, AliasesTyped
  <2>3. ~unseated => Seated'
    BY <1>1, <1>2, <2>1 DEF Seated
  <2>4. PlaceholdersOnly'
    BY <1>0, <1>1, <2>1, <2>3 DEF PlaceholdersOnly
  <2>5. ASSUME NEW a \in Movable, NEW j \in CandidatesOf(a)'
        PROVE  j \in CandidatesOf(a) /\ pool'[j] = pool[j]
    BY <2>1, CandidatesIn
  <2>6. PoolsApart'
    BY <1>0, <2>5, PoolsApartKept DEF RowsInv
  <2> QED
    BY <2>2, <2>4, <2>6 DEF RowsInv
<1>3. CASE ~\E i \in DOMAIN aliasRows : aliasRows[i].alias = ReservedName /\ aliasRows[i].reserved
  <2> DEFINE n == aliasId + 1
  <2>0. aliasId \in 0 .. MaxAliasRows /\ DOMAIN aliasRows \subseteq 1 .. aliasId /\ MaxAliasRows \in Nat
        /\ DOMAIN pool = DOMAIN aliasRows
    BY AliasConstants DEF RowsInv, AliasesTyped
  <2>1. /\ aliasId < MaxAliasRows /\ aliasId' = n
        /\ aliasRows' = [i \in DOMAIN aliasRows \cup {n} |-> IF i = n THEN Reserved(ReservedName) ELSE aliasRows[i]]
        /\ pool' = [i \in DOMAIN aliasRows \cup {n} |-> IF i = n THEN 0 ELSE pool[i]]
    BY <1>3, <2>0 DEF Seeded
  <2>2. n \notin DOMAIN aliasRows /\ n \in 0 .. MaxAliasRows /\ 1 .. n = (1 .. aliasId) \cup {n}
        /\ 0 .. aliasId \subseteq 0 .. n /\ 0 \in 0 .. n
    BY <2>0, <2>1
  <2>3. Reserved(ReservedName) \in AliasRow
    BY DEF Reserved, AliasRow
  <2> HIDE DEF n
  <2>4. AliasesTyped'
    BY <1>0, <2>0, <2>1, <2>2, <2>3 DEF RowsInv, AliasesTyped
  <2>5. PlaceholdersOnly'
    <3>1. \A i \in DOMAIN aliasRows' : aliasRows'[i] = Reserved(ReservedName)
                                      \/ (i \in DOMAIN aliasRows /\ aliasRows'[i] = aliasRows[i])
      BY <2>1, <2>2
    <3>2. Seated'
      BY <2>1 DEF Seated
    <3>3. \A i \in DOMAIN aliasRows' :
            /\ aliasRows'[i].target = Nowhere => aliasRows'[i] = Reserved(ReservedName)
            /\ aliasRows'[i].reserved /\ ~unseated' => aliasRows'[i].target = Nowhere
            /\ aliasRows'[i] # Reserved(LegacyName)
      BY <1>0, <1>1, <3>1, AliasConstants
    <3> QED
      BY <1>0, <3>2, <3>3 DEF PlaceholdersOnly
  <2>6. ASSUME NEW a \in Movable, NEW j \in CandidatesOf(a)'
        PROVE  j \in CandidatesOf(a) /\ pool'[j] = pool[j]
    <3>1. j \in DOMAIN aliasRows' /\ aliasRows'[j].alias = a /\ aliasRows'[j].target # Nowhere
      BY CandidatesIn
    <3> QED
      BY <2>1, <3>1, AliasConstants, CandidatesIn
  <2>7. PoolsApart'
    BY <1>0, <2>6, PoolsApartKept DEF RowsInv
  <2> QED
    BY <2>4, <2>5, <2>7 DEF RowsInv
<1> QED
  BY <1>2, <1>3

LEMMA RestKeepsRows ==
  ASSUME RowsInv, UNCHANGED <<aliasRows, aliasId, pool, unseated>>,
         boot' = boot \/ boot' = "placeholder",
         overlap \subseteq overlap', overlap' \subseteq {"pools", "lists"}
  PROVE  RowsInv'
<1>1. AliasesTyped'
  BY DEF RowsInv, AliasesTyped
<1>2. PlaceholdersOnly'
  BY DEF RowsInv, PlaceholdersOnly, Distinct, Seated
<1>3. ASSUME NEW a \in Movable, NEW j \in CandidatesOf(a)'
      PROVE  j \in CandidatesOf(a) /\ pool'[j] = pool[j]
  BY CandidatesIn
<1>4. PoolsApart'
  BY <1>3, PoolsApartKept DEF RowsInv
<1> QED
  BY <1>1, <1>2, <1>4 DEF RowsInv

--------------------------------------------------------------------------

LEMMA EditKinds ==
  ASSUME NEW r, EditTyped(r)
  PROVE  /\ r.at = "replace" => r \in ReplaceEdit
         /\ r.at = "rename" => r \in RenameEdit
         /\ r.at = "expose" => r \in ExposeEdit
         /\ r.at = "update" => r \in UpdateEdit
         /\ r.at \notin {"replace", "rename", "expose", "update"} => r = NoEdit
<1>1. /\ r \in ReplaceEdit => r.at = "replace"
      /\ r \in RenameEdit => r.at = "rename"
      /\ r \in ExposeEdit => r.at = "expose"
      /\ r \in UpdateEdit => r.at = "update"
      /\ r = NoEdit => r.at = "idle"
  BY DEF ReplaceEdit, RenameEdit, ExposeEdit, UpdateEdit, NoEdit
<1> QED
  BY <1>1 DEF EditTyped

\* A request that is told that it is stale.
LEMMA MarkedIs ==
  ASSUME NEW r, EditTyped(r), r.at # "idle"
  PROVE  LET m == [r EXCEPT !.stale = TRUE] IN
         /\ EditTyped(m) /\ m.at = r.at /\ m.stale
         /\ r.at = "replace" => m.alias = r.alias /\ m.want = r.want /\ m.seen = r.seen
         /\ r.at = "rename" => m.from = r.from /\ m.to = r.to
         /\ r.at = "expose" => m.target = r.target /\ m.seen = r.seen
         /\ r.at = "update" => m.group = r.group /\ m.seen = r.seen
<1> DEFINE m == [r EXCEPT !.stale = TRUE]
<1>1. CASE r \in ReplaceEdit
  <2>1. m \in ReplaceEdit /\ m.at = r.at /\ m.stale /\ m.alias = r.alias /\ m.want = r.want /\ m.seen = r.seen
    BY <1>1 DEF ReplaceEdit
  <2>2. r.at = "replace"
    BY <1>1 DEF ReplaceEdit
  <2> QED
    BY <2>1, <2>2 DEF EditTyped
<1>2. CASE r \in RenameEdit
  <2>1. m \in RenameEdit /\ m.at = r.at /\ m.stale /\ m.from = r.from /\ m.to = r.to
    BY <1>2 DEF RenameEdit
  <2>2. r.at = "rename"
    BY <1>2 DEF RenameEdit
  <2> QED
    BY <2>1, <2>2 DEF EditTyped
<1>3. CASE r \in ExposeEdit
  <2>1. m \in ExposeEdit /\ m.at = r.at /\ m.stale /\ m.target = r.target /\ m.seen = r.seen
    BY <1>3 DEF ExposeEdit
  <2>2. r.at = "expose"
    BY <1>3 DEF ExposeEdit
  <2> QED
    BY <2>1, <2>2 DEF EditTyped
<1>4. CASE r \in UpdateEdit
  <2>1. m \in UpdateEdit /\ m.at = r.at /\ m.stale /\ m.group = r.group /\ m.seen = r.seen
    BY <1>4 DEF UpdateEdit
  <2>2. r.at = "update"
    BY <1>4 DEF UpdateEdit
  <2> QED
    BY <2>1, <2>2 DEF EditTyped
<1>5. r # NoEdit
  BY DEF NoEdit
<1> QED
  BY <1>1, <1>2, <1>3, <1>4, <1>5 DEF EditTyped

LEMMA NoEditOK == EditTyped(NoEdit) /\ EditOK(NoEdit) /\ EditOK(NoEdit)' /\ NoEdit.at = "idle"
  BY DEF EditTyped, EditOK, NoEdit

LEMMA GroupOfTarget ==
  ASSUME NEW t \in AliasTarget
  PROVE  t.group \in AliasGroup /\ t.model \in AliasModel
  BY DEF AliasGroup, AliasModel

\* What a request relies on outlasts a step that it is told of, or that leaves it alone.
LEMMA RequestKept ==
  ASSUME EditsInv, NEW e \in Editor, NEW r, NEW K,
         \/ r = edit[e] /\ edit[e].at \notin K
         \/ r = [edit[e] EXCEPT !.stale = TRUE] /\ edit[e].at # "idle",
         "rename" \in K \/ aliasRows' = aliasRows,
         {"expose", "update"} \subseteq K \/ lists' = lists,
         aliasId' \in Nat, aliasId \in Nat, aliasId <= aliasId',
         \A i \in DOMAIN aliasRows' : i \in 1 .. aliasId =>
           i \in DOMAIN aliasRows /\ (aliasRows[i].target # Nowhere => aliasRows'[i].target # Nowhere),
         \A g \in AliasGroup : lists'[g].blocked = lists[g].blocked
  PROVE  EditTyped(r) /\ EditOK(r)'
<1> DEFINE old == edit[e]
<1>1. EditTyped(old) /\ EditOK(old)
  BY DEF EditsInv
<1>b. \/ r = old /\ old.at \notin K
      \/ r = [old EXCEPT !.stale = TRUE] /\ old.at # "idle"
  OBVIOUS
<1> HIDE DEF old
<1>2. /\ EditTyped(r) /\ r.at = old.at
      /\ old.at = "replace" => r.seen = old.seen
      /\ old.at = "rename" => r.to = old.to
      /\ old.at = "expose" => r.target = old.target /\ r.seen = old.seen
      /\ old.at = "update" => r.group = old.group /\ r.seen = old.seen
  <2>1. CASE r = old
    BY <1>1, <2>1
  <2>2. CASE r = [old EXCEPT !.stale = TRUE] /\ old.at # "idle"
    BY <1>1, <2>2, MarkedIs
  <2> QED
    BY <1>b, <2>1, <2>2
<1>3. r.at \in K => r.stale
  BY <1>1, <1>b, MarkedIs
<1>a. ~r.stale => r = old
  BY <1>1, <1>b, MarkedIs
<1>4. ASSUME r.at = "replace" PROVE ReplaceOK(r)'
  <2>1. ReplaceOK(old)
    BY <1>1, <1>2, <1>4 DEF EditOK
  <2>2. DOMAIN r.seen \subseteq 1 .. aliasId'
    BY <1>2, <1>4, <2>1 DEF ReplaceOK
  <2>3. \A i \in DOMAIN r.seen \cap DOMAIN aliasRows' : aliasRows'[i].target # Nowhere
    BY <1>2, <1>4, <2>1 DEF ReplaceOK
  <2> QED
    BY <2>2, <2>3 DEF ReplaceOK
<1>5. ASSUME r.at = "rename" PROVE RenameOK(r)'
  <2>1. SUFFICES ASSUME ~r.stale PROVE CandidatesOf(r.to)' = {}
    BY DEF RenameOK
  <2>2. CandidatesOf(r.to) = {} /\ aliasRows' = aliasRows
    BY <1>1, <1>3, <1>5, <1>a, <2>1 DEF EditOK, RenameOK
  <2> QED
    BY <2>2 DEF CandidatesOf
<1>6. ASSUME r.at = "expose" PROVE ExposeOK(r)'
  <2>1. ExposeOK(old) /\ old \in ExposeEdit
    BY <1>1, <1>2, <1>6, EditKinds DEF EditOK
  <2>2. r.target = old.target /\ r.target.group \in AliasGroup
    BY <1>2, <1>6, <2>1, GroupOfTarget DEF ExposeEdit
  <2>3. r.target.model \notin lists'[r.target.group].blocked
    BY <2>1, <2>2 DEF ExposeOK
  <2>4. ~r.stale => r.seen = lists'[r.target.group].exposed
    BY <1>3, <1>6, <1>a, <2>1 DEF ExposeOK
  <2> QED
    BY <2>3, <2>4 DEF ExposeOK
<1>7. ASSUME r.at = "update" PROVE UpdateOK(r)'
  <2>1. UpdateOK(old) /\ r.group = old.group
    BY <1>1, <1>2, <1>7 DEF EditOK
  <2>2. ~r.stale => r.seen = lists'[r.group].exposed
    BY <1>3, <1>7, <1>a, <2>1 DEF UpdateOK
  <2> QED
    BY <2>2 DEF UpdateOK
<1> QED
  BY <1>2, <1>4, <1>5, <1>6, <1>7 DEF EditOK

LEMMA EditsKept ==
  ASSUME EditsInv, NEW K, K \subseteq {"replace", "rename", "expose", "update"},
         DOMAIN edit' = Editor, \A e \in Editor : edit'[e] \in {NoEdit, Staled(K)[e]}, boot' = boot,
         "rename" \in K \/ aliasRows' = aliasRows,
         {"expose", "update"} \subseteq K \/ lists' = lists,
         aliasId' \in Nat, aliasId \in Nat, aliasId <= aliasId',
         \A i \in DOMAIN aliasRows' : i \in 1 .. aliasId =>
           i \in DOMAIN aliasRows /\ (aliasRows[i].target # Nowhere => aliasRows'[i].target # Nowhere),
         \A g \in AliasGroup : lists'[g].blocked = lists[g].blocked
  PROVE  EditsInv'
<1>1. ASSUME NEW e \in Editor
      PROVE  EditTyped(edit'[e]) /\ EditOK(edit[e])'
  <2> DEFINE r == edit[e]
  <2>1. PICK n : n = edit'[e]
    OBVIOUS
  <2>2. \/ n = NoEdit
        \/ n = edit[e] /\ edit[e].at \notin K
        \/ n = [edit[e] EXCEPT !.stale = TRUE] /\ edit[e].at # "idle"
    BY <2>1 DEF Staled
  <2>3. EditTyped(n) /\ EditOK(n)'
    BY <2>2, NoEditOK, RequestKept
  <2> QED
    BY <2>1, <2>3 DEF EditOK, ReplaceOK, RenameOK, ExposeOK, UpdateOK, CandidatesOf
<1>2. boot' # "done" => \A e \in Editor : edit'[e] = NoEdit
  <2>1. SUFFICES ASSUME boot' # "done", NEW e \in Editor PROVE edit'[e] = NoEdit
    OBVIOUS
  <2>2. edit[e] = NoEdit /\ NoEdit.at \notin K
    BY <2>1, NoEditOK DEF EditsInv
  <2>3. Staled(K)[e] = NoEdit
    BY <2>2 DEF Staled
  <2> QED
    BY <2>3
<1> QED
  BY <1>1, <1>2 DEF EditsInv

\* A request that begins relies on what it reads.
LEMMA BeginKeeps ==
  ASSUME AliasInv, NEW e \in Editor, NEW r, EditTyped(r), EditOK(r), EditBegins(e, r)
  PROVE  AliasInv'
<1>1. /\ boot = "done" /\ edit' = [edit EXCEPT ![e] = r]
      /\ UNCHANGED <<aliasRows, aliasId, lists, pool, promised, unseated, overlap, boot>>
  BY DEF EditBegins, AliasAct
<1>2. RowsInv'
  BY <1>1, RestKeepsRows DEF AliasInv, RowsInv, AliasesTyped
<1>3. ListsInv'
  BY <1>1 DEF AliasInv, ListsInv
<1>4. DOMAIN edit = Editor /\ \A f \in Editor : EditTyped(edit[f]) /\ EditOK(edit[f])
  BY DEF AliasInv, EditsInv
<1>5. DOMAIN edit' = Editor /\ \A f \in Editor : edit'[f] = IF f = e THEN r ELSE edit[f]
  BY <1>1, <1>4
<1>6. ASSUME NEW f \in Editor PROVE EditTyped(edit'[f]) /\ EditOK(edit[f])'
  <2>1. PICK n : n = edit'[f]
    OBVIOUS
  <2>2. EditTyped(n) /\ EditOK(n)
    BY <1>4, <1>5, <2>1
  <2> QED
    BY <1>1, <2>1, <2>2 DEF EditOK, ReplaceOK, RenameOK, ExposeOK, UpdateOK, CandidatesOf
<1>7. EditsInv'
  BY <1>1, <1>5, <1>6 DEF EditsInv
<1> QED
  BY <1>2, <1>3, <1>7 DEF AliasInv

LEMMA ReplaceReadKeeps ==
  ASSUME AliasInv, NEW e \in Editor, NEW a \in AliasName, NEW want \in SUBSET AliasTarget, ReplaceReads(e, a, want)
  PROVE  AliasInv'
<1> DEFINE seen == [i \in CandidatesOf(a) |-> aliasRows[i].target]
           r == [at |-> "replace", stale |-> FALSE, alias |-> a, want |-> want, seen |-> seen]
<1>1. CandidatesOf(a) \subseteq DOMAIN aliasRows /\ \A i \in CandidatesOf(a) : aliasRows[i].target # Nowhere
  BY DEF CandidatesOf
<1>2. /\ DOMAIN aliasRows \subseteq 1 .. aliasId /\ aliasId \in 0 .. MaxAliasRows
      /\ \A i \in DOMAIN aliasRows : aliasRows[i] \in AliasRow
  BY DEF AliasInv, RowsInv, AliasesTyped
<1>3. seen \in [CandidatesOf(a) -> AliasTarget] /\ CandidatesOf(a) \subseteq 1 .. MaxAliasRows
  BY <1>1, <1>2, AliasConstants DEF AliasRow
<1>4. DOMAIN seen = CandidatesOf(a) /\ seen \in Seen
  BY <1>3 DEF Seen
<1> HIDE DEF seen
<1>5. r \in ReplaceEdit /\ r.at = "replace" /\ r.seen = seen
  BY <1>4 DEF ReplaceEdit
<1>6. EditTyped(r) /\ EditOK(r)
  <2>1. ReplaceOK(r)
    BY <1>1, <1>2, <1>4, <1>5 DEF ReplaceOK
  <2> HIDE DEF r
  <2> QED
    BY <1>5, <2>1 DEF EditTyped, EditOK
<1>7. EditBegins(e, r)
  BY DEF ReplaceReads, seen
<1> HIDE DEF r
<1> QED
  BY <1>6, <1>7, BeginKeeps

LEMMA RenameCountKeeps ==
  ASSUME AliasInv, NEW e \in Editor, NEW from \in Movable, NEW to \in Movable, RenameCounts(e, from, to)
  PROVE  AliasInv'
<1> DEFINE r == [at |-> "rename", stale |-> FALSE, from |-> from, to |-> to]
<1>1. CandidatesOf(to) = {} /\ EditBegins(e, r)
  BY DEF RenameCounts
<1>2. r \in RenameEdit /\ r.at = "rename" /\ r.to = to
  BY DEF RenameEdit
<1> HIDE DEF r
<1>3. EditTyped(r) /\ EditOK(r)
  BY <1>1, <1>2 DEF EditTyped, EditOK, RenameOK
<1> QED
  BY <1>1, <1>3, BeginKeeps

LEMMA ExposeReadKeeps ==
  ASSUME AliasInv, NEW e \in Editor, NEW t \in AliasTarget, ExposeReads(e, t)
  PROVE  AliasInv'
<1> DEFINE r == [at |-> "expose", stale |-> FALSE, target |-> t, seen |-> lists[t.group].exposed]
<1>1. t.model \notin lists[t.group].blocked /\ EditBegins(e, r)
  BY DEF ExposeReads, Exposable
<1>2. lists[t.group] \in GroupList
  BY GroupOfTarget DEF AliasInv, ListsInv
<1>3. /\ r \in ExposeEdit /\ r.at = "expose" /\ r.target = t /\ r.seen = lists[t.group].exposed
  BY <1>2 DEF ExposeEdit, GroupList
<1> HIDE DEF r
<1>4. EditTyped(r) /\ EditOK(r)
  BY <1>1, <1>3 DEF EditTyped, EditOK, ExposeOK
<1> QED
  BY <1>1, <1>4, BeginKeeps

LEMMA UpdateReadKeeps ==
  ASSUME AliasInv, NEW e \in Editor, NEW g \in AliasGroup, UpdateReads(e, g)
  PROVE  AliasInv'
<1> DEFINE r == [at |-> "update", stale |-> FALSE, group |-> g, seen |-> lists[g].exposed]
<1>1. EditBegins(e, r)
  BY DEF UpdateReads
<1>2. lists[g] \in GroupList
  BY DEF AliasInv, ListsInv
<1>3. /\ r \in UpdateEdit /\ r.at = "update" /\ r.group = g /\ r.seen = lists[g].exposed
  BY <1>2 DEF UpdateEdit, GroupList
<1> HIDE DEF r
<1>4. EditTyped(r) /\ EditOK(r)
  BY <1>1, <1>3 DEF EditTyped, EditOK, UpdateOK
<1> QED
  BY <1>1, <1>4, BeginKeeps

\* What an act in one step leaves of the requests under way.
LEMMA StaledKeeps ==
  ASSUME AliasInv, NEW K, K \subseteq {"replace", "rename", "expose", "update"}, edit' = Staled(K), boot' = boot,
         "rename" \in K \/ aliasRows' = aliasRows, {"expose", "update"} \subseteq K \/ lists' = lists,
         aliasId' \in Nat, aliasId <= aliasId',
         \A i \in DOMAIN aliasRows' : i \in 1 .. aliasId =>
           i \in DOMAIN aliasRows /\ (aliasRows[i].target # Nowhere => aliasRows'[i].target # Nowhere),
         \A g \in AliasGroup : lists'[g].blocked = lists[g].blocked
  PROVE  EditsInv'
<1>1. DOMAIN edit' = Editor /\ \A e \in Editor : edit'[e] \in {NoEdit, Staled(K)[e]}
  BY DEF Staled
<1>2. aliasId \in Nat
  BY AliasConstants DEF AliasInv, RowsInv, AliasesTyped
<1> QED
  BY <1>1, <1>2, EditsKept DEF AliasInv

LEMMA CommitKeeps ==
  ASSUME AliasInv, NEW e \in Editor, NEW K, K \subseteq {"replace", "rename", "expose", "update"},
         edit' = [Staled(K) EXCEPT ![e] = NoEdit], boot' = boot,
         "rename" \in K \/ aliasRows' = aliasRows, {"expose", "update"} \subseteq K \/ lists' = lists,
         aliasId' \in Nat, aliasId <= aliasId',
         \A i \in DOMAIN aliasRows' : i \in 1 .. aliasId =>
           i \in DOMAIN aliasRows /\ (aliasRows[i].target # Nowhere => aliasRows'[i].target # Nowhere),
         \A g \in AliasGroup : lists'[g].blocked = lists[g].blocked
  PROVE  EditsInv'
<1>1. DOMAIN edit' = Editor /\ \A f \in Editor : edit'[f] \in {NoEdit, Staled(K)[f]}
  BY DEF Staled
<1>2. aliasId \in Nat
  BY AliasConstants DEF AliasInv, RowsInv, AliasesTyped
<1> QED
  BY <1>1, <1>2, EditsKept DEF AliasInv

LEMMA AliasNumbers ==
  ASSUME AliasInv
  PROVE  /\ aliasId \in Nat /\ DOMAIN aliasRows \subseteq 1 .. aliasId /\ unseated \in BOOLEAN
         /\ overlap \subseteq {"pools", "lists"} /\ DOMAIN pool = DOMAIN aliasRows
  BY AliasConstants DEF AliasInv, RowsInv, AliasesTyped

LEMMA CreateKeeps ==
  ASSUME AliasInv, NEW a \in AliasName, NEW ts \in SUBSET AliasTarget, CreateMany(a, ts)
  PROVE  AliasInv'
<1> DEFINE all == Inserted(aliasRows, a, ts)
<1>1. /\ boot = "done" /\ boot' = boot /\ aliasId + Cardinality(ts) <= MaxAliasRows
      /\ aliasRows' = all /\ pool' = Joined(all, a)
      /\ aliasId' = aliasId + Cardinality(ts) /\ edit' = Staled({"replace", "rename"})
      /\ UNCHANGED <<lists, promised, unseated, overlap>>
  BY DEF CreateMany, AliasAct, RowsBecome
<1>2. RowsInv'
  BY <1>1, AliasNumbers, InsertKeeps DEF AliasInv
<1>3. ListsInv'
  BY <1>1 DEF AliasInv, ListsInv
<1>4. Cardinality(ts) \in Nat /\ \A i \in DOMAIN all : i \in 1 .. aliasId =>
         i \in DOMAIN aliasRows /\ (aliasRows[i].target # Nowhere => all[i].target # Nowhere)
  <2> DEFINE new == aliasId + 1 .. aliasId + Cardinality(ts)
  <2>1. /\ Cardinality(ts) \in Nat /\ DOMAIN all = DOMAIN aliasRows \cup new
        /\ \A i \in DOMAIN aliasRows \ new : all[i] = aliasRows[i]
    BY AliasNumbers, InsertedIs DEF RowsWith
  <2>2. \A i \in 1 .. aliasId : i \notin new
    BY AliasNumbers, <2>1
  <2> HIDE DEF new, all
  <2> QED
    BY <2>1, <2>2
<1>5. EditsInv'
  <2> HIDE DEF all
  <2>1. aliasId' \in Nat /\ aliasId <= aliasId'
    BY <1>1, <1>4, AliasNumbers
  <2> QED
    BY <1>1, <1>4, <2>1, StaledKeeps
<1> QED
  BY <1>2, <1>3, <1>5 DEF AliasInv

LEMMA UpdateKeeps ==
  ASSUME AliasInv, NEW i, NEW t \in AliasTarget, UpdateRow(i, t)
  PROVE  AliasInv'
<1>1. /\ boot = "done" /\ boot' = boot /\ i \in DOMAIN aliasRows
      /\ aliasRows' = [aliasRows EXCEPT ![i].target = t] /\ edit' = Staled({"replace", "rename"})
      /\ unseated' = (unseated \/ aliasRows[i] = Reserved(ReservedName))
      /\ UNCHANGED <<aliasId, lists, pool, promised, overlap>>
  BY DEF UpdateRow, AliasAct, RowsBecome
<1>2. unseated' \in BOOLEAN /\ (unseated => unseated') /\ (aliasRows[i] = Reserved(ReservedName) => unseated')
  BY <1>1, AliasNumbers
<1>3. RowsInv'
  BY <1>1, <1>2, AliasRowChanged DEF AliasInv
<1>4. ListsInv'
  BY <1>1 DEF AliasInv, ListsInv
<1>5. aliasRows[i] \in AliasRow
  BY <1>1 DEF AliasInv, RowsInv, AliasesTyped
<1>6. \A j \in DOMAIN aliasRows' : j \in DOMAIN aliasRows /\ (aliasRows[j].target # Nowhere => aliasRows'[j].target # Nowhere)
  BY <1>1, <1>5, AliasConstants DEF AliasRow
<1>7. EditsInv'
  BY <1>1, <1>6, AliasNumbers, StaledKeeps
<1> QED
  BY <1>3, <1>4, <1>7 DEF AliasInv

LEMMA DeleteRowKeeps ==
  ASSUME AliasInv, NEW i, DeleteRow(i)
  PROVE  AliasInv'
<1>1. /\ boot = "done" /\ boot' = boot /\ i \in DOMAIN aliasRows /\ Deletable(aliasRows[i])
      /\ aliasRows' = Without(aliasRows, {i}) /\ pool' = Without(pool, {i}) /\ edit' = Staled({"replace", "rename"})
      /\ UNCHANGED <<aliasId, lists, promised, unseated, overlap>>
  BY DEF DeleteRow, AliasAct, RowsBecome
<1>2. RowsInv'
  BY <1>1, RowDeleted DEF AliasInv
<1>3. ListsInv'
  BY <1>1 DEF AliasInv, ListsInv
<1>4. \A j \in DOMAIN aliasRows' : j \in DOMAIN aliasRows /\ (aliasRows[j].target # Nowhere => aliasRows'[j].target # Nowhere)
  BY <1>1 DEF Without
<1>5. EditsInv'
  <2>1. aliasId' \in Nat /\ aliasId <= aliasId' /\ lists' = lists
    BY <1>1, AliasNumbers
  <2>2. boot' = boot /\ edit' = Staled({"replace", "rename"})
    BY <1>1
  <2> QED
    BY <1>4, <2>1, <2>2, StaledKeeps
<1> QED
  BY <1>2, <1>3, <1>5 DEF AliasInv

\* UpdateGroup saves a list, its own or the one that it has read.
LEMMA ListSavedKeeps ==
  ASSUME AliasInv, NEW e \in Editor, NEW g \in AliasGroup, NEW models \in SUBSET AliasModel,
         lists' = [lists EXCEPT ![g].exposed = models],
         edit' = [Staled({"expose", "update"}) EXCEPT ![e] = NoEdit],
         overlap \subseteq overlap', overlap' \subseteq {"pools", "lists"},
         UNCHANGED <<aliasRows, aliasId, pool, boot, unseated>>,
         \/ promised' = [promised EXCEPT ![g] = {}]
         \/ promised' = promised /\ ("lists" \in overlap' \/ models = lists[g].exposed)
  PROVE  AliasInv'
<1>2. RowsInv'
  BY AliasNumbers, RestKeepsRows DEF AliasInv
<1>3. lists \in [AliasGroup -> GroupList] /\ promised \in [AliasGroup -> SUBSET AliasModel]
  BY DEF AliasInv, ListsInv
<1>4. lists'[g] = [lists[g] EXCEPT !.exposed = models] /\ lists[g] \in GroupList
  BY <1>3
<1>5. lists'[g] \in GroupList /\ lists'[g].blocked = lists[g].blocked /\ lists'[g].exposed = models
  BY <1>4 DEF GroupList
<1>6. \A h \in AliasGroup \ {g} : lists'[h] = lists[h] /\ promised'[h] = promised[h]
  BY <1>3
<1>7. ListsInv'
  <2>1. lists' \in [AliasGroup -> GroupList] /\ promised' \in [AliasGroup -> SUBSET AliasModel]
    BY <1>3, <1>5, <1>6
  <2>2. ASSUME "lists" \notin overlap', NEW h \in AliasGroup
        PROVE  promised'[h] \subseteq lists'[h].exposed \ lists'[h].blocked
    <3>1. promised[h] \subseteq lists[h].exposed \ lists[h].blocked
      BY <2>2 DEF AliasInv, ListsInv
    <3>2. CASE h = g
      BY <1>3, <1>5, <2>2, <3>1, <3>2
    <3>3. CASE h # g
      BY <1>6, <3>1, <3>3
    <3> QED
      BY <3>2, <3>3
  <2> QED
    BY <2>1, <2>2 DEF ListsInv
<1>8. EditsInv'
  <2>1. \A h \in AliasGroup : lists'[h].blocked = lists[h].blocked
    BY <1>5, <1>6
  <2>2. aliasId' \in Nat /\ aliasId <= aliasId'
    BY AliasNumbers
  <2>3. \A i \in DOMAIN aliasRows' : i \in DOMAIN aliasRows /\ aliasRows'[i] = aliasRows[i]
    OBVIOUS
  <2> QED
    BY <2>1, <2>2, <2>3, CommitKeeps
<1> QED
  BY <1>2, <1>7, <1>8 DEF AliasInv

LEMMA UpdateWriteKeeps ==
  ASSUME AliasInv, NEW e \in Editor, ListsKept(e) \/ \E models \in SUBSET AliasModel : ListsEdited(e, models)
  PROVE  AliasInv'
<1> DEFINE r == edit[e]
           g == r.group
<1>1. r.at = "update"
  BY DEF ListsKept, ListsEdited
<1>2. r \in UpdateEdit /\ UpdateOK(r)
  BY <1>1, EditKinds DEF AliasInv, EditsInv, EditOK
<1>3. g \in AliasGroup /\ r.seen \in SUBSET AliasModel
  BY <1>2 DEF UpdateEdit
<1>4. ~r.stale => r.seen = lists[g].exposed
  BY <1>2 DEF UpdateOK
<1>5. overlap \subseteq {"pools", "lists"}
  BY AliasNumbers
<1>6. CASE ListsKept(e)
  <2>1. /\ lists' = [lists EXCEPT ![g].exposed = r.seen] /\ promised' = promised
        /\ edit' = [Staled({"expose", "update"}) EXCEPT ![e] = NoEdit]
        /\ overlap' = IF r.stale THEN overlap \cup {"lists"} ELSE overlap
        /\ UNCHANGED <<aliasRows, aliasId, pool, boot, unseated>>
    BY <1>6 DEF ListsKept, EditCommits
  <2> HIDE DEF r, g
  <2>2. overlap \subseteq overlap' /\ overlap' \subseteq {"pools", "lists"} /\ (r.stale => "lists" \in overlap')
    BY <1>5, <2>1
  <2>3. "lists" \in overlap' \/ r.seen = lists[g].exposed
    BY <1>4, <2>2
  <2> QED
    BY <1>3, <2>1, <2>2, <2>3, ListSavedKeeps
<1>7. CASE \E models \in SUBSET AliasModel : ListsEdited(e, models)
  <2>1. PICK models \in SUBSET AliasModel : ListsEdited(e, models)
    BY <1>7
  <2>2. /\ lists' = [lists EXCEPT ![g].exposed = models] /\ promised' = [promised EXCEPT ![g] = {}]
        /\ edit' = [Staled({"expose", "update"}) EXCEPT ![e] = NoEdit]
        /\ UNCHANGED <<aliasRows, aliasId, pool, boot, unseated>> /\ overlap' = overlap
    BY <2>1 DEF ListsEdited
  <2> HIDE DEF r, g
  <2> QED
    BY <1>3, <1>5, <2>2, ListSavedKeeps
<1> QED
  BY <1>6, <1>7

LEMMA ReplaceWriteKeeps ==
  ASSUME AliasInv, NEW e \in Editor, ReplaceWrites(e)
  PROVE  AliasInv'
<1> DEFINE r == edit[e]
           gone == {i \in DOMAIN r.seen : r.seen[i] \notin r.want}
           ts == r.want \ {r.seen[i] : i \in DOMAIN r.seen}
           base == Without(aliasRows, gone)
           all == Inserted(base, r.alias, ts)
<1>1. /\ r.at = "replace" /\ aliasId + Cardinality(ts) <= MaxAliasRows
      /\ aliasRows' = all /\ pool' = Joined(all, r.alias) /\ aliasId' = aliasId + Cardinality(ts)
      /\ edit' = [Staled({"replace", "rename"}) EXCEPT ![e] = NoEdit]
      /\ overlap' = IF r.stale THEN overlap \cup {"pools"} ELSE overlap
      /\ UNCHANGED <<lists, promised, boot, unseated>>
  BY DEF ReplaceWrites, RowsBecome, EditCommits
<1>2. r \in ReplaceEdit /\ ReplaceOK(r) /\ boot = "done"
  BY <1>1, EditKinds, NoEditOK DEF AliasInv, EditsInv, EditOK
<1>3. r.alias \in AliasName /\ ts \in SUBSET AliasTarget
  BY <1>2 DEF ReplaceEdit
<1>4. /\ DOMAIN base \subseteq DOMAIN aliasRows
      /\ \A i \in DOMAIN base : base[i] = aliasRows[i]
      /\ \A i \in DOMAIN aliasRows \ DOMAIN base : aliasRows[i].target # Nowhere
  BY <1>2 DEF Without, ReplaceOK
<1>5. overlap \subseteq overlap' /\ overlap' \subseteq {"pools", "lists"}
  BY <1>1, AliasNumbers
<1> HIDE DEF r, ts, base
<1>6. RowsInv'
  BY <1>1, <1>2, <1>3, <1>4, <1>5, InsertKeeps DEF AliasInv
<1>7. ListsInv'
  BY <1>1, <1>5 DEF AliasInv, ListsInv
<1>8. Cardinality(ts) \in Nat /\ \A i \in DOMAIN all : i \in 1 .. aliasId =>
         i \in DOMAIN aliasRows /\ (aliasRows[i].target # Nowhere => all[i].target # Nowhere)
  <2> DEFINE new == aliasId + 1 .. aliasId + Cardinality(ts)
  <2>1. /\ Cardinality(ts) \in Nat /\ DOMAIN all = DOMAIN base \cup new
        /\ \A i \in DOMAIN base \ new : all[i] = base[i]
    BY <1>3, AliasNumbers, InsertedIs DEF RowsWith
  <2>2. \A i \in 1 .. aliasId : i \notin new
    BY AliasNumbers, <2>1
  <2> HIDE DEF new, all
  <2> QED
    BY <1>4, <2>1, <2>2
<1>9. EditsInv'
  <2> HIDE DEF all
  <2>1. aliasId' \in Nat /\ aliasId <= aliasId'
    BY <1>1, <1>8, AliasNumbers
  <2> QED
    BY <1>1, <1>8, <2>1, CommitKeeps
<1> QED
  BY <1>6, <1>7, <1>9 DEF AliasInv

LEMMA RenameWriteKeeps ==
  ASSUME AliasInv, NEW e \in Editor, RenameWrites(e)
  PROVE  AliasInv'
<1> DEFINE r == edit[e]
<1>1. /\ r.at = "rename"
      /\ aliasRows' = [i \in DOMAIN aliasRows |-> IF i \in CandidatesOf(r.from)
                                                  THEN [aliasRows[i] EXCEPT !.alias = r.to] ELSE aliasRows[i]]
      /\ edit' = [Staled({"replace", "rename"}) EXCEPT ![e] = NoEdit]
      /\ overlap' = IF r.stale THEN overlap \cup {"pools"} ELSE overlap
      /\ UNCHANGED <<lists, promised, boot, unseated, aliasId, pool>>
  BY DEF RenameWrites, RowsBecome, EditCommits
<1>2. r \in RenameEdit /\ RenameOK(r) /\ boot = "done"
  BY <1>1, EditKinds, NoEditOK DEF AliasInv, EditsInv, EditOK
<1>3. r.from \in Movable /\ r.to \in Movable /\ (CandidatesOf(r.to) = {} \/ r.stale)
  BY <1>2 DEF RenameEdit, RenameOK
<1>4. overlap \subseteq overlap' /\ overlap' \subseteq {"pools", "lists"} /\ (r.stale => "pools" \in overlap')
  BY <1>1, AliasNumbers
<1> HIDE DEF r
<1>5. RowsInv'
  BY <1>1, <1>2, <1>3, <1>4, PoolRenamed DEF AliasInv
<1>6. ListsInv'
  BY <1>1, <1>4 DEF AliasInv, ListsInv
<1>7. \A j \in DOMAIN aliasRows' : j \in DOMAIN aliasRows /\ (aliasRows[j].target # Nowhere => aliasRows'[j].target # Nowhere)
  <2>1. \A j \in DOMAIN aliasRows : aliasRows[j] \in AliasRow
    BY DEF AliasInv, RowsInv, AliasesTyped
  <2> QED
    BY <1>1, <2>1 DEF AliasRow
<1>8. EditsInv'
  <2>1. aliasId' \in Nat /\ aliasId <= aliasId'
    BY <1>1, AliasNumbers
  <2>2. \A h \in AliasGroup : lists'[h].blocked = lists[h].blocked
    BY <1>1
  <2> QED
    BY <1>1, <1>7, <2>1, <2>2, CommitKeeps
<1> QED
  BY <1>5, <1>6, <1>8 DEF AliasInv

LEMMA ExposeWriteKeeps ==
  ASSUME AliasInv, NEW e \in Editor, ExposeWrites(e)
  PROVE  AliasInv'
<1> DEFINE r == edit[e]
           g == r.target.group
           m == r.target.model
<1>1. /\ r.at = "expose" /\ lists' = [lists EXCEPT ![g].exposed = r.seen \cup {m}]
      /\ promised' = [promised EXCEPT ![g] = @ \cup {m}]
      /\ edit' = [Staled({"expose", "update"}) EXCEPT ![e] = NoEdit]
      /\ overlap' = IF r.stale THEN overlap \cup {"lists"} ELSE overlap
      /\ UNCHANGED <<aliasRows, aliasId, pool, boot, unseated>>
  BY DEF ExposeWrites, EditCommits
<1>2. r \in ExposeEdit /\ ExposeOK(r)
  BY <1>1, EditKinds DEF AliasInv, EditsInv, EditOK
<1>3. g \in AliasGroup /\ m \in AliasModel /\ r.seen \subseteq AliasModel
  BY <1>2, GroupOfTarget DEF ExposeEdit
<1>4. overlap \subseteq overlap' /\ overlap' \subseteq {"pools", "lists"} /\ (r.stale => "lists" \in overlap')
  BY <1>1, AliasNumbers
<1>5. m \notin lists[g].blocked /\ (~r.stale => r.seen = lists[g].exposed)
  BY <1>2 DEF ExposeOK
<1> HIDE DEF r, g, m
<1>6. RowsInv'
  BY <1>1, <1>4, RestKeepsRows DEF AliasInv
<1>7. lists \in [AliasGroup -> GroupList] /\ promised \in [AliasGroup -> SUBSET AliasModel]
  BY DEF AliasInv, ListsInv
<1>8. lists'[g] = [lists[g] EXCEPT !.exposed = r.seen \cup {m}] /\ lists[g] \in GroupList
      /\ promised'[g] = promised[g] \cup {m} /\ promised[g] \subseteq AliasModel
  BY <1>1, <1>3, <1>7
<1>9. lists'[g] \in GroupList /\ lists'[g].blocked = lists[g].blocked /\ lists'[g].exposed = r.seen \cup {m}
  BY <1>3, <1>8 DEF GroupList
<1>10. \A h \in AliasGroup \ {g} : lists'[h] = lists[h] /\ promised'[h] = promised[h]
  BY <1>1, <1>7
<1>11. ListsInv'
  <2>1. lists' \in [AliasGroup -> GroupList] /\ promised' \in [AliasGroup -> SUBSET AliasModel]
    BY <1>1, <1>3, <1>7, <1>8, <1>9, <1>10
  <2>2. ASSUME "lists" \notin overlap', NEW h \in AliasGroup
        PROVE  promised'[h] \subseteq lists'[h].exposed \ lists'[h].blocked
    <3>1. promised[h] \subseteq lists[h].exposed \ lists[h].blocked
      BY <1>4, <2>2 DEF AliasInv, ListsInv
    <3>2. CASE h = g
      BY <1>4, <1>5, <1>8, <1>9, <2>2, <3>1, <3>2
    <3>3. CASE h # g
      BY <1>10, <3>1, <3>3
    <3> QED
      BY <3>2, <3>3
  <2> QED
    BY <2>1, <2>2 DEF ListsInv
<1>12. EditsInv'
  <2>1. \A h \in AliasGroup : lists'[h].blocked = lists[h].blocked
    BY <1>9, <1>10
  <2>2. aliasId' \in Nat /\ aliasId <= aliasId'
    BY <1>1, AliasNumbers
  <2>3. \A i \in DOMAIN aliasRows' : i \in DOMAIN aliasRows /\ aliasRows'[i] = aliasRows[i]
    BY <1>1
  <2> QED
    BY <1>1, <2>1, <2>2, <2>3, CommitKeeps
<1> QED
  BY <1>6, <1>11, <1>12 DEF AliasInv

LEMMA ExposedAlreadyKeeps ==
  ASSUME AliasInv, NEW t \in AliasTarget, ExposedAlready(t)
  PROVE  AliasInv'
<1> DEFINE g == t.group
           m == t.model
<1>1. /\ boot' = boot /\ m \in lists[g].exposed /\ m \notin lists[g].blocked
      /\ promised' = [promised EXCEPT ![g] = @ \cup {m}]
      /\ UNCHANGED <<aliasRows, aliasId, lists, edit, pool, unseated, overlap>>
  BY DEF ExposedAlready, AliasAct, Exposable
<1>2. g \in AliasGroup /\ m \in AliasModel
  BY GroupOfTarget
<1> HIDE DEF g, m
<1>3. RowsInv'
  BY <1>1, AliasNumbers, RestKeepsRows DEF AliasInv
<1>4. promised \in [AliasGroup -> SUBSET AliasModel]
  BY DEF AliasInv, ListsInv
<1>5. promised' \in [AliasGroup -> SUBSET AliasModel] /\ promised'[g] = promised[g] \cup {m}
      /\ \A h \in AliasGroup \ {g} : promised'[h] = promised[h]
  BY <1>1, <1>2, <1>4
<1>6. ListsInv'
  BY <1>1, <1>2, <1>5 DEF AliasInv, ListsInv
<1>7. EditsInv'
  BY <1>1 DEF AliasInv, EditsInv, EditOK, ReplaceOK, RenameOK, ExposeOK, UpdateOK, CandidatesOf
<1> QED
  BY <1>3, <1>6, <1>7 DEF AliasInv

LEMMA RefusedKeeps ==
  ASSUME AliasInv, NEW e \in Editor, WriteRefused(e)
  PROVE  AliasInv'
<1>1. /\ edit' = [edit EXCEPT ![e] = NoEdit]
      /\ UNCHANGED <<aliasRows, aliasId, lists, boot, pool, promised, unseated, overlap>>
  BY DEF WriteRefused
<1>2. RowsInv'
  BY <1>1, AliasNumbers, RestKeepsRows DEF AliasInv
<1>3. ListsInv'
  BY <1>1 DEF AliasInv, ListsInv
<1>4. EditsInv'
  BY <1>1, NoEditOK DEF AliasInv, EditsInv, EditOK, ReplaceOK, RenameOK, ExposeOK, UpdateOK, CandidatesOf
<1> QED
  BY <1>2, <1>3, <1>4 DEF AliasInv

\* Nobody is served while the service starts.
LEMMA BootKeeps ==
  ASSUME AliasInv, Boots \/ PlaceholderDropped \/ LegacyRenamed \/ Seeded
  PROVE  AliasInv'
<1>1. RowsInv'
  <2>1. CASE Boots
    BY <2>1, AliasNumbers, RestKeepsRows DEF Boots, AliasInv
  <2> QED
    BY <2>1, DropKeepsRows, RenameKeepsRows, SeedKeepsRows DEF AliasInv
<1>2. ListsInv'
  BY DEF AliasInv, ListsInv, Boots, PlaceholderDropped, LegacyRenamed, Seeded
<1>3. DOMAIN edit' = Editor /\ \A e \in Editor : edit'[e] = NoEdit
  <2>1. CASE Boots
    BY <2>1 DEF Boots
  <2>2. CASE PlaceholderDropped \/ LegacyRenamed \/ Seeded
    <3>1. boot # "done" /\ edit' = edit
      BY <2>2 DEF PlaceholderDropped, LegacyRenamed, Seeded
    <3> QED
      BY <3>1 DEF AliasInv, EditsInv
  <2> QED
    BY <2>1, <2>2
<1>4. EditsInv'
  <2>1. ASSUME NEW e \in Editor PROVE EditTyped(edit'[e]) /\ EditOK(edit[e])'
    <3>1. edit'[e].at = "idle" /\ edit'[e] = NoEdit
      BY <1>3, NoEditOK
    <3> QED
      BY <3>1, NoEditOK DEF EditOK
  <2> QED
    BY <1>3, <2>1 DEF EditsInv
<1> QED
  BY <1>1, <1>2, <1>4 DEF AliasInv

LEMMA AliasInitial == AliasInit => AliasInv
<1> SUFFICES ASSUME AliasInit PROVE AliasInv
  OBVIOUS
<1>0. /\ edit = [e \in Editor |-> NoEdit] /\ boot = "placeholder" /\ unseated = FALSE /\ overlap = {}
      /\ promised = [g \in AliasGroup |-> {}]
  BY DEF AliasInit
<1>1. RowsInv
  <2>1. CASE aliasId = 0 /\ aliasRows = [i \in {} |-> Reserved(ReservedName)] /\ pool = [i \in {} |-> 0]
    <3>1. DOMAIN aliasRows = {} /\ DOMAIN pool = {} /\ aliasRows \in [{} -> AliasRow] /\ pool \in [{} -> 0 .. aliasId]
      BY <2>1
    <3>2. aliasId \in 0 .. MaxAliasRows
      BY <2>1, AliasConstants
    <3>3. AliasesTyped
      BY <1>0, <3>1, <3>2 DEF AliasesTyped
    <3>4. PlaceholdersOnly
      BY <1>0, <3>1 DEF PlaceholdersOnly
    <3>5. PoolsApart
      BY <3>1 DEF PoolsApart, CandidatesOf
    <3> QED
      BY <3>3, <3>4, <3>5 DEF RowsInv
  <2>2. CASE /\ aliasId = 2
             /\ aliasRows = [i \in {1, 2} |-> IF i = 1 THEN Reserved(LegacyName)
                                             ELSE Candidate(LegacyName, CHOOSE t \in AliasTarget : TRUE)]
             /\ pool = [i \in {1, 2} |-> 2]
    <3>1. PICK t \in AliasTarget : t = CHOOSE t_1 \in AliasTarget : TRUE
      BY AliasConstants
    <3>2. /\ DOMAIN aliasRows = {1, 2} /\ aliasRows[1] = Reserved(LegacyName)
          /\ aliasRows[2] = Candidate(LegacyName, t)
      BY <2>2, <3>1
    <3>3. /\ LegacyName \in AliasName
          /\ aliasRows[2] \in AliasRow /\ aliasRows[2].alias = LegacyName /\ aliasRows[2].target # Nowhere
          /\ ~aliasRows[2].reserved /\ aliasRows[2].target = t
      BY <3>2, AliasConstants, CandidateIs
    <3>4. aliasRows[1] \in AliasRow /\ aliasRows[1].alias = LegacyName /\ aliasRows[1].target = Nowhere
      BY <3>2, AliasConstants DEF Reserved, AliasRow
    <3>5. AliasesTyped
      <4>1. aliasId \in 0 .. MaxAliasRows /\ DOMAIN aliasRows \subseteq 1 .. aliasId
        BY <2>2, <3>2, AliasConstants
      <4>2. aliasRows \in [DOMAIN aliasRows -> AliasRow]
        BY <2>2, <3>2, <3>3, <3>4
      <4>3. pool \in [DOMAIN aliasRows -> 0 .. aliasId]
        BY <2>2, <3>2
      <4> QED
        BY <1>0, <4>1, <4>2, <4>3 DEF AliasesTyped
    <3>6. Distinct(aliasRows)
      BY <3>2, <3>3, <3>4 DEF Distinct
    <3>7. PlaceholdersOnly
      BY <1>0, <3>2, <3>3, <3>4, <3>6 DEF PlaceholdersOnly
    <3>8. \A a : CandidatesOf(a) \subseteq {2} /\ (a # LegacyName => CandidatesOf(a) = {})
      BY <3>2, <3>3, <3>4 DEF CandidatesOf
    <3>9. PoolsApart
      <4>1. SUFFICES ASSUME NEW a \in Movable, NEW b \in Movable, NEW i \in CandidatesOf(a), NEW j \in CandidatesOf(b)
                     PROVE  a = b <=> pool[i] = pool[j]
        BY DEF PoolsApart
      <4>2. a = LegacyName /\ b = LegacyName /\ i = 2 /\ j = 2
        BY <3>8
      <4> QED
        BY <4>2
    <3> QED
      BY <3>5, <3>7, <3>9 DEF RowsInv
  <2> QED
    BY <2>1, <2>2 DEF AliasInit
<1>2. ListsInv
  <2>1. PICK r \in GroupLists :
          lists = [g \in AliasGroup |-> [specified |-> r.specified, exposed |-> {}, blocked |-> r.blocked]]
    BY DEF AliasInit
  <2>2. r.specified \in BOOLEAN /\ r.blocked \subseteq AliasModel
    BY AliasAssumption DEF AliasModel
  <2>3. [specified |-> r.specified, exposed |-> {}, blocked |-> r.blocked] \in GroupList
    BY <2>2 DEF GroupList
  <2> QED
    BY <1>0, <2>1, <2>3 DEF ListsInv
<1>3. EditsInv
  <2>1. DOMAIN edit = Editor /\ \A e \in Editor : edit[e] = NoEdit
    BY <1>0
  <2> QED
    BY <2>1, NoEditOK DEF EditsInv
<1> QED
  BY <1>1, <1>2, <1>3 DEF AliasInv

LEMMA AliasStep == AliasInv /\ [AliasNext]_aliasVars => AliasInv'
<1> SUFFICES ASSUME AliasInv, [AliasNext]_aliasVars PROVE AliasInv'
  OBVIOUS
<1>1. ASSUME NEW e \in Editor, ReplaceWrites(e) \/ RenameWrites(e) \/ ExposeWrites(e) \/ WriteRefused(e)
      PROVE  AliasInv'
  BY <1>1, ReplaceWriteKeeps, RenameWriteKeeps, ExposeWriteKeeps, RefusedKeeps
<1>2. ASSUME NEW e \in Editor, NEW a \in AliasName, NEW want \in SUBSET AliasTarget, ReplaceReads(e, a, want)
      PROVE  AliasInv'
  BY <1>2, ReplaceReadKeeps
<1>3. ASSUME NEW e \in Editor, NEW from \in Movable, NEW to \in Movable, RenameCounts(e, from, to)
      PROVE  AliasInv'
  BY <1>3, RenameCountKeeps
<1>4. ASSUME NEW e \in Editor, NEW t \in AliasTarget, ExposeReads(e, t)
      PROVE  AliasInv'
  BY <1>4, ExposeReadKeeps
<1>5. ASSUME NEW a \in AliasName, NEW ts \in SUBSET AliasTarget, CreateMany(a, ts)
      PROVE  AliasInv'
  BY <1>5, CreateKeeps
<1>6. ASSUME NEW i, DeleteRow(i)
      PROVE  AliasInv'
  BY <1>6, DeleteRowKeeps
<1>7. ASSUME NEW i, NEW t \in AliasTarget, UpdateRow(i, t)
      PROVE  AliasInv'
  BY <1>7, UpdateKeeps
<1>8. ASSUME NEW e \in Editor,
             \/ \E g \in AliasGroup : UpdateReads(e, g)
             \/ ListsKept(e) \/ \E models \in SUBSET AliasModel : ListsEdited(e, models)
      PROVE  AliasInv'
  BY <1>8, UpdateReadKeeps, UpdateWriteKeeps
<1>9. ASSUME NEW t \in AliasTarget, ExposedAlready(t)
      PROVE  AliasInv'
  BY <1>9, ExposedAlreadyKeeps
<1>10. CASE UNCHANGED aliasVars
  <2>1. UNCHANGED <<aliasRows, aliasId, lists, edit, boot, pool, promised, unseated, overlap>>
    BY <1>10 DEF aliasVars
  <2>2. RowsInv'
    BY <2>1, AliasNumbers, RestKeepsRows DEF AliasInv
  <2>3. ListsInv'
    BY <2>1 DEF AliasInv, ListsInv
  <2>4. EditsInv'
    BY <2>1 DEF AliasInv, EditsInv, EditOK, ReplaceOK, RenameOK, ExposeOK, UpdateOK, CandidatesOf
  <2> QED
    BY <2>2, <2>3, <2>4 DEF AliasInv
<1> QED
  BY <1>1, <1>2, <1>3, <1>4, <1>5, <1>6, <1>7, <1>8, <1>9, <1>10, BootKeeps DEF AliasNext, AliasName

LEMMA AliasGoal == AliasInv => AliasesSound /\ AliasTypeOK
<1> SUFFICES ASSUME AliasInv PROVE AliasesSound /\ AliasTypeOK
  OBVIOUS
<1>1. AliasesSound
  BY DEF AliasInv, RowsInv, PoolsApart, PlaceholdersOnly, ListsInv, AliasesSound
<1>2. AliasTypeOK
  <2>1. \A g \in AliasGroup : lists[g].exposed \subseteq AliasModel /\ promised[g] \subseteq AliasModel
    BY DEF AliasInv, ListsInv, GroupList
  <2>2. \A e \in Editor : edit[e].at \in {"idle", "replace", "rename", "expose", "update"}
    BY NoEditOK, EditKinds DEF AliasInv, EditsInv
  <2>3. \A i \in DOMAIN aliasRows : aliasRows[i] \in AliasRow /\ pool[i] \in 0 .. MaxAliasRows
    BY AliasConstants DEF AliasInv, RowsInv, AliasesTyped
  <2> QED
    BY <2>1, <2>2, <2>3 DEF AliasInv, RowsInv, AliasesTyped, AliasTypeOK
<1> QED
  BY <1>1, <1>2

\* For any administrators, groups, channels, aliases, targets and lists, in any order of their
\* requests' steps: an aggregate is never a sub-group, links fit but for groups that two
\* requests touched at once, a pool of candidates moves as a whole, a model that was said to
\* be exposed is, and reserved names keep their placeholder (ValidateSubGroups, UpdateGroup,
\* RenameAlias, ExposeCandidate, EnsureReservedSeeded).
THEOREM AdminSoundCorrect == Spec => []AdminSound
<1>1. ServicesInit => GroupInv /\ AliasInv
  BY GroupInitial, AliasInitial DEF ServicesInit
<1>2. GroupInv /\ AliasInv /\ [ServicesNext]_vars => GroupInv' /\ AliasInv'
  BY GroupStep, AliasStep, GroupPart, AliasPart
<1>3. GroupInv /\ AliasInv => AdminSound
  BY AliasGoal DEF AdminSound, GroupInv, GroupsSound
<1> QED
  BY <1>1, <1>2, <1>3, PTL DEF Spec

--------------------------------------------------------------------------
(* Backups *)

GroupRow(g) == <<"group", g>>

FileOK(f) == f.there \in Rows /\ Sound(f.there) /\ f.rows = Export(f.there)

BackupInv ==
    /\ content \in Rows /\ Sound(content)
    /\ unlinked \subseteq {r \in Content : IsA("link", r) /\ content[r] = Absent}
    /\ \A f \in files : f \in [rows : Rows, there : Rows] /\ FileOK(f)
    /\ tokens \subseteq files
    /\ \/ restored = NotRestored
       \/ /\ restored \in [how : Strategy, file : files, before : Rows]
          /\ RestoreSound

\* What ties a row to the groups that it names.
LEMMA RowEnds ==
  ASSUME NEW r \in Content
  PROVE  /\ EndsOf(r) = {} <=> IsA("setting", r) \/ IsA("group", r)
         /\ r[1] \in {"key", "alias"} => EndsOf(r) = {r[2]}
         /\ IsA("group", r) => r = GroupRow(r[2]) /\ r[2] \in Standard
<1>1. r[1] \in {"setting", "group", "key", "alias", "link"}
  BY BackupAssumption
<1>2. IsA("group", r) => r = GroupRow(r[2]) /\ r[2] \in Standard
  BY BackupAssumption DEF GroupRow, Standard
<1>3. EndsOf(r) = {} <=> IsA("setting", r) \/ IsA("group", r)
  BY <1>1 DEF EndsOf, IsA
<1>4. r[1] \in {"key", "alias"} => EndsOf(r) = {r[2]}
  BY <1>1 DEF EndsOf, IsA
<1> QED
  BY <1>2, <1>3, <1>4

LEMMA StandardRow ==
  ASSUME NEW g \in Standard
  PROVE  GroupRow(g) \in Content /\ IsA("group", GroupRow(g)) /\ EndsOf(GroupRow(g)) = {} /\ GroupRow(g) \notin Unreadable
<1>1. PICK x \in Content : IsA("group", x) /\ g = x[2]
  BY DEF Standard
<1>2. x = GroupRow(g)
  BY <1>1, RowEnds
<1>3. x \notin Unreadable
  BY <1>1, BackupAssumption DEF IsA
<1> QED
  BY <1>1, <1>2, <1>3, RowEnds

LEMMA LivingIs ==
  ASSUME NEW c, NEW g
  PROVE  g \in Living(c) <=> g = SystemGroup \/ (g \in Standard /\ Has(c, GroupRow(g)))
  BY DEF Living, GroupRow

LEMMA LivingGrows ==
  ASSUME NEW c, NEW d, \A g \in Standard : Has(c, GroupRow(g)) => Has(d, GroupRow(g))
  PROVE  /\ Living(c) \subseteq Living(d)
         /\ \A r \in Content : Resolves(c, r) => Resolves(d, r)
  BY LivingIs DEF Resolves

LEMMA ExportIs ==
  ASSUME NEW c \in Rows
  PROVE  /\ Export(c) \in Rows
         /\ \A r \in Content : Export(c)[r] = IF r \in Unreadable THEN Absent ELSE c[r]
  BY DEF Export, Rows, Absent

LEMMA UpsertIs ==
  ASSUME NEW old \in Value \cup {Absent}, NEW new \in Value \cup {Absent}, NEW how \in Strategy
  PROVE  /\ Upsert(old, new, how) \in Value \cup {Absent}
         /\ old # Absent => Upsert(old, new, how) # Absent
         /\ new # Absent => Upsert(old, new, how) # Absent
         /\ new # Absent /\ (how # "skip" \/ old = Absent) => Upsert(old, new, how) = new
         /\ new = Absent \/ (how = "skip" /\ old # Absent) => Upsert(old, new, how) = old
  BY DEF Upsert

LEMMA BasisIs ==
  ASSUME NEW c \in Rows, NEW how \in Strategy, Sound(c)
  PROVE  /\ Basis(c, how) \in Rows /\ Sound(Basis(c, how))
         /\ how # "replace" => Basis(c, how) = c
         /\ how = "replace" => \A r \in Content : ~IsA("setting", r) => Basis(c, how)[r] = Absent
<1>1. CASE how = "replace"
  <2>1. \A r \in Content : wipeStandardGroups(c)[r] = IF IsA("setting", r) THEN c[r] ELSE Absent
    BY DEF wipeStandardGroups
  <2>2. wipeStandardGroups(c) \in Rows
    BY DEF wipeStandardGroups, Rows
  <2>3. Sound(wipeStandardGroups(c))
    BY <2>1, RowEnds DEF Sound, Has, Resolves
  <2> QED
    BY <1>1, <2>1, <2>2, <2>3 DEF Basis
<1>2. CASE how # "replace"
  BY <1>2 DEF Basis
<1> QED
  BY <1>1, <1>2

\* The rows after an import, one by one.
LEMMA ImportIs ==
  ASSUME NEW base \in Rows, NEW f \in Rows, NEW how \in Strategy, NEW tombs, NEW w, NEW n,
         w = WithGroups(base, f, how), n = Backfilled(Imported(base, f, how), tombs)
  PROVE  /\ w \in Rows /\ n \in Rows
         /\ \A r \in Content : w[r] = IF EndsOf(r) = {} THEN Upsert(base[r], f[r], how) ELSE base[r]
         /\ \A r \in Content : EndsOf(r) = {} => n[r] = w[r]
         /\ \A r \in Content : EndsOf(r) # {} /\ ~SkipsWith(base, f, how, r) /\ Resolves(w, r)
                                 /\ Upsert(base[r], f[r], how) # Absent => n[r] = Upsert(base[r], f[r], how)
         /\ \A r \in Content : base[r] # Absent /\ (SkipsWith(base, f, how, r) \/ ~Resolves(w, r)) /\ EndsOf(r) # {}
                                 => n[r] = base[r]
         /\ \A r \in Content : f[r] = Absent /\ base[r] = Absent /\ n[r] # Absent => JoinsAlone(r)
         /\ \A r \in Content : EndsOf(r) # {} /\ base[r] = Absent /\ n[r] # Absent => Resolves(w, r)
         /\ \A r \in Content : r \in tombs /\ base[r] = Absent /\ IsA("link", r) /\ n[r] # Absent =>
                                 Has(f, r) /\ Resolves(w, r)
<1> DEFINE m == Imported(base, f, how)
<1>1. w \in Rows /\ \A r \in Content : w[r] = IF EndsOf(r) = {} THEN Upsert(base[r], f[r], how) ELSE base[r]
  <2>1. \A r \in Content : w[r] = IF EndsOf(r) = {} THEN Upsert(base[r], f[r], how) ELSE base[r]
    BY DEF WithGroups
  <2>2. \A r \in Content : base[r] \in Value \cup {Absent} /\ Upsert(base[r], f[r], how) \in Value \cup {Absent}
    BY UpsertIs DEF Rows
  <2>3. w = [r \in Content |-> w[r]]
    BY DEF WithGroups
  <2> QED
    BY <2>1, <2>2, <2>3 DEF Rows
<1>2. \A r \in Content : m[r] = IF EndsOf(r) = {} \/ SkipsWith(base, f, how, r) \/ ~Resolves(w, r)
                                THEN w[r] ELSE Upsert(w[r], f[r], how)
  BY DEF Imported
<1>3. \A r \in Content : m[r] \in Value \cup {Absent}
  <2>1. \A r \in Content : w[r] \in Value \cup {Absent} /\ f[r] \in Value \cup {Absent}
    BY <1>1 DEF Rows
  <2> QED
    BY <1>2, <2>1, UpsertIs
<1> HIDE DEF m
<1>4. \A r \in Content : n[r] = IF IsA("link", r) /\ r[2] = SystemGroup /\ m[r] = Absent /\ r \notin tombs /\ Resolves(m, r)
                                THEN 1 ELSE m[r]
  BY DEF Backfilled, m, Has
<1>5. n \in Rows
  <2>1. n = [r \in Content |-> n[r]]
    BY DEF Backfilled
  <2>2. \A r \in Content : n[r] \in Value \cup {Absent}
    BY <1>3, <1>4 DEF Value
  <2> QED
    BY <2>1, <2>2 DEF Rows
<1>6. \A r \in Content : Resolves(m, r) => Resolves(w, r)
  <2>1. \A g \in Standard : m[GroupRow(g)] = w[GroupRow(g)]
    BY <1>2, StandardRow
  <2> QED
    BY <2>1, LivingGrows DEF Has
<1>7. \A r \in Content : EndsOf(r) = {} => ~IsA("link", r)
  BY RowEnds DEF IsA
<1>8. 1 # Absent
  BY DEF Absent
<1>9. ASSUME NEW r \in Content
      PROVE  /\ EndsOf(r) = {} => n[r] = w[r]
             /\ EndsOf(r) # {} /\ ~SkipsWith(base, f, how, r) /\ Resolves(w, r)
                  /\ Upsert(base[r], f[r], how) # Absent => n[r] = Upsert(base[r], f[r], how)
             /\ base[r] # Absent /\ (SkipsWith(base, f, how, r) \/ ~Resolves(w, r)) /\ EndsOf(r) # {}
                  => n[r] = base[r]
             /\ EndsOf(r) # {} /\ base[r] = Absent /\ n[r] # Absent => Resolves(w, r)
  BY <1>1, <1>2, <1>4, <1>6, <1>7
<1>10. ASSUME NEW r \in Content
       PROVE  f[r] = Absent /\ base[r] = Absent /\ n[r] # Absent => JoinsAlone(r)
  <2>1. f[r] = Absent /\ base[r] = Absent => w[r] = Absent /\ m[r] = Absent
    BY <1>1, <1>2 DEF Upsert
  <2> QED
    BY <1>4, <2>1 DEF JoinsAlone
<1>11. ASSUME NEW r \in Content
       PROVE  r \in tombs /\ base[r] = Absent /\ IsA("link", r) /\ n[r] # Absent => Has(f, r) /\ Resolves(w, r)
  <2>1. IsA("link", r) => EndsOf(r) # {}
    BY <1>7
  <2>2. r \in tombs => n[r] = m[r]
    BY <1>4
  <2> QED
    BY <1>1, <1>2, <2>1, <2>2 DEF Upsert, Has
<1> QED
  BY <1>1, <1>5, <1>9, <1>10, <1>11

\* What an import of the backup of a sound database into a sound one comes to.
LEMMA ImportRestores ==
  ASSUME NEW c \in Rows, Sound(c), NEW there \in Rows, Sound(there), NEW f, f = Export(there),
         NEW how \in Strategy, NEW tombs, NEW n, n = Backfilled(Imported(Basis(c, how), f, how), tombs)
  PROVE  /\ n \in Rows /\ Sound(n)
         /\ how # "skip" => \A r \in Content \ Unreadable : Has(there, r) => n[r] = there[r]
         /\ how = "replace" => \A r \in Content : (r \in Unreadable \/ ~Has(there, r)) /\ Has(n, r) =>
                                                     IsA("setting", r) \/ JoinsAlone(r)
         /\ how = "skip" =>
              /\ \A r \in Content : Has(c, r) => n[r] = c[r]
              /\ \A r \in Content \ Unreadable : Has(there, r) /\ ~Resolves(c, r) => n[r] = there[r]
<1> DEFINE base == Basis(c, how)
           w == WithGroups(base, f, how)
<1>1. /\ f \in Rows /\ \A r \in Content : f[r] = IF r \in Unreadable THEN Absent ELSE there[r]
  BY ExportIs
<1>2. /\ base \in Rows /\ Sound(base)
      /\ how # "replace" => base = c
      /\ how = "replace" => \A r \in Content : ~IsA("setting", r) => base[r] = Absent
  BY BasisIs
<1> HIDE DEF base
<1>3. /\ w \in Rows /\ n \in Rows
      /\ \A r \in Content : w[r] = IF EndsOf(r) = {} THEN Upsert(base[r], f[r], how) ELSE base[r]
      /\ \A r \in Content : EndsOf(r) = {} => n[r] = w[r]
      /\ \A r \in Content : EndsOf(r) # {} /\ ~SkipsWith(base, f, how, r) /\ Resolves(w, r)
                              /\ Upsert(base[r], f[r], how) # Absent => n[r] = Upsert(base[r], f[r], how)
      /\ \A r \in Content : base[r] # Absent /\ (SkipsWith(base, f, how, r) \/ ~Resolves(w, r)) /\ EndsOf(r) # {}
                              => n[r] = base[r]
      /\ \A r \in Content : f[r] = Absent /\ base[r] = Absent /\ n[r] # Absent => JoinsAlone(r)
      /\ \A r \in Content : EndsOf(r) # {} /\ base[r] = Absent /\ n[r] # Absent => Resolves(w, r)
  BY <1>1, <1>2, ImportIs DEF base
<1> HIDE DEF w
<1>4. \A r \in Content : base[r] \in Value \cup {Absent} /\ f[r] \in Value \cup {Absent} /\ there[r] \in Value \cup {Absent}
  BY <1>1, <1>2 DEF Rows
<1>5. ASSUME NEW r \in Content, EndsOf(r) = {}, Has(base, r) \/ Has(f, r) PROVE Has(w, r)
  <2>1. base[r] \in Value \cup {Absent} /\ f[r] \in Value \cup {Absent} /\ w[r] = Upsert(base[r], f[r], how)
    BY <1>3, <1>4, <1>5
  <2>2. base[r] # Absent \/ f[r] # Absent
    BY <1>5 DEF Has
  <2>3. Upsert(base[r], f[r], how) # Absent
    BY <2>1, <2>2, UpsertIs
  <2> QED
    BY <2>1, <2>3 DEF Has
\* The groups of the file and those that were there are there.
<1>6. /\ \A r \in Content : Resolves(there, r) => Resolves(w, r)
      /\ \A r \in Content : Resolves(base, r) => Resolves(w, r)
  <2>1. \A g \in Standard : Has(base, GroupRow(g)) => Has(w, GroupRow(g))
    BY <1>5, StandardRow
  <2>2. \A g \in Standard : Has(there, GroupRow(g)) => Has(w, GroupRow(g))
    BY <1>1, <1>5, StandardRow DEF Has
  <2> QED
    BY <2>1, <2>2, LivingGrows
<1>7. \A r \in Content : Resolves(w, r) => Resolves(n, r)
  <2>1. \A g \in Standard : Has(w, GroupRow(g)) => Has(n, GroupRow(g))
    BY <1>3, StandardRow DEF Has
  <2> QED
    BY <2>1, LivingGrows
<1>8. Sound(n)
  <2> SUFFICES ASSUME NEW r \in Content, Has(n, r) PROVE Resolves(w, r)
    BY <1>7 DEF Sound
  <2>1. CASE EndsOf(r) = {}
    BY <2>1 DEF Resolves
  <2>2. CASE EndsOf(r) # {} /\ base[r] = Absent
    BY <1>3, <2>2 DEF Has
  <2>3. CASE base[r] # Absent
    BY <1>2, <1>6, <2>3 DEF Sound, Has
  <2> QED
    BY <2>1, <2>2, <2>3
<1>9. ASSUME how # "skip", NEW r \in Content \ Unreadable, Has(there, r) PROVE n[r] = there[r]
  <2>1. f[r] = there[r] /\ f[r] # Absent /\ Upsert(base[r], f[r], how) = f[r]
    BY <1>1, <1>4, <1>9, UpsertIs DEF Has
  <2>2. Resolves(w, r)
    BY <1>6, <1>9 DEF Sound
  <2>3. ~SkipsWith(base, f, how, r)
    BY <1>9 DEF SkipsWith
  <2> QED
    BY <1>3, <2>1, <2>2, <2>3
<1>10. ASSUME how = "replace", NEW r \in Content, r \in Unreadable \/ ~Has(there, r), Has(n, r), ~IsA("setting", r)
       PROVE  JoinsAlone(r)
  <2>1. f[r] = Absent /\ base[r] = Absent
    BY <1>1, <1>2, <1>10 DEF Has
  <2> QED
    BY <1>3, <1>10, <2>1 DEF Has
<1>11. ASSUME how = "skip", NEW r \in Content, Has(c, r) PROVE n[r] = c[r]
  <2>1. base = c /\ base[r] # Absent /\ Upsert(base[r], f[r], how) = base[r]
    BY <1>2, <1>4, <1>11, UpsertIs DEF Has
  <2> QED
    BY <1>3, <2>1
<1>12. ASSUME how = "skip", NEW r \in Content \ Unreadable, Has(there, r), ~Resolves(c, r) PROVE n[r] = there[r]
  <2>1. base = c /\ ~Has(c, r)
    BY <1>2, <1>12 DEF Sound
  <2>2. EndsOf(r) # {}
    BY <1>12 DEF Resolves
  <2>3. f[r] = there[r] /\ f[r] # Absent /\ Upsert(base[r], f[r], how) = f[r]
    BY <1>1, <1>4, <1>12, <2>1, UpsertIs DEF Has
  <2>4. Resolves(w, r)
    BY <1>6, <1>12 DEF Sound
  <2>5. ~SkipsWith(base, f, how, r)
    <3> SUFFICES ASSUME SkipsWith(base, f, how, r) PROVE FALSE
      OBVIOUS
    <3>1. EndsOf(r) = {r[2]} /\ Has(base, GroupRow(r[2]))
      BY RowEnds DEF SkipsWith, GroupRow
    <3>2. r[2] \notin Living(c)
      BY <1>12, <3>1 DEF Resolves
    <3>3. r[2] \in Living(there)
      BY <1>12, <3>1 DEF Sound, Resolves
    <3>4. r[2] # SystemGroup /\ r[2] \in Standard
      BY <3>2, <3>3, LivingIs
    <3> QED
      BY <2>1, <3>1, <3>2, <3>4, LivingIs
  <2> QED
    BY <1>3, <2>2, <2>3, <2>4, <2>5
<1> QED
  BY <1>3, <1>8, <1>9, <1>10, <1>11, <1>12

LEMMA ImportKeeps ==
  ASSUME BackupInv, NEW f \in files, NEW how \in Strategy, Import(f, how)
  PROVE  BackupInv'
<1>1. tokens' \subseteq files' /\ files' = files
  BY DEF Import, BackupInv
<1>2. \A x \in files' : x \in [rows : Rows, there : Rows] /\ FileOK(x)
  BY <1>1 DEF BackupInv
<1>3. CASE UNCHANGED <<content, unlinked, restored>>
  <2>1. content' \in Rows /\ Sound(content)' /\ unlinked' \subseteq {r \in Content : IsA("link", r) /\ content'[r] = Absent}
    BY <1>3 DEF BackupInv, Sound, Has, Resolves, Living
  <2>2. RestoreSound' <=> RestoreSound
    BY <1>3 DEF RestoreSound, Saved, Has, Resolves, Living
  <2> QED
    BY <1>1, <1>2, <1>3, <2>1, <2>2 DEF BackupInv, FileOK, Sound, Has, Resolves, Living
<1>4. CASE /\ ~Collides(f.rows, how)
           /\ LET tombs == IF how = "replace" THEN {} ELSE unlinked IN
              /\ content' = Backfilled(Imported(Basis(content, how), f.rows, how), tombs)
              /\ unlinked' = tombs
           /\ restored' = [how |-> how, file |-> f, before |-> content]
  <2> DEFINE tombs == IF how = "replace" THEN {} ELSE unlinked
  <2>1. /\ content \in Rows /\ Sound(content) /\ f.there \in Rows /\ Sound(f.there) /\ f.rows = Export(f.there)
        /\ f.rows \in Rows
    BY ExportIs DEF BackupInv, FileOK
  <2>2. /\ content' \in Rows /\ Sound(content')
        /\ how # "skip" => \A r \in Content \ Unreadable : Has(f.there, r) => content'[r] = f.there[r]
        /\ how = "replace" => \A r \in Content : (r \in Unreadable \/ ~Has(f.there, r)) /\ Has(content', r) =>
                                                     IsA("setting", r) \/ JoinsAlone(r)
        /\ how = "skip" =>
             /\ \A r \in Content : Has(content, r) => content'[r] = content[r]
             /\ \A r \in Content \ Unreadable : Has(f.there, r) /\ ~Resolves(content, r) => content'[r] = f.there[r]
    BY <1>4, <2>1, ImportRestores
  <2>3. unlinked' \subseteq {r \in Content : IsA("link", r) /\ content'[r] = Absent}
    <3>1. CASE how = "replace"
      BY <1>4, <3>1
    <3>2. CASE how # "replace"
      <4>1. Basis(content, how) = content /\ unlinked' = unlinked
        BY <1>4, <3>2 DEF Basis
      <4>2. \A r \in Content : r \in unlinked /\ content[r] = Absent /\ IsA("link", r) /\ content'[r] # Absent =>
                                 Has(f.rows, r) /\ Resolves(WithGroups(content, f.rows, how), r)
        BY <1>4, <2>1, <3>2, <4>1, ImportIs
      <4>3. \A r \in unlinked : r \in Content /\ IsA("link", r) /\ content[r] = Absent
        BY DEF BackupInv
      <4>4. \A r \in unlinked : content'[r] = Absent
        BY <1>4, <3>2, <4>2, <4>3 DEF Collides
      <4> QED
        BY <4>1, <4>3, <4>4
    <3> QED
      BY <3>1, <3>2
  <2>4. restored'.how = how /\ restored'.file = f /\ restored'.before = content
        /\ restored' \in [how : Strategy, file : files', before : Rows]
    BY <1>1, <1>4, <2>1
  <2>5. RestoreSound'
    <3>1. Saved' = {r \in Content \ Unreadable : Has(f.there, r)}
      BY <2>4 DEF Saved
    <3>2. /\ restored'.how \in {"replace", "overwrite"} => \A r \in Saved' : content'[r] = restored'.file.there[r]
          /\ restored'.how = "replace" =>
               \A r \in Content \ Saved' : Has(content', r) => IsA("setting", r) \/ JoinsAlone(r)
          /\ restored'.how = "skip" =>
               /\ \A r \in Content : Has(restored'.before, r) => content'[r] = restored'.before[r]
               /\ \A r \in Saved' : ~Resolves(restored'.before, r) => content'[r] = restored'.file.there[r]
      BY <2>2, <2>4, <3>1
    <3> QED
      BY <3>2 DEF RestoreSound
  <2> QED
    BY <1>1, <1>2, <2>2, <2>3, <2>4, <2>5 DEF BackupInv, FileOK, Sound, Has, Resolves, Living
<1> QED
  BY <1>3, <1>4 DEF Import

\* The files and the previews do not depend on what is edited.
LEMMA BackupEdited ==
  ASSUME BackupInv, content' \in Rows, Sound(content'),
         unlinked' \subseteq {r \in Content : IsA("link", r) /\ content'[r] = Absent},
         restored' = NotRestored, UNCHANGED <<files, tokens>>
  PROVE  BackupInv'
  BY DEF BackupInv, FileOK, Sound, Has, Resolves, Living

LEMMA WritesKeep ==
  ASSUME BackupInv, NEW r \in Content, NEW v \in Value, Writes(r, v)
  PROVE  BackupInv'
<1>1. /\ Resolves(content, r) /\ r \notin unlinked /\ content' = [content EXCEPT ![r] = v]
      /\ restored' = NotRestored /\ UNCHANGED <<unlinked, files, tokens>> /\ v # Absent
  BY DEF Writes, Value, Absent
<1>2. content' \in Rows /\ content'[r] = v /\ \A x \in Content \ {r} : content'[x] = content[x]
  BY <1>1 DEF BackupInv, Rows
<1>3. \A x \in Content : Resolves(content, x) => Resolves(content', x)
  <2>1. \A g \in Standard : Has(content, GroupRow(g)) => Has(content', GroupRow(g))
    BY <1>1, <1>2, StandardRow DEF Has
  <2> QED
    BY <2>1, LivingGrows
<1>4. Sound(content')
  BY <1>1, <1>2, <1>3 DEF Sound, BackupInv, Has
<1>5. unlinked' \subseteq {x \in Content : IsA("link", x) /\ content'[x] = Absent}
  BY <1>1, <1>2 DEF BackupInv
<1> QED
  BY <1>1, <1>2, <1>4, <1>5, BackupEdited

LEMMA RemovesKeep ==
  ASSUME BackupInv, NEW r \in Content, Removes(r)
  PROVE  BackupInv'
<1>1. /\ Has(content, r) /\ content' = Gone(content, r)
      /\ unlinked' = {l \in unlinked : ~(IsA("group", r) /\ r[2] \in EndsOf(l))}
                       \cup (IF IsA("link", r) THEN {r} ELSE {})
      /\ restored' = NotRestored /\ UNCHANGED <<files, tokens>>
  BY DEF Removes
<1>2. /\ content' \in Rows
      /\ \A x \in Content : content'[x] = IF x = r \/ (IsA("group", r) /\ r[2] \in EndsOf(x)) THEN Absent ELSE content[x]
  <2>1. \A x \in Content : content[x] \in Value \cup {Absent}
    BY DEF BackupInv, Rows
  <2> QED
    BY <1>1, <2>1 DEF Gone, Rows
<1>3. Sound(content')
  <2> SUFFICES ASSUME NEW x \in Content, Has(content', x), NEW g \in EndsOf(x) PROVE g \in Living(content')
    BY DEF Sound, Resolves
  <2>1. Has(content, x) /\ ~(IsA("group", r) /\ r[2] = g)
    BY <1>2 DEF Has
  <2>2. g \in Living(content)
    BY <2>1 DEF BackupInv, Sound, Resolves
  <2>3. CASE g = SystemGroup
    BY <2>3, LivingIs
  <2>4. CASE g # SystemGroup
    <3>1. g \in Standard /\ Has(content, GroupRow(g))
      BY <2>2, <2>4, LivingIs
    <3>2. GroupRow(g) \in Content /\ IsA("group", GroupRow(g)) /\ EndsOf(GroupRow(g)) = {} /\ GroupRow(g)[2] = g
      BY <3>1, StandardRow DEF GroupRow
    <3>3. GroupRow(g) # r
      BY <2>1, <3>2
    <3>4. content'[GroupRow(g)] = content[GroupRow(g)]
      BY <1>2, <3>2, <3>3
    <3> QED
      BY <3>1, <3>4, LivingIs DEF Has
  <2> QED
    BY <2>3, <2>4
<1>4. unlinked' \subseteq {x \in Content : IsA("link", x) /\ content'[x] = Absent}
  BY <1>1, <1>2 DEF BackupInv
<1> QED
  BY <1>1, <1>2, <1>3, <1>4, BackupEdited

LEMMA FilesKeep ==
  ASSUME BackupInv, Exports \/ \E f \in files : Preview(f) \/ PreviewExpires(f)
  PROVE  BackupInv'
<1>1. /\ UNCHANGED <<content, unlinked, restored>> /\ files \subseteq files' /\ tokens' \subseteq files'
      /\ \A f \in files' : f \in files \/ f = [rows |-> Export(content), there |-> content]
  BY DEF Exports, Preview, PreviewExpires, BackupInv
<1>2. ASSUME NEW f \in files' PROVE f \in [rows : Rows, there : Rows] /\ FileOK(f)
  <2>1. CASE f \in files
    BY <2>1 DEF BackupInv
  <2>2. CASE f = [rows |-> Export(content), there |-> content]
    <3>1. content \in Rows /\ Sound(content) /\ Export(content) \in Rows
      BY ExportIs DEF BackupInv
    <3> QED
      BY <2>2, <3>1 DEF FileOK
  <2> QED
    BY <1>1, <2>1, <2>2
<1>3. content' \in Rows /\ Sound(content') /\ unlinked' \subseteq {r \in Content : IsA("link", r) /\ content'[r] = Absent}
  BY <1>1 DEF BackupInv
<1>4. restored' = NotRestored \/ (restored' \in [how : Strategy, file : files', before : Rows] /\ RestoreSound')
  <2>1. RestoreSound' <=> RestoreSound
    BY <1>1 DEF RestoreSound, Saved
  <2> QED
    BY <1>1, <2>1 DEF BackupInv
<1> QED
  BY <1>1, <1>2, <1>3, <1>4 DEF BackupInv, FileOK, Sound, Has, Resolves, Living

LEMMA BackupInitial == BackupInit => BackupInv
<1> SUFFICES ASSUME BackupInit PROVE BackupInv
  OBVIOUS
<1>1. content \in Rows /\ \A r \in Content : content[r] # Absent
  BY DEF BackupInit, Rows, Value, Absent
<1>2. Sound(content)
  <2>1. \A g \in Standard : Has(content, GroupRow(g))
    BY <1>1, StandardRow DEF Has
  <2> QED
    BY <2>1, LivingIs, ContentAssumption DEF Sound, Resolves
<1> QED
  BY <1>1, <1>2 DEF BackupInit, BackupInv

LEMMA BackupStep == BackupInv /\ [BackupNext]_backupVars => BackupInv'
<1> SUFFICES ASSUME BackupInv, [BackupNext]_backupVars PROVE BackupInv'
  OBVIOUS
<1>1. CASE UNCHANGED backupVars
  <2>1. UNCHANGED <<content, unlinked, files, tokens, restored>>
    BY <1>1 DEF backupVars
  <2>2. RestoreSound' <=> RestoreSound
    BY <2>1 DEF RestoreSound, Saved
  <2> QED
    BY <2>1, <2>2 DEF BackupInv, FileOK, Sound, Has, Resolves, Living
<1> QED
  BY <1>1, WritesKeep, RemovesKeep, FilesKeep, ImportKeeps DEF BackupNext

LEMMA BackupGoal == BackupInv => BackupSound /\ BackupTypeOK
<1> SUFFICES ASSUME BackupInv PROVE BackupSound /\ BackupTypeOK
  OBVIOUS
<1>1. NotRestored.how = "none"
  BY DEF NotRestored
<1>2. RestoreSound
  <2>1. CASE restored = NotRestored
    BY <1>1, <2>1 DEF RestoreSound
  <2> QED
    BY <2>1 DEF BackupInv
<1>3. BackupTypeOK
  BY DEF BackupInv, BackupTypeOK
<1> QED
  BY <1>2, <1>3 DEF BackupSound, BackupInv

\* For any rows and files, whatever was written and deleted between export and import: no row
\* is left without its groups, and each strategy restores what it promises (Exporter.Export,
\* Importer.Import).
THEOREM BackupSoundCorrect == Spec => []BackupSound
<1>1. ServicesInit => BackupInv
  BY BackupInitial DEF ServicesInit
<1>2. BackupInv /\ [ServicesNext]_vars => BackupInv'
  BY BackupStep, BackupPart
<1>3. BackupInv => BackupSound
  BY BackupGoal
<1> QED
  BY <1>1, <1>2, <1>3, PTL DEF Spec

USE MigrationAssumption

--------------------------------------------------------------------------
(* Encryption *)

\* What one secret makes of a plain key.
LEMMA OneLayer ==
    ASSUME NEW s \in Secrets
    PROVE  Encrypted(<<>>, s) = IF s = NoSecret THEN <<>> ELSE <<s>>
<1>1. <<s>> \o <<>> = <<s>>
  OBVIOUS
<1>. QED  BY <1>1 DEF Encrypted

\* Only its own secret opens an encrypted key, and leaves the plain one.
LEMMA OnlyItsSecretOpens ==
    ASSUME NEW s \in Secrets, NEW t \in Secrets,
           Decryptable(EncodedRow(<<>>, s).value, t)
    PROVE  t = NoSecret \/ s = t
  BY OneLayer DEF Decryptable, EncodedRow

LEMMA OpensToPlain ==
    ASSUME NEW s \in Secrets
    PROVE  Decrypted(EncodedRow(<<>>, s).value, s) = <<>>
<1>1. Tail(<<s>>) = <<>>
  OBVIOUS
<1>. QED  BY <1>1, OneLayer DEF Decrypted, EncodedRow

\* A row whose hash is the plain one of its value is not encrypted.
LEMMA PlainHash ==
    ASSUME NEW s \in Secrets,
           EncodedRow(<<>>, s).hash = <<NoSecret, EncodedRow(<<>>, s).value>>
    PROVE  s = NoSecret
  BY DEF EncodedRow

--------------------------------------------------------------------------
(* The inductive invariant *)

ToolStep == {"idle", "check", "create", "copy", "verify", "switch", "clear", "drop"}
ToolRecord == [step : ToolStep, from : Secrets, to : Secrets, last : Nat]

\* What the steps of the tool have found out: after the check the rows are those of the
\* secret it comes from; what is copied is encrypted with the secret it goes to; no row up
\* to the last one, and none at all after the copy, is missing in the copy.
Progress ==
    /\ \E s \in Secrets : Uniform(s)
    /\ tool.step \in {"check", "create"} => tool.last = 0
    /\ tool.step \in {"create", "copy", "verify", "switch"} => Uniform(tool.from)
    /\ tool.step \in {"copy", "verify", "switch"} =>
         \A i \in DOMAIN temp : temp[i] = EncodedRow(<<>>, tool.to)
    /\ tool.step = "copy" => \A i \in DOMAIN keyRows : i <= tool.last => i \in DOMAIN temp
    /\ tool.step \in {"verify", "switch"} => DOMAIN keyRows \subseteq DOMAIN temp

MigrationInv ==
    /\ DOMAIN keyRows \subseteq RowId
    /\ tool \in ToolRecord
    /\ secret \in Secrets
    /\ ~misused => Progress

LEMMA MigrationInitial == MigrationInit => MigrationInv
<1>. SUFFICES ASSUME MigrationInit PROVE MigrationInv
  OBVIOUS
<1>1. tool \in ToolRecord /\ tool.step = "idle" /\ secret \in Secrets
  BY DEF MigrationInit, ToolIdle, ToolRecord, ToolStep, Secrets
<1>2. DOMAIN keyRows \subseteq RowId /\ Uniform(secret)
  BY DEF MigrationInit, Uniform
<1>. QED  BY <1>1, <1>2 DEF MigrationInv, Progress

\* A sample of a table with rows has a row in it.
LEMMA SampleHasRow ==
    ASSUME MigrationInv, DOMAIN keyRows # {}, NEW sample \in Sampled
    PROVE  \E i \in sample : i \in DOMAIN keyRows
<1>1. IsFiniteSet(DOMAIN keyRows)
  BY FS_Subset DEF MigrationInv
<1>2. Cardinality(DOMAIN keyRows) \in Nat /\ Cardinality(DOMAIN keyRows) # 0
  BY <1>1, FS_CardinalityType, FS_EmptySet
<1>3. Cardinality(sample) # 0 /\ sample \in SUBSET DOMAIN keyRows
  BY <1>2 DEF Sampled
<1>. QED  BY <1>3, FS_EmptySet

\* The check lets only a tool pass whose secret is that of the rows.
LEMMA CheckFindsSecret ==
    ASSUME MigrationInv, ~misused, NEW sample \in Sampled,
           tool.from = NoSecret => SeemsPlain(sample),
           \A i \in DOMAIN keyRows : Decryptable(keyRows[i].value, tool.from)
    PROVE  Uniform(tool.from)
<1>1. PICK s \in Secrets : Uniform(s)
  BY DEF MigrationInv, Progress
<1>2. tool.from \in Secrets
  BY DEF MigrationInv, ToolRecord
<1>3. CASE DOMAIN keyRows = {}
  BY <1>3 DEF Uniform
<1>4. CASE DOMAIN keyRows # {} /\ tool.from = NoSecret
  <2>1. PICK i \in sample : i \in DOMAIN keyRows
    BY <1>4, SampleHasRow
  <2>2. keyRows[i] = EncodedRow(<<>>, s)
    BY <1>1, <2>1 DEF Uniform
  <2>3. s = NoSecret
    BY <1>4, <2>1, <2>2, PlainHash DEF SeemsPlain
  <2>. QED  BY <1>1, <1>4, <2>3
<1>5. CASE DOMAIN keyRows # {} /\ tool.from # NoSecret
  <2>1. PICK i \in DOMAIN keyRows : TRUE
    BY <1>5
  <2>2. keyRows[i] = EncodedRow(<<>>, s)
    BY <1>1 DEF Uniform
  <2>3. s = tool.from
    BY <1>2, <1>5, <2>2, OnlyItsSecretOpens
  <2>. QED  BY <1>1, <2>3
<1>. QED  BY <1>3, <1>4, <1>5

\* The last row of a batch: it exists, and the batch leaves out no row below it.
LEMMA BatchIsPrefix ==
    ASSUME MigrationInv, Rest # {}
    PROVE  LET last == CHOOSE i \in Batch : \A j \in Batch : j <= i
           IN  /\ last \in DOMAIN keyRows
               /\ \A i \in DOMAIN keyRows : i <= last => i <= tool.last \/ i \in Batch
<1>. DEFINE last == CHOOSE i \in Batch : \A j \in Batch : j <= i
            Below(i) == {j \in Rest : j < i}
<1>1. Rest \in SUBSET Nat /\ IsFiniteSet(Rest) /\ Rest \subseteq DOMAIN keyRows
  <2>1. IsFiniteSet(DOMAIN keyRows)
    BY FS_Subset DEF MigrationInv
  <2>. QED  BY <2>1, FS_Subset DEF Rest, MigrationInv
<1>2. \A i \in Rest : IsFiniteSet(Below(i)) /\ Cardinality(Below(i)) \in Nat
  BY <1>1, FS_Subset, FS_CardinalityType
<1>3. Batch # {} /\ Batch \subseteq Rest
  <2>1. PICK m \in Rest : \A j \in Rest : m <= j
    BY <1>1, LeastNumber
  <2>2. Below(m) = {}
    <3>1. \A j \in Rest : ~(j < m)
      BY <2>1, <1>1
    <3>. QED  BY <3>1
  <2>3. Cardinality(Below(m)) = 0
    BY <2>2, FS_EmptySet
  <2>4. m \in Batch
    BY <2>3 DEF Batch
  <2>. QED  BY <2>4 DEF Batch
<1>4. last \in Batch /\ \A j \in Batch : j <= last
  <2>1. Batch \in SUBSET Nat /\ IsFiniteSet(Batch)
    BY <1>1, <1>3, FS_Subset
  <2>2. \E i \in Batch : \A j \in Batch : j <= i
    BY <2>1, <1>3, GreatestExists
  <2>. QED  BY <2>2
<1>5. ASSUME NEW i \in DOMAIN keyRows, i <= last, ~(i <= tool.last)
      PROVE  i \in Batch
  <2>1. i \in Nat /\ tool.last \in Nat /\ last \in Nat
    BY <1>1, <1>3, <1>4 DEF MigrationInv, ToolRecord
  <2>2. i \in Rest /\ last \in Rest
    BY <1>3, <1>4, <1>5, <2>1 DEF Rest
  <2>3. Below(i) \in SUBSET Below(last)
    <3>1. \A j \in Rest : j < i => j < last
      BY <1>1, <1>5, <2>1
    <3>. HIDE DEF last
    <3>. QED  BY <3>1
  <2>4. Cardinality(Below(i)) <= Cardinality(Below(last))
    <3>. HIDE DEF Below
    <3>. QED  BY <2>2, <2>3, <1>2, FS_Subset
  <2>5. Cardinality(Below(last)) < MigrationBatch
    BY <1>4 DEF Batch
  <2>6. Cardinality(Below(i)) < MigrationBatch
    BY <2>2, <2>4, <2>5, <1>2
  <2>. QED  BY <2>2, <2>6 DEF Batch
<1>. QED  BY <1>1, <1>3, <1>4, <1>5

--------------------------------------------------------------------------
(* The steps *)

LEMMA MigrationStep == MigrationInv /\ [MigrationNext]_migrationVars => MigrationInv'
<1>. SUFFICES ASSUME MigrationInv, [MigrationNext]_migrationVars PROVE MigrationInv'
  OBVIOUS
<1>. USE DEF MigrationInv
<1>0. tool \in ToolRecord /\ tool.from \in Secrets /\ tool.to \in Secrets /\ tool.last \in Nat
  BY DEF ToolRecord
<1>1. ASSUME NEW from \in Secrets, NEW to \in Secrets, ToolStarts(from, to)
      PROVE  MigrationInv'
  <2>1. tool' \in ToolRecord /\ tool'.step = "check" /\ tool'.last = 0
    BY <1>1 DEF ToolStarts, ToolRecord, ToolStep
  <2>2. UNCHANGED <<keyRows, temp, secret, misused>>
    BY <1>1 DEF ToolStarts
  <2>. QED  BY <2>1, <2>2 DEF Progress, Uniform
<1>2. CASE PreCheck
  <2>1. /\ tool' \in ToolRecord /\ tool'.step \in {"create", "idle"}
        /\ tool.step = "check" /\ (tool'.step = "create" => tool'.last = tool.last)
    BY <1>0, <1>2 DEF PreCheck, StepTo, ToolIdle, ToolRecord, ToolStep, Secrets
  <2>2. ASSUME ~misused, tool'.step = "create"
        PROVE  Uniform(tool.from) /\ tool'.from = tool.from
    <3>1. PICK sample \in Sampled :
             /\ tool.from = NoSecret => SeemsPlain(sample)
             /\ \A i \in DOMAIN keyRows : Decryptable(keyRows[i].value, tool.from)
      BY <1>2, <2>2 DEF PreCheck, ToolIdle
    <3>2. tool'.from = tool.from
      BY <1>0, <1>2, <2>2 DEF PreCheck, StepTo, ToolIdle, ToolRecord
    <3>. QED  BY <2>2, <3>1, <3>2, CheckFindsSecret
  <2>3. UNCHANGED <<keyRows, temp, secret, misused>>
    BY <1>2 DEF PreCheck
  <2>. QED  BY <2>1, <2>2, <2>3 DEF Progress, Uniform
<1>3. CASE createTempTable
  <2>1. tool' = [tool EXCEPT !.step = "copy"] /\ tool.step = "create"
    BY <1>3 DEF createTempTable, StepTo
  <2>2. /\ tool' \in ToolRecord /\ tool'.step = "copy"
        /\ tool'.from = tool.from /\ tool'.last = tool.last
    BY <1>0, <2>1 DEF ToolRecord, ToolStep
  <2>3. DOMAIN temp' = {} /\ UNCHANGED <<keyRows, secret, misused>>
    BY <1>3 DEF createTempTable
  <2>4. \A i \in DOMAIN keyRows : i \in Nat \ {0}
    <3>1. DOMAIN keyRows \subseteq RowId
      OBVIOUS
    <3>. QED  BY <3>1
  <2>. QED  BY <2>1, <2>2, <2>3, <2>4 DEF Progress, Uniform
<1>4. CASE processBatchToTempTable
  <2>1. tool.step = "copy" /\ Rest # {} /\ UNCHANGED <<keyRows, secret, misused>>
    BY <1>4 DEF processBatchToTempTable
  <2>2. CASE ~(\A i \in Batch : Decryptable(keyRows[i].value, tool.from))
    <3>1. tool' \in ToolRecord /\ tool'.step = "idle"
      BY <1>4, <2>2 DEF processBatchToTempTable, ToolIdle, ToolRecord, ToolStep, Secrets
    <3>. QED  BY <2>1, <3>1 DEF Progress, Uniform
  <2>3. CASE \A i \in Batch : Decryptable(keyRows[i].value, tool.from)
    <3>. DEFINE last == CHOOSE i \in Batch : \A j \in Batch : j <= i
    <3>1. /\ last \in DOMAIN keyRows /\ last \in Nat
          /\ \A i \in DOMAIN keyRows : i <= last => i <= tool.last \/ i \in Batch
      BY <2>1, BatchIsPrefix
    <3>2. /\ tool' = [tool EXCEPT !.last = last]
          /\ DOMAIN temp' = DOMAIN temp \cup Batch
          /\ \A i \in Batch :
               temp'[i] = EncodedRow(Decrypted(keyRows[i].value, tool.from), tool.to)
          /\ \A i \in DOMAIN temp \ Batch : temp'[i] = temp[i]
      BY <1>4, <2>3 DEF processBatchToTempTable
    <3>. HIDE DEF last
    <3>3. /\ tool' \in ToolRecord /\ tool'.step = "copy" /\ tool'.last = last
          /\ tool'.from = tool.from /\ tool'.to = tool.to
      BY <1>0, <2>1, <3>1, <3>2 DEF ToolRecord
    <3>4. ASSUME ~misused, NEW i \in DOMAIN temp'
          PROVE  temp'[i] = EncodedRow(<<>>, tool.to)
      <4>1. CASE i \in Batch
        <5>1. keyRows[i] = EncodedRow(<<>>, tool.from)
          BY <2>1, <3>4, <4>1 DEF Batch, Rest, Progress, Uniform
        <5>. QED  BY <5>1, <4>1, <3>2, <1>0, OpensToPlain
      <4>2. CASE i \notin Batch
        BY <2>1, <3>2, <3>4, <4>2 DEF Progress
      <4>. QED  BY <4>1, <4>2
    <3>5. ASSUME ~misused, NEW i \in DOMAIN keyRows, i <= last
          PROVE  i \in DOMAIN temp'
      BY <2>1, <3>1, <3>2, <3>5 DEF Progress
    <3>. QED  BY <2>1, <3>3, <3>4, <3>5 DEF Progress, Uniform
  <2>. QED  BY <2>2, <2>3
<1>5. CASE CopyEnds
  <2>1. tool' = [tool EXCEPT !.step = "verify"] /\ tool.step = "copy" /\ Rest = {}
    BY <1>5 DEF CopyEnds, StepTo
  <2>2. /\ tool' \in ToolRecord /\ tool'.step = "verify"
        /\ tool'.from = tool.from /\ tool'.to = tool.to
    BY <1>0, <2>1 DEF ToolRecord, ToolStep
  <2>3. \A i \in DOMAIN keyRows : i <= tool.last
    BY <1>0, <2>1 DEF Rest
  <2>4. UNCHANGED <<keyRows, temp, secret, misused>>
    BY <1>5 DEF CopyEnds
  <2>. QED  BY <2>1, <2>2, <2>3, <2>4 DEF Progress, Uniform
<1>6. CASE verifyTempColumns
  <2>1. /\ tool' \in ToolRecord /\ tool'.step \in {"switch", "idle"} /\ tool.step = "verify"
        /\ tool'.step = "switch" => tool'.from = tool.from /\ tool'.to = tool.to
    BY <1>0, <1>6 DEF verifyTempColumns, StepTo, ToolIdle, ToolRecord, ToolStep, Secrets
  <2>2. UNCHANGED <<keyRows, temp, secret, misused>>
    BY <1>6 DEF verifyTempColumns
  <2>. QED  BY <2>1, <2>2 DEF Progress, Uniform
<1>7. CASE switchColumns
  <2>1. /\ tool' \in ToolRecord /\ tool'.step = "clear" /\ tool.step = "switch"
        /\ tool'.to = tool.to
    BY <1>0, <1>7 DEF switchColumns, StepTo, ToolRecord, ToolStep
  <2>2. /\ DOMAIN keyRows' = DOMAIN keyRows
        /\ \A i \in DOMAIN keyRows : i \in DOMAIN temp => keyRows'[i] = temp[i]
        /\ UNCHANGED <<secret, misused>>
    BY <1>7 DEF switchColumns
  <2>3. ASSUME ~misused PROVE Uniform(tool.to)'
    BY <2>1, <2>2, <2>3, <1>7 DEF Progress, Uniform
  <2>. QED  BY <1>0, <2>1, <2>2, <2>3 DEF Progress
<1>8. CASE clearCache \/ dropTempTable \/ ToolStops
  <2>1. tool' \in ToolRecord /\ tool'.step \in {"drop", "idle"}
    BY <1>0, <1>8 DEF clearCache, dropTempTable, ToolStops, StepTo, ToolIdle, ToolRecord, ToolStep, Secrets
  <2>2. UNCHANGED <<keyRows, secret, misused>>
    BY <1>8 DEF clearCache, dropTempTable, ToolStops
  <2>. QED  BY <2>1, <2>2 DEF Progress, Uniform
<1>9. ASSUME NEW s \in Secrets, ServiceStarts(s)
      PROVE  MigrationInv'
  BY <1>9 DEF ServiceStarts, Progress, Uniform
<1>10. ASSUME NEW i \in RowId, KeyStored(i)
       PROVE  MigrationInv'
  <2>1. /\ DOMAIN keyRows' = DOMAIN keyRows \cup {i}
        /\ keyRows'[i] = EncodedRow(<<>>, secret)
        /\ \A j \in DOMAIN keyRows : keyRows'[j] = keyRows[j]
        /\ UNCHANGED <<tool, secret>>
    BY <1>10 DEF KeyStored
  <2>2. ASSUME ~misused' PROVE Uniform(secret)' /\ tool'.step = "idle"
    BY <2>1, <2>2, <1>10 DEF KeyStored, Uniform
  <2>. QED  BY <2>1, <2>2 DEF Progress
<1>11. ASSUME NEW i \in RowId, KeyRemoved(i)
       PROVE  MigrationInv'
  <2>1. /\ DOMAIN keyRows' = DOMAIN keyRows \ {i}
        /\ \A j \in DOMAIN keyRows' : keyRows'[j] = keyRows[j]
        /\ UNCHANGED <<temp, tool, secret, misused>>
    BY <1>11 DEF KeyRemoved
  <2>. QED  BY <2>1 DEF Progress, Uniform
<1>12. CASE UNCHANGED migrationVars
  BY <1>12 DEF migrationVars, Progress, Uniform
<1>. QED
  BY <1>1, <1>2, <1>3, <1>4, <1>5, <1>6, <1>7, <1>8, <1>9, <1>10, <1>11, <1>12 DEF MigrationNext

\* However the tool is run, killed and run again, one secret reads every key and none is
\* encrypted twice, unless a running service stored keys against the rules (Execute).
THEOREM MigrationSoundCorrect == Spec => []MigrationSound
<1>1. ServicesInit => MigrationInv
  BY MigrationInitial DEF ServicesInit
<1>2. MigrationInv /\ [ServicesNext]_vars => MigrationInv'
  BY MigrationStep, MigrationPart
<1>3. MigrationInv => MigrationSound
  BY DEF MigrationInv, Progress, MigrationSound
<1> QED
  BY <1>1, <1>2, <1>3, PTL DEF Spec

--------------------------------------------------------------------------
(* A run of the tool puts at most one more secret around a key *)

Text(k) == {v \in Seq(Secret) : Len(v) <= k}
TextRow(k) == [value : Text(k), hash : Secrets \X Text(k)]
Layers == migrationBounds.tools
Copying == tool.step \in {"check", "create", "copy", "verify", "switch"}

\* Before the columns are switched a key has at most as many layers as earlier runs made.
KeysLayered ==
    /\ migrationBounds \in [tools : 0 .. MaxTools, faults : Nat, stored : Nat, starts : Nat]
    /\ tool.step # "idle" => Layers >= 1
    /\ DOMAIN temp \subseteq RowId
    /\ \A i \in DOMAIN temp : temp[i] \in TextRow(Layers + 1)
    /\ \A i \in DOMAIN keyRows : keyRows[i] \in TextRow(IF Copying THEN Layers ELSE Layers + 1)

ToolOrdered ==
    /\ tool.last \in RowId \cup {0}
    /\ tool.step # "idle" => tool.from # tool.to
    /\ misused \in BOOLEAN

LEMMA TextGrows == ASSUME NEW k \in Nat, NEW n \in Nat, k <= n PROVE TextRow(k) \subseteq TextRow(n)
<1>1. Text(k) \subseteq Text(n)
  <2>1. ASSUME NEW v \in Seq(Secret), Len(v) <= k PROVE Len(v) <= n
    <3>1. Len(v) \in Nat
      BY LenProperties
    <3>. QED  BY <2>1, <3>1
  <2>. QED  BY <2>1 DEF Text
<1>. QED  BY <1>1 DEF TextRow

LEMMA PlainText == ASSUME NEW s \in Secrets, NEW k \in Nat \ {0} PROVE EncodedRow(<<>>, s) \in TextRow(k)
<1>1. <<>> \in Seq(Secret) /\ Len(<<>>) = 0
  BY EmptySeq
<1>2. <<>> \in Text(k)
  BY <1>1 DEF Text
<1>3. ASSUME s # NoSecret PROVE <<s>> \in Text(k)
  <2>1. s \in Secret
    BY <1>3 DEF Secrets
  <2>2. <<s>> \in Seq(Secret) /\ Len(<<s>>) = 1
    BY <2>1
  <2>. QED  BY <2>2 DEF Text
<1>4. Encrypted(<<>>, s) \in Text(k)
  BY <1>2, <1>3, OneLayer
<1>. HIDE DEF Encrypted
<1>. QED  BY <1>2, <1>4 DEF EncodedRow, TextRow

LEMMA DecryptedText ==
    ASSUME NEW k \in Nat, NEW v \in Text(k), NEW s \in Secrets, Decryptable(v, s)
    PROVE  Decrypted(v, s) \in Text(k)
<1>0. v \in Seq(Secret) /\ Len(v) \in Nat /\ Len(v) <= k
  BY LenProperties DEF Text
<1>1. CASE s = NoSecret
  BY <1>1 DEF Decrypted
<1>2. CASE s # NoSecret
  <2>1. v # <<>>
    BY <1>2 DEF Decryptable
  <2>2. Tail(v) \in Seq(Secret) /\ Len(Tail(v)) = Len(v) - 1
    BY <1>0, <2>1, HeadTailProperties
  <2>3. Len(Tail(v)) <= k
    BY <1>0, <2>2
  <2>. QED  BY <1>2, <2>2, <2>3 DEF Decrypted, Text
<1>. QED  BY <1>1, <1>2

LEMMA EncryptedText ==
    ASSUME NEW k \in Nat, NEW v \in Text(k), NEW s \in Secrets
    PROVE  EncodedRow(v, s) \in TextRow(k + 1)
<1>0. v \in Seq(Secret) /\ Len(v) \in Nat /\ Len(v) <= k
  BY LenProperties DEF Text
<1>1. v \in Text(k + 1)
  BY <1>0 DEF Text
<1>2. CASE s # NoSecret
  <2>1. s \in Secret
    BY <1>2 DEF Secrets
  <2>2. <<s>> \in Seq(Secret) /\ Len(<<s>>) = 1
    BY <2>1
  <2>3. <<s>> \o v \in Seq(Secret) /\ Len(<<s>> \o v) = 1 + Len(v)
    BY <1>0, <2>2, ConcatProperties
  <2>4. Len(<<s>> \o v) <= k + 1
    BY <1>0, <2>3
  <2>5. Encrypted(v, s) \in Text(k + 1)
    BY <1>2, <2>3, <2>4 DEF Encrypted, Text
  <2>. HIDE DEF Encrypted
  <2>. QED  BY <1>1, <2>5 DEF EncodedRow, TextRow
<1>3. CASE s = NoSecret
  <2>1. Encrypted(v, s) \in Text(k + 1)
    BY <1>1, <1>3 DEF Encrypted
  <2>. HIDE DEF Encrypted
  <2>. QED  BY <1>1, <2>1 DEF EncodedRow, TextRow
<1>. QED  BY <1>2, <1>3

LEMMA TextIsKeyText == ASSUME NEW k \in 0 .. MaxTools + 1 PROVE TextRow(k) \subseteq KeyRow
<1>1. ASSUME NEW v \in Text(k) PROVE v \in KeyText
  <2>1. v \in Seq(Secret) /\ Len(v) <= k /\ Len(v) \in Nat /\ v \in [1 .. Len(v) -> Secret]
    BY LenProperties DEF Text
  <2>2. Len(v) \in 0 .. MaxTools + 1
    BY <2>1
  <2>3. [1 .. Len(v) -> Secret] \subseteq KeyText
    BY <2>2 DEF KeyText
  <2>. QED  BY <2>1, <2>3
<1>. QED  BY <1>1 DEF TextRow, KeyRow

LEMMA MigrationTypes == MigrationInv /\ KeysLayered /\ ToolOrdered => MigrationTypeOK
<1>. SUFFICES ASSUME MigrationInv, KeysLayered, ToolOrdered PROVE MigrationTypeOK
  OBVIOUS
<1>1. Layers \in Nat /\ Layers \in 0 .. MaxTools + 1 /\ Layers + 1 \in 0 .. MaxTools + 1
  BY DEF KeysLayered, Layers
<1>2. \A i \in DOMAIN keyRows : keyRows[i] \in KeyRow
  BY <1>1, TextIsKeyText DEF KeysLayered
<1>3. \A i \in DOMAIN temp : temp[i] \in KeyRow
  BY <1>1, TextIsKeyText DEF KeysLayered
<1>4. /\ tool.step \in {"idle", "check", "create", "copy", "verify", "switch", "clear", "drop"}
      /\ tool.from \in Secrets /\ tool.to \in Secrets
  BY DEF MigrationInv, ToolRecord, ToolStep
<1>. QED  BY <1>2, <1>3, <1>4 DEF MigrationInv, KeysLayered, ToolOrdered, MigrationTypeOK

LEMMA MigrationTypesInitial == MigrationInit => KeysLayered /\ ToolOrdered
<1>. SUFFICES ASSUME MigrationInit PROVE KeysLayered /\ ToolOrdered
  OBVIOUS
<1>1. Layers = 0 /\ DOMAIN temp = {} /\ ~Copying /\ tool.step = "idle"
  BY DEF MigrationInit, Layers, Copying, ToolIdle
<1>2. \A i \in DOMAIN keyRows : keyRows[i] = EncodedRow(<<>>, secret)
  BY DEF MigrationInit
<1>3. \A i \in DOMAIN keyRows : keyRows[i] \in TextRow(1)
  BY <1>2, PlainText DEF MigrationInit
<1>4. KeysLayered
  <2>1. migrationBounds \in [tools : 0 .. MaxTools, faults : Nat, stored : Nat, starts : Nat]
    BY DEF MigrationInit
  <2>. QED  BY <1>1, <1>3, <2>1 DEF KeysLayered, Layers
<1>5. ToolOrdered
  BY DEF MigrationInit, ToolOrdered, ToolIdle
<1>. QED  BY <1>4, <1>5

LEMMA ToolOrderedStep == MigrationInv /\ ToolOrdered /\ [MigrationNext]_migrationVars => ToolOrdered'
<1>. SUFFICES ASSUME MigrationInv, ToolOrdered, [MigrationNext]_migrationVars PROVE ToolOrdered'
  OBVIOUS
<1>0. tool \in ToolRecord /\ tool.last \in RowId \cup {0} /\ misused \in BOOLEAN
      /\ (tool.step # "idle" => tool.from # tool.to)
  BY DEF MigrationInv, ToolOrdered
<1>1. ASSUME tool' = ToolIdle, misused' = misused PROVE ToolOrdered'
  BY <1>0, <1>1 DEF ToolOrdered, ToolIdle
<1>2. ASSUME NEW step \in ToolStep, StepTo(step), tool.step # "idle", misused' = misused PROVE ToolOrdered'
  <2>1. tool'.last = tool.last /\ tool'.from = tool.from /\ tool'.to = tool.to
    BY <1>0, <1>2 DEF StepTo, ToolRecord
  <2>. QED  BY <1>0, <1>2, <2>1 DEF ToolOrdered
<1>3. ASSUME NEW from \in Secrets, NEW to \in Secrets, ToolStarts(from, to) PROVE ToolOrdered'
  <2>1. tool'.last = 0 /\ tool'.from = from /\ tool'.to = to /\ from # to /\ misused' = misused
    BY <1>3 DEF ToolStarts
  <2>. QED  BY <1>0, <2>1 DEF ToolOrdered
<1>4. CASE PreCheck \/ createTempTable \/ CopyEnds \/ verifyTempColumns \/ switchColumns \/ clearCache
           \/ dropTempTable \/ ToolStops
  <2>1. /\ tool.step # "idle" /\ misused' = misused
        /\ tool' = ToolIdle \/ \E step \in ToolStep : StepTo(step)
    BY <1>4 DEF PreCheck, createTempTable, CopyEnds, verifyTempColumns, switchColumns, clearCache,
                dropTempTable, ToolStops, ToolStep
  <2>. QED  BY <2>1, <1>1, <1>2
<1>5. CASE processBatchToTempTable
  <2>1. tool.step = "copy" /\ Rest # {} /\ misused' = misused
    BY <1>5 DEF processBatchToTempTable
  <2>2. CASE tool' = ToolIdle
    BY <1>1, <2>1, <2>2
  <2>3. CASE tool' # ToolIdle
    <3>. DEFINE last == CHOOSE i \in Batch : \A j \in Batch : j <= i
    <3>1. tool' = [tool EXCEPT !.last = last]
      BY <1>5, <2>3 DEF processBatchToTempTable
    <3>2. last \in RowId
      BY <2>1, BatchIsPrefix DEF MigrationInv
    <3>. HIDE DEF last
    <3>3. tool'.last = last /\ tool'.from = tool.from /\ tool'.to = tool.to
      BY <1>0, <3>1 DEF ToolRecord
    <3>. QED  BY <1>0, <2>1, <3>2, <3>3 DEF ToolOrdered
  <2>. QED  BY <2>2, <2>3
<1>6. ASSUME NEW s \in Secrets, ServiceStarts(s) PROVE ToolOrdered'
  BY <1>0, <1>6 DEF ServiceStarts, ToolOrdered
<1>7. ASSUME NEW i \in RowId, KeyStored(i) PROVE ToolOrdered'
  <2>1. misused' \in BOOLEAN
    BY <1>7, Zenon DEF KeyStored
  <2>2. tool' = tool
    BY <1>7 DEF KeyStored
  <2>. QED  BY <1>0, <2>1, <2>2 DEF ToolOrdered
<1>8. ASSUME NEW i \in RowId, KeyRemoved(i) PROVE ToolOrdered'
  BY <1>0, <1>8 DEF KeyRemoved, ToolOrdered
<1>9. CASE UNCHANGED migrationVars
  BY <1>0, <1>9 DEF migrationVars, ToolOrdered
<1>. QED  BY <1>3, <1>4, <1>5, <1>6, <1>7, <1>8, <1>9 DEF MigrationNext

LEMMA KeysLayeredStep == MigrationInv /\ KeysLayered /\ [MigrationNext]_migrationVars => KeysLayered'
<1>. SUFFICES ASSUME MigrationInv, KeysLayered, [MigrationNext]_migrationVars PROVE KeysLayered'
  OBVIOUS
<1>. DEFINE Deep == TextRow(Layers + 1)
            Bound == IF Copying THEN Layers ELSE Layers + 1
            Counts == [tools : 0 .. MaxTools, faults : Nat, stored : Nat, starts : Nat]
<1>0. /\ tool \in ToolRecord /\ Layers \in Nat /\ Layers + 1 \in Nat /\ Layers <= Layers + 1
      /\ TextRow(Layers) \subseteq Deep
      /\ \A i \in DOMAIN temp : temp[i] \in Deep
      /\ DOMAIN temp \subseteq RowId
      /\ \A i \in DOMAIN keyRows : keyRows[i] \in TextRow(Bound)
      /\ migrationBounds \in Counts /\ Layers \in 0 .. MaxTools
  <2>1. tool \in ToolRecord /\ Layers \in Nat /\ Layers \in 0 .. MaxTools /\ migrationBounds \in Counts
    BY DEF MigrationInv, KeysLayered, Layers
  <2>2. Layers + 1 \in Nat /\ Layers <= Layers + 1
    BY <2>1
  <2>. QED  BY <2>1, <2>2, TextGrows DEF KeysLayered
<1>1. \A i \in DOMAIN keyRows : keyRows[i] \in Deep
  BY <1>0
<1>2. ASSUME Layers' = Layers PROVE Deep' = Deep /\ TextRow(Layers)' = TextRow(Layers)
  BY <1>2 DEF TextRow, Text
<1>3. ASSUME UNCHANGED migrationBounds PROVE Layers' = Layers /\ migrationBounds' \in Counts
  BY <1>0, <1>3 DEF Layers
<1>4. ASSUME Layers' = Layers, ~Copying',
             tool.step # "idle" \/ tool'.step = "idle",
             DOMAIN temp' \subseteq RowId, \A i \in DOMAIN temp' : temp'[i] \in Deep,
             \A i \in DOMAIN keyRows' : keyRows'[i] \in Deep,
             migrationBounds' \in Counts
      PROVE  KeysLayered'
  <2>1. Deep' = Deep
    BY <1>2, <1>4
  <2>2. tool'.step # "idle" => Layers' >= 1
    BY <1>4 DEF KeysLayered
  <2>. QED  BY <1>0, <1>4, <2>1, <2>2 DEF KeysLayered
<1>5. ASSUME Layers' = Layers, tool.step # "idle", Copying,
             DOMAIN temp' \subseteq RowId, \A i \in DOMAIN temp' : temp'[i] \in Deep,
             keyRows' = keyRows, migrationBounds' \in Counts
      PROVE  KeysLayered'
  <2>1. Deep' = Deep /\ TextRow(Layers)' = TextRow(Layers)
    BY <1>2, <1>5
  <2>2. tool'.step # "idle" => Layers' >= 1
    BY <1>5 DEF KeysLayered
  <2>3. \A i \in DOMAIN keyRows : keyRows[i] \in TextRow(Layers)
    BY <1>0, <1>5
  <2>4. \A i \in DOMAIN keyRows' : keyRows'[i] \in (TextRow(IF Copying THEN Layers ELSE Layers + 1))'
    <3>1. CASE Copying'
      BY <1>5, <2>1, <2>3, <3>1
    <3>2. CASE ~Copying'
      BY <1>0, <1>5, <2>1, <2>3, <3>2
    <3>. QED  BY <3>1, <3>2
  <2>. QED  BY <1>0, <1>5, <2>1, <2>2, <2>4 DEF KeysLayered
<1>6. ASSUME NEW from \in Secrets, NEW to \in Secrets, ToolStarts(from, to) PROVE KeysLayered'
  <2>1. /\ migrationBounds' = [migrationBounds EXCEPT !.tools = migrationBounds.tools + 1]
        /\ migrationBounds.tools < MaxTools /\ tool.step = "idle" /\ tool'.step = "check"
        /\ UNCHANGED <<keyRows, temp>>
    BY <1>6 DEF ToolStarts
  <2>2. Layers' = Layers + 1 /\ migrationBounds' \in Counts
    BY <1>0, <2>1 DEF Layers
  <2>3. TextRow(Layers)' = Deep /\ Copying' /\ Layers' >= 1
    BY <1>0, <2>1, <2>2 DEF TextRow, Text, Copying
  <2>4. Deep \subseteq TextRow(Layers + 1)'
    <3>1. Deep \subseteq TextRow((Layers + 1) + 1)
      BY <1>0, TextGrows
    <3>2. TextRow(Layers + 1)' = TextRow((Layers + 1) + 1)
      BY <2>2 DEF TextRow, Text
    <3>. QED  BY <3>1, <3>2
  <2>. QED  BY <1>0, <1>1, <2>1, <2>2, <2>3, <2>4 DEF KeysLayered
<1>7. CASE PreCheck \/ CopyEnds \/ verifyTempColumns
  <2>1. tool.step # "idle" /\ Copying /\ UNCHANGED <<keyRows, temp, migrationBounds>>
    BY <1>7 DEF PreCheck, CopyEnds, verifyTempColumns, Copying
  <2>. QED  BY <1>0, <1>3, <1>5, <2>1
<1>8. CASE createTempTable
  <2>1. tool.step # "idle" /\ Copying /\ UNCHANGED <<keyRows, migrationBounds>> /\ DOMAIN temp' = {}
    BY <1>8 DEF createTempTable, Copying
  <2>. QED  BY <1>0, <1>3, <1>5, <2>1
<1>9. CASE processBatchToTempTable
  <2>1. tool.step # "idle" /\ Copying /\ UNCHANGED <<keyRows, migrationBounds>>
    BY <1>9 DEF processBatchToTempTable, Copying
  <2>2. CASE UNCHANGED temp
    BY <1>0, <1>3, <1>5, <2>1, <2>2
  <2>3. CASE /\ \A i \in Batch : Decryptable(keyRows[i].value, tool.from)
             /\ temp' = [i \in DOMAIN temp \cup Batch |->
                          IF i \in Batch
                          THEN EncodedRow(Decrypted(keyRows[i].value, tool.from), tool.to)
                          ELSE temp[i]]
    <3>1. Batch \subseteq DOMAIN keyRows /\ DOMAIN keyRows \subseteq RowId
      BY DEF Batch, Rest, MigrationInv
    <3>2. \A i \in Batch : keyRows[i] \in TextRow(Layers)
      BY <1>0, <2>1, <3>1
    <3>3. tool.from \in Secrets /\ tool.to \in Secrets
      BY <1>0 DEF ToolRecord
    <3>4. ASSUME NEW i \in Batch
          PROVE  EncodedRow(Decrypted(keyRows[i].value, tool.from), tool.to) \in Deep
      <4>1. keyRows[i].value \in Text(Layers)
        BY <3>2 DEF TextRow
      <4>2. Decrypted(keyRows[i].value, tool.from) \in Text(Layers)
        BY <1>0, <2>3, <3>3, <4>1, DecryptedText
      <4>. QED  BY <1>0, <3>3, <4>2, EncryptedText
    <3>5. DOMAIN temp' \subseteq RowId /\ \A i \in DOMAIN temp' : temp'[i] \in Deep
      <4>. HIDE DEF Deep
      <4>. QED  BY <1>0, <2>3, <3>1, <3>4
    <3>. QED  BY <1>3, <1>5, <2>1, <3>5
  <2>. QED  BY <1>9, <2>2, <2>3 DEF processBatchToTempTable
<1>10. CASE switchColumns
  <2>1. /\ tool.step # "idle" /\ tool' = [tool EXCEPT !.step = "clear"]
        /\ UNCHANGED <<temp, migrationBounds>>
        /\ keyRows' = [i \in DOMAIN keyRows |-> IF i \in DOMAIN temp THEN temp[i] ELSE keyRows[i]]
    BY <1>10 DEF switchColumns, StepTo
  <2>2. tool'.step = "clear"
    BY <1>0, <2>1 DEF ToolRecord
  <2>3. ~Copying'
    BY <2>2 DEF Copying
  <2>4. \A i \in DOMAIN keyRows' : keyRows'[i] \in Deep
    <3>. HIDE DEF Deep
    <3>. QED  BY <1>0, <1>1, <2>1
  <2>. QED  BY <1>0, <1>3, <1>4, <2>1, <2>3, <2>4
<1>11. CASE clearCache \/ dropTempTable
  <2>1. /\ tool.step # "idle" /\ UNCHANGED <<keyRows, migrationBounds>>
        /\ UNCHANGED temp \/ DOMAIN temp' = {}
    BY <1>11 DEF clearCache, dropTempTable
  <2>2. tool'.step \in {"drop", "idle"}
    BY <1>0, <1>11 DEF clearCache, dropTempTable, StepTo, ToolIdle, ToolRecord
  <2>3. ~Copying'
    BY <2>2 DEF Copying
  <2>. QED  BY <1>0, <1>1, <1>3, <1>4, <2>1, <2>3
<1>12. CASE ToolStops
  <2>1. /\ tool.step # "idle" /\ UNCHANGED <<keyRows, temp>> /\ tool'.step = "idle"
        /\ migrationBounds' = [migrationBounds EXCEPT !.faults = migrationBounds.faults + 1]
    BY <1>12 DEF ToolStops, ToolIdle
  <2>2. Layers' = Layers /\ migrationBounds' \in Counts
    BY <1>0, <2>1 DEF Layers
  <2>3. ~Copying'
    BY <2>1 DEF Copying
  <2>. QED  BY <1>0, <1>1, <1>4, <2>1, <2>2, <2>3
<1>13. ASSUME Layers' = Layers, migrationBounds' \in Counts, UNCHANGED <<temp, tool>>,
              \A i \in DOMAIN keyRows' : keyRows'[i] \in TextRow(Bound)
       PROVE  KeysLayered'
  <2>1. Deep' = Deep /\ TextRow(Layers)' = TextRow(Layers) /\ (Copying' <=> Copying)
    BY <1>2, <1>13 DEF Copying
  <2>2. TextRow(Bound) = (TextRow(Bound))'
    BY <1>13, <2>1 DEF TextRow, Text
  <2>3. tool'.step # "idle" => Layers' >= 1
    BY <1>13 DEF KeysLayered
  <2>4. \A i \in DOMAIN temp' : temp'[i] \in Deep'
    BY <1>0, <1>13, <2>1
  <2>5. DOMAIN temp' \subseteq RowId
    BY <1>0, <1>13
  <2>. QED  BY <1>13, <2>2, <2>3, <2>4, <2>5 DEF KeysLayered
<1>14. ASSUME NEW s \in Secrets, ServiceStarts(s) PROVE KeysLayered'
  <2>1. /\ UNCHANGED <<keyRows, temp, tool>>
        /\ migrationBounds' = [migrationBounds EXCEPT !.starts = migrationBounds.starts + 1]
    BY <1>14 DEF ServiceStarts
  <2>2. Layers' = Layers /\ migrationBounds' \in Counts
    BY <1>0, <2>1 DEF Layers
  <2>. QED  BY <1>0, <1>13, <2>1, <2>2
<1>15. ASSUME NEW i \in RowId, KeyStored(i) PROVE KeysLayered'
  <2>1. /\ UNCHANGED <<temp, tool>>
        /\ migrationBounds' = [migrationBounds EXCEPT !.stored = migrationBounds.stored + 1]
        /\ keyRows' = [j \in DOMAIN keyRows \cup {i} |->
                        IF j = i THEN EncodedRow(<<>>, secret) ELSE keyRows[j]]
    BY <1>15 DEF KeyStored
  <2>2. Layers' = Layers /\ migrationBounds' \in Counts
    <3>1. migrationBounds \in Counts
      BY <1>0
    <3>. QED  BY <2>1, <3>1 DEF Layers
  <2>3. Bound \in Nat \ {0}
    <3>1. Copying => Layers >= 1
      BY DEF Copying, KeysLayered
    <3>. QED  BY <1>0, <3>1
  <2>4. EncodedRow(<<>>, secret) \in TextRow(Bound)
    <3>. HIDE DEF Bound
    <3>. QED  BY <2>3, PlainText DEF MigrationInv
  <2>5. \A j \in DOMAIN keyRows' : keyRows'[j] \in TextRow(Bound)
    <3>. HIDE DEF Bound
    <3>. QED  BY <1>0, <2>1, <2>4
  <2>. QED  BY <1>13, <2>1, <2>2, <2>5
<1>16. ASSUME NEW i \in RowId, KeyRemoved(i) PROVE KeysLayered'
  <2>1. /\ UNCHANGED <<temp, tool, migrationBounds>>
        /\ \A j \in DOMAIN keyRows' : j \in DOMAIN keyRows /\ keyRows'[j] = keyRows[j]
    BY <1>16 DEF KeyRemoved
  <2>. QED  BY <1>0, <1>3, <1>13, <2>1
<1>17. CASE UNCHANGED migrationVars
  <2>1. UNCHANGED <<keyRows, temp, tool, migrationBounds>>
    BY <1>17 DEF migrationVars
  <2>. QED  BY <1>0, <1>3, <1>13, <2>1
<1>. QED  BY <1>6, <1>7, <1>8, <1>9, <1>10, <1>11, <1>12, <1>14, <1>15, <1>16, <1>17
          DEF MigrationNext

--------------------------------------------------------------------------
(* The types of groups *)

LEMMA GroupTypes == GroupInv => GroupTypeOK
<1>. SUFFICES ASSUME GroupInv PROVE GroupTypeOK
  OBVIOUS
<1>1. ASSUME NEW g \in Gid PROVE group[g].state = "free" \/ group[g] \in Row
  BY DEF GroupInv, GroupsTyped, RowTyped, Is
<1>2. ASSUME NEW a \in Admin
      PROVE  /\ request[a].at \in {"idle", "join", "check sub", "insert", "check use", "save"}
             /\ Touched(request[a]) \subseteq Gid
  <2>1. CASE request[a] = IdleAdmin
    BY <2>1 DEF IdleAdmin, Touched
  <2>2. CASE request[a] \in AutoJoinRequest
    BY <2>2 DEF AutoJoinRequest, Touched
  <2>3. CASE request[a] \in LinkRequest
    BY <2>3 DEF LinkRequest, Touched
  <2>4. CASE request[a] \in EditRequest
    BY <2>4 DEF EditRequest, Touched
  <2>. QED  BY <2>1, <2>2, <2>3, <2>4 DEF GroupInv, RequestOK
<1>. QED  BY <1>1, <1>2 DEF GroupInv, GroupsTyped, GroupTypeOK
=============================================================================
