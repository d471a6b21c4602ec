----------------------------- MODULE AliasAdmin -----------------------------
(* services/alias_service.go: the candidates of model aliases, edited by administrators at
   the same time. Saving a list, renaming, exposing a model and UpdateGroup read before
   the transaction that writes; the other operations are one statement or transaction. Weights,
   priorities and the enabled flag are left out. *)
EXTENDS Naturals, FiniteSets

CONSTANTS Editor,         \* administrators
          PlainAlias,     \* alias names besides the reserved one and its legacy name
          AliasTarget,    \* [group, model] pairs
          GroupLists,     \* a group's mode, whether it is specified, and its blocked models
          MaxAliasRows, MaxAliasActs, MaxBoots   \* bounds

\* One of ReservedAliases and its old name in legacyReservedRenameMap.
ReservedName == "simple"
LegacyName == "auto-simple"

ASSUME AliasAssumption ==
    /\ ReservedName \notin PlainAlias
    /\ AliasTarget # {} /\ IsFiniteSet(AliasTarget)
    /\ \A t \in AliasTarget : t.group \in Nat \ {0}
    /\ \A r \in GroupLists : r.specified \in BOOLEAN /\ r.blocked \subseteq {t.model : t \in AliasTarget}
    /\ MaxAliasRows \in Nat \ {0, 1} /\ MaxAliasActs \in Nat /\ MaxBoots \in Nat

Movable == PlainAlias \cup {LegacyName}   \* only the reserved names cannot be renamed
Nowhere == [group |-> 0, model |-> ""]    \* the target of a placeholder

VARIABLES aliasRows,  \* the live rows of model_aliases
          aliasId,    \* ids handed out
          lists,      \* per group: whether its mode is specified, exposed_models, blocked_models
          edit,       \* per administrator: the request between its read and its write
          boot,       \* the step of EnsureReservedSeeded
          pool,       \* per row: the pool of candidates that it was put into
          promised,   \* per group: models said to be exposed, since its lists were edited
          unseated,   \* the placeholder was moved by Update, or could not be seeded
          overlap,    \* what a request wrote from a stale read: "pools", "lists"
          aliasActs, boots

aliasVars == <<aliasRows, aliasId, lists, edit, boot, pool, promised, unseated, overlap,
               aliasActs, boots>>

AliasGroup == {t.group : t \in AliasTarget}
AliasModel == {t.model : t \in AliasTarget}
NoEdit == [at |-> "idle", stale |-> FALSE]

AliasRow == [alias : Movable \cup {ReservedName}, target : AliasTarget \cup {Nowhere},
             reserved : BOOLEAN]

AliasTypeOK ==
    /\ aliasId \in 0 .. MaxAliasRows /\ DOMAIN aliasRows \subseteq 1 .. aliasId
    /\ \A i \in DOMAIN aliasRows : aliasRows[i] \in AliasRow
    /\ pool \in [DOMAIN aliasRows -> 0 .. MaxAliasRows]
    /\ \A g \in AliasGroup : lists[g].exposed \subseteq AliasModel /\ promised[g] \subseteq AliasModel
    /\ \A e \in Editor : edit[e].at \in {"idle", "replace", "rename", "expose", "update"}
    /\ boot \in {"placeholder", "legacy", "seed", "done"}
    /\ overlap \subseteq {"pools", "lists"} /\ unseated \in BOOLEAN

Reserved(a) == [alias |-> a, target |-> Nowhere, reserved |-> TRUE]
Candidate(a, t) == [alias |-> a, target |-> t, reserved |-> FALSE]

\* A new database, or one of a version with the old names.
AliasInit ==
    /\ \/ aliasId = 0 /\ aliasRows = [i \in {} |-> Reserved(ReservedName)] /\ pool = [i \in {} |-> 0]
       \/ /\ aliasId = 2
          /\ aliasRows = [i \in {1, 2} |-> IF i = 1 THEN Reserved(LegacyName)
                                          ELSE Candidate(LegacyName, CHOOSE t \in AliasTarget : TRUE)]
          /\ pool = [i \in {1, 2} |-> 2]
    /\ \E r \in GroupLists :
         lists = [g \in AliasGroup |-> [specified |-> r.specified, exposed |-> {}, blocked |-> r.blocked]]
    /\ edit = [e \in Editor |-> NoEdit]
    /\ boot = "placeholder"
    /\ promised = [g \in AliasGroup |-> {}]
    /\ unseated = FALSE /\ overlap = {}
    /\ aliasActs = 0 /\ boots = 0

--------------------------------------------------------------------------

CandidatesOf(a) == {i \in DOMAIN aliasRows : aliasRows[i].alias = a /\ aliasRows[i].target # Nowhere}
Seated == \E i \in DOMAIN aliasRows : aliasRows[i] = Reserved(ReservedName)

\* idx_alias_group_model_active: a transaction that breaks it changes nothing.
Distinct(rs) == \A i, j \in DOMAIN rs :
                  rs[i].alias = rs[j].alias /\ rs[i].target = rs[j].target => i = j

Without(f, ids) == [i \in DOMAIN f \ ids |-> f[i]]

\* Candidates of a for the targets ts, under the next ids.
Inserted(rs, a, ts) ==
    LET ids == aliasId + 1 .. aliasId + Cardinality(ts)
        at == CHOOSE f \in [ids -> ts] : \A t \in ts : \E i \in ids : f[i] = t
    IN  [i \in DOMAIN rs \cup ids |-> IF i \in ids THEN Candidate(a, at[i]) ELSE rs[i]]

\* New candidates of a join the pool of that name, or begin one.
Joined(rs, a) ==
    [i \in DOMAIN rs |->
       IF i \in DOMAIN pool THEN pool[i]
       ELSE IF CandidatesOf(a) = {} THEN aliasId + 1
       ELSE pool[CHOOSE j \in CandidatesOf(a) : TRUE]]

\* Requests of these kinds that are under way have not seen what is written now.
Staled(kinds) ==
    [e \in Editor |-> IF edit[e].at \in kinds THEN [edit[e] EXCEPT !.stale = TRUE] ELSE edit[e]]

AliasAct ==
    /\ boot = "done"
    /\ aliasActs < MaxAliasActs /\ aliasActs' = aliasActs + 1
    /\ UNCHANGED <<boot, boots>>

\* The rows become rs, in one transaction.
RowsBecome(rs, pools) ==
    /\ Distinct(rs)
    /\ aliasRows' = rs /\ pool' = pools

--------------------------------------------------------------------------
(* Operations of one step *)

CreateMany(a, ts) ==
    /\ AliasAct
    /\ ts # {} /\ aliasId + Cardinality(ts) <= MaxAliasRows
    /\ RowsBecome(Inserted(aliasRows, a, ts), Joined(Inserted(aliasRows, a, ts), a))
    /\ aliasId' = aliasId + Cardinality(ts)
    /\ edit' = Staled({"replace", "rename"})
    /\ UNCHANGED <<lists, promised, unseated, overlap>>

\* Any row is given another group and model, the placeholder too.
UpdateRow(i, t) ==
    /\ AliasAct
    /\ i \in DOMAIN aliasRows
    /\ RowsBecome([aliasRows EXCEPT ![i].target = t], pool)
    /\ unseated' = (unseated \/ aliasRows[i] = Reserved(ReservedName))
    /\ edit' = Staled({"replace", "rename"})
    /\ UNCHANGED <<aliasId, lists, promised, overlap>>

\* Mutant: a placeholder is a row like others.
Deletable_All(r) == TRUE
Deletable(r) == ~(r.reserved /\ r.target = Nowhere)

DeleteRow(i) ==
    /\ AliasAct
    /\ i \in DOMAIN aliasRows /\ Deletable(aliasRows[i])
    /\ RowsBecome(Without(aliasRows, {i}), Without(pool, {i}))
    /\ edit' = Staled({"replace", "rename"})
    /\ UNCHANGED <<aliasId, lists, promised, unseated, overlap>>

--------------------------------------------------------------------------
(* ReplaceCandidates, RenameAlias, ExposeCandidate, UpdateGroup *)

EditBegins(e, request) ==
    /\ AliasAct
    /\ edit[e].at = "idle"
    /\ edit' = [edit EXCEPT ![e] = request]
    /\ UNCHANGED <<aliasRows, aliasId, lists, pool, promised, unseated, overlap>>

EditCommits(e, what, kinds) ==
    /\ edit' = [Staled(kinds) EXCEPT ![e] = NoEdit]
    /\ overlap' = IF edit[e].stale THEN overlap \cup {what} ELSE overlap
    /\ UNCHANGED <<boot, unseated, aliasActs, boots>>

ReplaceReads(e, a, want) ==
    EditBegins(e, [at |-> "replace", stale |-> FALSE, alias |-> a, want |-> want,
               seen |-> [i \in CandidatesOf(a) |-> aliasRows[i].target]])

\* Rows are deleted by the ids that were read, wherever they are now.
ReplaceWrites(e) ==
    LET r == edit[e]
        dropped == {i \in DOMAIN r.seen : r.seen[i] \notin r.want}
        new == r.want \ {r.seen[i] : i \in DOMAIN r.seen}
        rs == Inserted(Without(aliasRows, dropped), r.alias, new)
    IN
    /\ r.at = "replace"
    /\ aliasId + Cardinality(new) <= MaxAliasRows
    /\ RowsBecome(rs, Joined(rs, r.alias))
    /\ aliasId' = aliasId + Cardinality(new)
    /\ EditCommits(e, "pools", {"replace", "rename"})
    /\ UNCHANGED <<lists, promised>>

RenameCounts(e, from, to) ==
    /\ from # to /\ CandidatesOf(to) = {}
    /\ EditBegins(e, [at |-> "rename", stale |-> FALSE, from |-> from, to |-> to])

RenameWrites(e) ==
    /\ edit[e].at = "rename"
    /\ RowsBecome([i \in DOMAIN aliasRows |->
                     IF i \in CandidatesOf(edit[e].from)
                     THEN [aliasRows[i] EXCEPT !.alias = edit[e].to] ELSE aliasRows[i]], pool)
    /\ EditCommits(e, "pools", {"replace", "rename"})
    /\ UNCHANGED <<aliasId, lists, promised>>

\* The index refuses what a request writes from a stale read.
WriteRefused(e) ==
    /\ edit[e].at \in {"replace", "rename"} /\ edit[e].stale
    /\ edit' = [edit EXCEPT ![e] = NoEdit]
    /\ UNCHANGED <<aliasRows, aliasId, lists, boot, pool, promised, unseated, overlap, aliasActs, boots>>

Exposable(t) ==
    /\ \E i \in DOMAIN aliasRows : aliasRows[i].target = t
    /\ lists[t.group].specified /\ t.model \notin lists[t.group].blocked

ExposeReads(e, t) ==
    /\ Exposable(t) /\ t.model \notin lists[t.group].exposed
    /\ EditBegins(e, [at |-> "expose", stale |-> FALSE, target |-> t, seen |-> lists[t.group].exposed])

ExposeWrites(e) ==
    /\ edit[e].at = "expose"
    /\ LET t == edit[e].target IN
         /\ lists' = [lists EXCEPT ![t.group].exposed = edit[e].seen \cup {t.model}]
         /\ promised' = [promised EXCEPT ![t.group] = @ \cup {t.model}]
    /\ EditCommits(e, "lists", {"expose", "update"})
    /\ UNCHANGED <<aliasRows, aliasId, pool>>

UpdateReads(e, g) ==
    EditBegins(e, [at |-> "update", stale |-> FALSE, group |-> g, seen |-> lists[g].exposed])

\* The request gives the group another list of exposed models.
ListsEdited(e, models) ==
    /\ edit[e].at = "update"
    /\ lists' = [lists EXCEPT ![edit[e].group].exposed = models]
    /\ promised' = [promised EXCEPT ![edit[e].group] = {}]
    /\ edit' = [Staled({"expose", "update"}) EXCEPT ![e] = NoEdit]
    /\ UNCHANGED <<aliasRows, aliasId, boot, pool, unseated, overlap, aliasActs, boots>>

\* Without that parameter the list that was read is saved, with the rest of the row.
ListsKept(e) ==
    /\ edit[e].at = "update"
    /\ lists' = [lists EXCEPT ![edit[e].group].exposed = edit[e].seen]
    /\ EditCommits(e, "lists", {"expose", "update"})
    /\ UNCHANGED <<aliasRows, aliasId, pool, promised>>

\* ExposeAlreadyOk.
ExposedAlready(t) ==
    /\ AliasAct
    /\ Exposable(t) /\ t.model \in lists[t.group].exposed
    /\ promised' = [promised EXCEPT ![t.group] = @ \cup {t.model}]
    /\ UNCHANGED <<aliasRows, aliasId, lists, edit, pool, unseated, overlap>>

--------------------------------------------------------------------------
(* EnsureReservedSeeded, before an instance serves; it may be killed and start again *)

Boots ==
    /\ boots < MaxBoots /\ boots' = boots + 1
    /\ boot' = "placeholder"
    /\ edit' = [e \in Editor |-> NoEdit]
    /\ UNCHANGED <<aliasRows, aliasId, lists, pool, promised, unseated, overlap, aliasActs>>

PlaceholderDropped ==
    /\ boot = "placeholder" /\ boot' = "legacy"
    /\ LET old == {i \in DOMAIN aliasRows : Seated /\ aliasRows[i] = Reserved(LegacyName)} IN
         aliasRows' = Without(aliasRows, old) /\ pool' = Without(pool, old)
    /\ UNCHANGED <<aliasId, lists, edit, promised, unseated, overlap, aliasActs, boots>>

\* Where both names have a candidate for one target the update fails, and with it seeding.
LegacyRenamed ==
    /\ boot = "legacy"
    /\ LET rs == [i \in DOMAIN aliasRows |-> IF aliasRows[i].alias = LegacyName
                                             THEN [aliasRows[i] EXCEPT !.alias = ReservedName]
                                             ELSE aliasRows[i]] IN
         \/ RowsBecome(rs, pool) /\ boot' = "seed" /\ UNCHANGED unseated
         \/ /\ ~Distinct(rs)
            /\ boot' = "done" /\ unseated' = (unseated \/ ~Seated)
            /\ UNCHANGED <<aliasRows, pool>>
    /\ UNCHANGED <<aliasId, lists, edit, promised, overlap, aliasActs, boots>>

Seeded ==
    /\ boot = "seed" /\ boot' = "done"
    /\ IF \E i \in DOMAIN aliasRows : aliasRows[i].alias = ReservedName /\ aliasRows[i].reserved
       THEN UNCHANGED <<aliasRows, aliasId, pool>>
       ELSE /\ aliasId < MaxAliasRows /\ aliasId' = aliasId + 1
            /\ aliasRows' = [i \in DOMAIN aliasRows \cup {aliasId'} |->
                               IF i = aliasId' THEN Reserved(ReservedName) ELSE aliasRows[i]]
            /\ pool' = [i \in DOMAIN pool \cup {aliasId'} |-> IF i = aliasId' THEN 0 ELSE pool[i]]
    /\ UNCHANGED <<lists, edit, promised, unseated, overlap, aliasActs, boots>>

AliasNext ==
    \/ \E a \in Movable \cup {ReservedName}, ts \in SUBSET AliasTarget : CreateMany(a, ts)
    \/ \E i \in 1 .. MaxAliasRows : DeleteRow(i) \/ \E t \in AliasTarget : UpdateRow(i, t)
    \/ \E e \in Editor :
         \/ \E a \in Movable \cup {ReservedName}, want \in SUBSET AliasTarget : ReplaceReads(e, a, want)
         \/ \E from, to \in Movable : RenameCounts(e, from, to)
         \/ \E t \in AliasTarget : ExposeReads(e, t)
         \/ \E g \in AliasGroup : UpdateReads(e, g)
         \/ \E models \in SUBSET AliasModel : ListsEdited(e, models)
         \/ ReplaceWrites(e) \/ RenameWrites(e) \/ ExposeWrites(e) \/ ListsKept(e) \/ WriteRefused(e)
    \/ \E t \in AliasTarget : ExposedAlready(t)
    \/ Boots \/ PlaceholderDropped \/ LegacyRenamed \/ Seeded

AliasSpec == AliasInit /\ [][AliasNext]_aliasVars

--------------------------------------------------------------------------
(* Properties *)

\* Renaming moves a pool of candidates as a whole and never into another one, and a model
\* that was said to be exposed is, unless a request wrote what it had read before another
\* one wrote; the placeholder of a reserved name is there whenever the service runs, unless
\* it was given a group (RenameAlias, ExposeCandidate, EnsureReservedSeeded).
AliasesSound ==
    /\ "pools" \notin overlap =>
         \A a, b \in Movable : \A i \in CandidatesOf(a), j \in CandidatesOf(b) : a = b <=> pool[i] = pool[j]
    /\ "lists" \notin overlap =>
         \A g \in AliasGroup : promised[g] \subseteq lists[g].exposed \ lists[g].blocked
    /\ boot = "done" /\ ~unseated => Seated
=============================================================================
