------------------------------- MODULE Backup -------------------------------
(* Export and import of the configuration, internal/backup. Rows go by name: the groups'
   ids change with every replacement and no file names them. A row is <<"setting", s>>,
   <<"group", g>>, <<"key", g, k>>, <<"alias", g, a>> or <<"link", parent, g>>; its value
   stands for every column that a file carries. *)
EXTENDS Naturals, FiniteSets

CONSTANTS Content,          \* the rows that there may be
          Unreadable,       \* keys stored under an encryption key that is gone
          SystemGroup,      \* name of the system aggregate
          MaxEdits, MaxFiles, MaxImports   \* bounds

Absent == 0
Value == {1, 2}
IsA(kind, r) == r[1] = kind
Standard == {r[2] : r \in {x \in Content : IsA("group", x)}}

ASSUME BackupAssumption ==
    /\ SystemGroup \notin Standard
    /\ \A r \in Content : r[1] \in {"setting", "group", "key", "alias", "link"}
    /\ \A r \in Content : IsA("group", r) => r = <<"group", r[2]>>
    /\ Unreadable \subseteq {r \in Content : IsA("key", r)}

VARIABLES content,    \* the database, by name
          unlinked,   \* links with a tombstone between two groups that live
          files,      \* backups that were exported: their rows and, for the properties, what was there
          tokens,     \* files that were previewed; the confirm token is bound to the blob
          restored,   \* the last import, as long as nothing was edited since
          backupBounds

backupVars == <<content, unlinked, files, tokens, restored, backupBounds>>

Strategy == {"skip", "overwrite", "replace"}
NotRestored == [how |-> "none"]
Rows == [Content -> Value \cup {Absent}]

BackupTypeOK ==
    /\ content \in Rows /\ files \subseteq [rows : Rows, there : Rows] /\ tokens \subseteq files
    /\ unlinked \subseteq {r \in Content : IsA("link", r) /\ content[r] = Absent}
    /\ restored = NotRestored \/
         (restored.how \in Strategy /\ restored.file \in files /\ restored.before \in Rows)

Has(c, r) == c[r] # Absent
Living(c) == {SystemGroup} \cup {g \in Standard : Has(c, <<"group", g>>)}
EndsOf(r) == CASE IsA("setting", r) -> {} [] IsA("group", r) -> {}
             [] IsA("link", r) -> {r[2], r[3]} [] OTHER -> {r[2]}
\* The rows name groups that there may be.
ASSUME ContentAssumption == \A r \in Content : EndsOf(r) \subseteq {SystemGroup} \cup Standard

Resolves(c, r) == EndsOf(r) \subseteq Living(c)
Sound(c) == \A r \in Content : Has(c, r) => Resolves(c, r)

BackupInit ==
    /\ content = [r \in Content |-> 1]
    /\ unlinked = {} /\ files = {} /\ tokens = {}
    /\ restored = NotRestored
    /\ backupBounds = [edits |-> 0, imports |-> 0]

Acts(what, max) == backupBounds[what] < max /\ backupBounds' = [backupBounds EXCEPT ![what] = @ + 1]

--------------------------------------------------------------------------
(* The administration between two backups *)

\* A row is written. A link with a tombstone cannot be created again (idx_group_sub).
Writes(r, v) ==
    /\ Acts("edits", MaxEdits)
    /\ Resolves(content, r) /\ r \notin unlinked /\ content[r] # v
    /\ content' = [content EXCEPT ![r] = v]
    /\ restored' = NotRestored
    /\ UNCHANGED <<unlinked, files, tokens>>

\* A row is deleted; with a group go its keys, its links and its aliases: rows of aliases
\* stay in the table, but under an id that no name stands for (DeleteGroup).
Gone(c, r) == [x \in Content |-> IF x = r \/ (IsA("group", r) /\ r[2] \in EndsOf(x)) THEN Absent ELSE c[x]]

Removes(r) ==
    /\ Acts("edits", MaxEdits)
    /\ Has(content, r) /\ ~IsA("setting", r)
    /\ content' = Gone(content, r)
    /\ unlinked' = {l \in unlinked : ~(IsA("group", r) /\ r[2] \in EndsOf(l))}
                     \cup (IF IsA("link", r) THEN {r} ELSE {})
    /\ restored' = NotRestored
    /\ UNCHANGED <<files, tokens>>

--------------------------------------------------------------------------
(* Export, Preview *)

\* One transaction reads every table; a key that cannot be decrypted is left out. Mutant:
\* the links of system aggregates are left out, as their groups are.
Export_OwnLinks(c) == [r \in Content |-> IF r \in Unreadable \/ (IsA("link", r) /\ r[2] = SystemGroup)
                                         THEN Absent ELSE c[r]]
Export(c) == [r \in Content |-> IF r \in Unreadable THEN Absent ELSE c[r]]

Exports ==
    /\ Cardinality(files) < MaxFiles
    /\ files' = files \cup {[rows |-> Export(content), there |-> content]}
    /\ UNCHANGED <<content, unlinked, tokens, restored, backupBounds>>

Preview(f) ==
    /\ tokens' = tokens \cup {f}
    /\ UNCHANGED <<content, unlinked, files, restored, backupBounds>>

\* previewTokenTTL
PreviewExpires(f) ==
    /\ f \in tokens
    /\ tokens' = tokens \ {f}
    /\ UNCHANGED <<content, unlinked, files, restored, backupBounds>>

--------------------------------------------------------------------------
(* Import *)

wipeStandardGroups(c) == [r \in Content |-> IF IsA("setting", r) THEN c[r] ELSE Absent]
Basis(c, how) == IF how = "replace" THEN wipeStandardGroups(c) ELSE c

\* upsertSystemSetting, upsertGroup, upsertAPIKey, upsertAlias, upsertSubGroup
Upsert(old, new, how) ==
    IF new = Absent \/ (how = "skip" /\ old # Absent) THEN old ELSE new

\* The keys and aliases of a group that was skipped are skipped; its links are not.
SkipsWith(c, f, how, r) ==
    /\ how = "skip" /\ r[1] \in {"key", "alias"}
    /\ Has(c, <<"group", r[2]>>) /\ Has(f, <<"group", r[2]>>)

WithGroups(c, f, how) == [r \in Content |-> IF EndsOf(r) = {} THEN Upsert(c[r], f[r], how) ELSE c[r]]

Imported(base, f, how) ==
    LET c == WithGroups(base, f, how) IN
    [r \in Content |-> IF EndsOf(r) = {} \/ SkipsWith(base, f, how, r) \/ ~Resolves(c, r)
                       THEN c[r] ELSE Upsert(c[r], f[r], how)]

\* A link of the file meets its tombstone: the whole transaction fails.
Collides(f, how) ==
    how # "replace" /\ \E l \in unlinked : Has(f, l) /\ Resolves(WithGroups(content, f, how), l)

\* The hook after the import: standard groups without a link to the system aggregate join,
\* except where a tombstone stands.
Backfilled(c, tombs) ==
    [r \in Content |-> IF IsA("link", r) /\ r[2] = SystemGroup /\ ~Has(c, r) /\ r \notin tombs /\ Resolves(c, r)
                       THEN 1 ELSE c[r]]

\* The token is consumed whatever comes of the import.
Import(f, how) ==
    /\ Acts("imports", MaxImports)
    /\ f \in tokens
    /\ tokens' = tokens \ {f}
    /\ \/ /\ ~Collides(f.rows, how)
          /\ LET tombs == IF how = "replace" THEN {} ELSE unlinked IN
             /\ content' = Backfilled(Imported(Basis(content, how), f.rows, how), tombs)
             /\ unlinked' = tombs
          /\ restored' = [how |-> how, file |-> f, before |-> content]
       \/ \* it collides, or a statement fails
          UNCHANGED <<content, unlinked, restored>>
    /\ UNCHANGED files

BackupNext ==
    \/ \E r \in Content : Removes(r) \/ \E v \in Value : Writes(r, v)
    \/ Exports
    \/ \E f \in files : Preview(f) \/ PreviewExpires(f) \/ \E how \in Strategy : Import(f, how)

--------------------------------------------------------------------------
(* Properties *)

JoinsAlone(r) == IsA("link", r) /\ r[2] = SystemGroup
Saved == {r \in Content \ Unreadable : Has(restored.file.there, r)}

\* What a backup restores, whatever was written, deleted and unlinked since: replacing and
\* overwriting, all that was there when it was written and could be read; replacing, nothing
\* else but settings and groups that join the system aggregate; skipping, nothing that was
\* there before is touched, and a group that was not comes with its keys and links. No row
\* is ever left without its group (Exporter.Export, Importer.Import).
RestoreSound ==
    /\ restored.how \in {"replace", "overwrite"} =>
         \A r \in Saved : content[r] = restored.file.there[r]
    /\ restored.how = "replace" =>
         \A r \in Content \ Saved : Has(content, r) => IsA("setting", r) \/ JoinsAlone(r)
    /\ restored.how = "skip" =>
         /\ \A r \in Content : Has(restored.before, r) => content[r] = restored.before[r]
         /\ \A r \in Saved : ~Resolves(restored.before, r) => content[r] = restored.file.there[r]

BackupSound == RestoreSound /\ Sound(content)
=============================================================================
