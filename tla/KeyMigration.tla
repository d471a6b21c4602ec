---------------------------- MODULE KeyMigration ----------------------------
(* commands/migrate.go: every key of the database is decrypted with one secret and
   encrypted with another, first into a table of its own and then, in one transaction,
   in place. The tool may be killed between any two of its steps and run again with
   whatever secrets, while a service that was not stopped stores and removes keys. *)
EXTENDS Naturals, Sequences, FiniteSets

CONSTANTS Secret,        \* encryption secrets
          RowId,         \* ids of key rows, handed out in their order
          MigrationBatch,\* migrationBatchSize
          Sample,        \* rows that detectIfAlreadyEncrypted looks at
          MaxTools, MaxToolFaults, MaxStored, MaxServiceStarts   \* bounds

NoSecret == "none"   \* the empty ENCRYPTION_KEY: no encryption

ASSUME MigrationAssumption ==
    /\ NoSecret \notin Secret /\ RowId \subseteq Nat \ {0} /\ IsFiniteSet(RowId)
    /\ MigrationBatch \in Nat \ {0} /\ Sample \in Nat \ {0}
    /\ MaxTools \in Nat /\ MaxToolFaults \in Nat /\ MaxStored \in Nat /\ MaxServiceStarts \in Nat

VARIABLES keyRows,   \* the live rows of api_keys
          temp,      \* temp_migration
          tool,      \* the step of the tool, its secrets, the last id it copied
          secret,    \* the service's ENCRYPTION_KEY
          misused,   \* a key was stored during a migration, or with a secret not of the rest
          migrationBounds

migrationVars == <<keyRows, temp, tool, secret, misused, migrationBounds>>

Secrets == Secret \cup {NoSecret}

\* A value is the list of secrets it is encrypted with, the outermost first; its hash
\* is made with a secret of what that secret leaves to decrypt.
KeyText == UNION {[1 .. n -> Secret] : n \in 0 .. MaxTools + 1}
KeyRow == [value : KeyText, hash : Secrets \X KeyText]

Encrypted(v, s) == IF s = NoSecret THEN v ELSE <<s>> \o v
Decryptable(v, s) == s = NoSecret \/ (v # <<>> /\ Head(v) = s)
Decrypted(v, s) == IF s = NoSecret THEN v ELSE Tail(v)
EncodedRow(v, s) == [value |-> Encrypted(v, s), hash |-> <<s, v>>]

ToolIdle == [step |-> "idle", from |-> NoSecret, to |-> NoSecret, last |-> 0]

Uniform(s) == \A i \in DOMAIN keyRows : keyRows[i] = EncodedRow(<<>>, s)

MigrationTypeOK ==
    /\ DOMAIN keyRows \subseteq RowId /\ \A i \in DOMAIN keyRows : keyRows[i] \in KeyRow
    /\ DOMAIN temp \subseteq RowId /\ \A i \in DOMAIN temp : temp[i] \in KeyRow
    /\ tool.step \in {"idle", "check", "create", "copy", "verify", "switch", "clear", "drop"}
    /\ tool.from \in Secrets /\ tool.to \in Secrets /\ tool.last \in RowId \cup {0}
    /\ tool.step # "idle" => tool.from # tool.to
    /\ secret \in Secrets /\ misused \in BOOLEAN

MigrationInit ==
    /\ secret \in Secrets
    /\ \E n \in 0 .. Cardinality(RowId) :
         keyRows = [i \in {j \in RowId : j <= n} |-> EncodedRow(<<>>, secret)]
    /\ temp = [i \in {} |-> EncodedRow(<<>>, NoSecret)]
    /\ tool = ToolIdle
    /\ misused = FALSE
    /\ migrationBounds = [tools |-> 0, faults |-> 0, stored |-> 0, starts |-> 0]

--------------------------------------------------------------------------
(* The tool *)

StepTo(step) == tool' = [tool EXCEPT !.step = step]

\* validateAndGetScenario: at least one secret, and not the same twice.
ToolStarts(from, to) ==
    /\ tool.step = "idle" /\ from # to
    /\ migrationBounds.tools < MaxTools
    /\ migrationBounds' = [migrationBounds EXCEPT !.tools = @ + 1]
    /\ tool' = [step |-> "check", from |-> from, to |-> to, last |-> 0]
    /\ UNCHANGED <<keyRows, temp, secret, misused>>

\* Mutant: the rows are not looked at.
SeemsPlain_Always(rows) == TRUE
\* A plain row has the plain hash of its value: so have all of the sampled ones, or the
\* tool refuses.
SeemsPlain(rows) == \A i \in rows : keyRows[i].hash = <<NoSecret, keyRows[i].value>>

\* A query takes whatever rows it likes.
Sampled == {rows \in SUBSET DOMAIN keyRows :
              Cardinality(rows) = IF Cardinality(DOMAIN keyRows) < Sample
                                  THEN Cardinality(DOMAIN keyRows) ELSE Sample}

PreCheck ==
    /\ tool.step = "check"
    /\ \E rows \in Sampled :
         IF /\ tool.from = NoSecret => SeemsPlain(rows)
            /\ \A i \in DOMAIN keyRows : Decryptable(keyRows[i].value, tool.from)
         THEN StepTo("create") ELSE tool' = ToolIdle
    /\ UNCHANGED <<keyRows, temp, secret, misused, migrationBounds>>

createTempTable ==
    /\ tool.step = "create"
    /\ temp' = [i \in {} |-> EncodedRow(<<>>, NoSecret)]
    /\ StepTo("copy")
    /\ UNCHANGED <<keyRows, secret, misused, migrationBounds>>

Rest == {i \in DOMAIN keyRows : i > tool.last}
Batch == {i \in Rest : Cardinality({j \in Rest : j < i}) < MigrationBatch}

processBatchToTempTable ==
    /\ tool.step = "copy" /\ Rest # {}
    /\ IF \A i \in Batch : Decryptable(keyRows[i].value, tool.from)
       THEN /\ temp' = [i \in DOMAIN temp \cup Batch |->
                          IF i \in Batch
                          THEN EncodedRow(Decrypted(keyRows[i].value, tool.from), tool.to)
                          ELSE temp[i]]
            /\ tool' = [tool EXCEPT !.last = CHOOSE i \in Batch : \A j \in Batch : j <= i]
       ELSE tool' = ToolIdle /\ UNCHANGED temp
    /\ UNCHANGED <<keyRows, secret, misused, migrationBounds>>

CopyEnds ==
    /\ tool.step = "copy" /\ Rest = {}
    /\ StepTo("verify")
    /\ UNCHANGED <<keyRows, temp, secret, misused, migrationBounds>>

\* Only the numbers are compared; a database without keys passes.
verifyTempColumns ==
    /\ tool.step = "verify"
    /\ IF \/ DOMAIN keyRows = {}
          \/ /\ Cardinality(DOMAIN temp) = Cardinality(DOMAIN keyRows)
             /\ \A i \in DOMAIN temp : Decryptable(temp[i].value, tool.to)
       THEN StepTo("switch") ELSE tool' = ToolIdle
    /\ UNCHANGED <<keyRows, temp, secret, misused, migrationBounds>>

switchColumns ==
    /\ tool.step = "switch"
    /\ keyRows' = [i \in DOMAIN keyRows |-> IF i \in DOMAIN temp THEN temp[i] ELSE keyRows[i]]
    /\ StepTo("clear")
    /\ UNCHANGED <<temp, secret, misused, migrationBounds>>

\* Failures of the last two steps are only logged.
clearCache ==
    /\ tool.step = "clear"
    /\ StepTo("drop")
    /\ UNCHANGED <<keyRows, temp, secret, misused, migrationBounds>>

dropTempTable ==
    /\ tool.step = "drop"
    /\ tool' = ToolIdle
    /\ \/ temp' = [i \in {} |-> EncodedRow(<<>>, NoSecret)]
       \/ UNCHANGED temp
    /\ UNCHANGED <<keyRows, secret, misused, migrationBounds>>

\* A statement fails or the tool is killed: a transaction leaves nothing behind.
ToolStops ==
    /\ tool.step # "idle"
    /\ migrationBounds.faults < MaxToolFaults
    /\ migrationBounds' = [migrationBounds EXCEPT !.faults = @ + 1]
    /\ tool' = ToolIdle
    /\ UNCHANGED <<keyRows, temp, secret, misused>>

--------------------------------------------------------------------------
(* The service *)

ServiceStarts(s) ==
    /\ migrationBounds.starts < MaxServiceStarts
    /\ migrationBounds' = [migrationBounds EXCEPT !.starts = @ + 1]
    /\ secret' = s
    /\ UNCHANGED <<keyRows, temp, tool, misused>>

KeyStored(i) ==
    /\ i \notin DOMAIN keyRows
    /\ \A j \in DOMAIN keyRows : j < i
    /\ migrationBounds.stored < MaxStored
    /\ migrationBounds' = [migrationBounds EXCEPT !.stored = @ + 1]
    /\ keyRows' = [j \in DOMAIN keyRows \cup {i} |->
                     IF j = i THEN EncodedRow(<<>>, secret) ELSE keyRows[j]]
    /\ misused' = (misused \/ tool.step # "idle" \/ ~Uniform(secret))
    /\ UNCHANGED <<temp, tool, secret>>

KeyRemoved(i) ==
    /\ i \in DOMAIN keyRows
    /\ keyRows' = [j \in DOMAIN keyRows \ {i} |-> keyRows[j]]
    /\ UNCHANGED <<temp, tool, secret, misused, migrationBounds>>

MigrationNext ==
    \/ \E from, to \in Secrets : ToolStarts(from, to)
    \/ PreCheck \/ createTempTable \/ processBatchToTempTable \/ CopyEnds
    \/ verifyTempColumns \/ switchColumns \/ clearCache \/ dropTempTable \/ ToolStops
    \/ \E s \in Secrets : ServiceStarts(s)
    \/ \E i \in RowId : KeyStored(i) \/ KeyRemoved(i)

MigrationSpec == MigrationInit /\ [][MigrationNext]_migrationVars

--------------------------------------------------------------------------
(* Properties *)

\* However the tool is run, killed and run again, and whatever keys are removed meanwhile,
\* one secret reads every key and no key is encrypted twice, unless a running service
\* stored one during a migration or with another secret (Execute).
MigrationSound == misused \/ \E s \in Secrets : Uniform(s)
=============================================================================
