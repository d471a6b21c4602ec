------------------------------- MODULE KeyPool -------------------------------
(***************************************************************************)
(* The API-key pool of one group (internal/keypool/provider.go).           *)
(*                                                                         *)
(* A key lives in two places: its row in the api_keys table, and the store *)
(* (Redis or the in-process MemoryStore), which holds the hash key:<id>    *)
(* and the list group:<g>:active_keys that SelectKey rotates.  Every       *)
(* operation writes both, one store call at a time, and the store does not *)
(* roll back with the transaction.  This module models each database       *)
(* statement and each store call as a step of its own, so that goroutines  *)
(* interleave between them.                                                *)
(*                                                                         *)
(* The order of the list is abstracted: a key's number of entries is kept, *)
(* and Rotate may yield any listed key.                                    *)
(***************************************************************************)
EXTENDS Naturals, Sequences

CONSTANTS
    Keys,         \* the keys of the group
    Creds,        \* credential values (key_string)
    NoCred,       \* key_string absent or empty
    NoKey,        \* "no key"
    Txns,         \* goroutines that update a key in a transaction
    Callers,      \* goroutines inside SelectKey
    Syncers,      \* goroutines that realign the store with the table
    Kinds,        \* the kinds of transaction that Txns may run
    Scans,        \* the kinds of realignment that Syncers may run
    Threshold,    \* BlacklistThreshold; 0 never blacklists
    MaxSkip,      \* attempts of one SelectKey call
    MaxTries,     \* tries of executeTransactionWithRetry
    MaxFails,     \* bound on the failures reported for a key
    MaxListed,    \* bound on the entries of a key in active_keys
    Coolable,     \* the keys that upstream errors may cool down
    RowLock,      \* First locks the row until the commit
    LockedAt,     \* where a transaction may fail with "database is locked"
    StoreFaults,  \* the goroutines whose store calls may fail
    Crashes       \* the stores with which the process may stop and restart

TxnKinds == {"success", "failure", "enable", "disable", "restore", "remove",
             "add", "edit"}
Statuses == {"active", "invalid", "disabled"}

ASSUME KeyPoolAssumption ==
    /\ Creds # {} /\ NoCred \notin Creds
    /\ NoKey \notin Keys
    /\ Kinds \subseteq TxnKinds
    /\ Threshold \in Nat
    /\ MaxSkip \in Nat \ {0}
    /\ MaxTries \in Nat \ {0}
    /\ MaxFails \in Nat
    /\ MaxListed \in Nat
    /\ Scans \subseteq {"sync", "load"}
    /\ RowLock \in BOOLEAN
    /\ StoreFaults \subseteq {"txn", "select", "scan"}
    /\ LockedAt \subseteq {"update", "commit"}
    /\ Crashes \subseteq {"memory", "redis"}

VARIABLES
    row,      \* the committed rows of api_keys
    hash,     \* the store's hash of each key
    listed,   \* how many entries each key has in active_keys
    cooled,   \* the keys under a cooldown mark
    op,       \* the transaction each goroutine of Txns is in
    sel,      \* the SelectKey call each caller is in
    scan,     \* the realignment each syncer is in
    fails,    \* history: failures counted against each key
    up        \* the server accepts work

vars == <<row, hash, listed, cooled, op, sel, scan, fails, up>>
store == <<hash, listed>>

-----------------------------------------------------------------------------
(* Rows, hashes, store calls                                               *)

Row == [live : {"absent", "live", "deleted"}, status : Statuses, fc : Nat,
        cred : Creds]
Hash == [cred : Creds \cup {NoCred}, status : Statuses \cup {"none"}, fc : Nat]

\* A hash without fields does not exist; HIncrBy or a status-only HSet on it
\* makes a partial one, without key_string.
EmptyHash == [cred |-> NoCred, status |-> "none", fc |-> 0]

\* apiKeyToMap: the full hash of a row.
FullHash(r) == [cred |-> r.cred, status |-> r.status, fc |-> r.fc]

ActiveRow(r) == r.live = "live" /\ r.status = "active"

\* Mutant: the missing_credential check is dropped.
UsableIgnoringCredential(h) == h.status = "active"

\* What SelectKey accepts: status active and a non-empty key_string.
Usable(h) == h.status = "active" /\ h.cred # NoCred

StoreCalls == {"full", "status", "reset", "incr", "hdel", "lrem", "lpush"}

\* The hash of a key after one store call of an operation that holds row r.
HashAfter(call, h, r) ==
    CASE call = "full"   -> FullHash(r)
      [] call = "status" -> [h EXCEPT !.status = r.status]
      [] call = "reset"  -> [h EXCEPT !.status = r.status, !.fc = r.fc]
      [] call = "incr"   -> [h EXCEPT !.fc = @ + 1]
      [] call = "hdel"   -> EmptyHash
      [] OTHER           -> h

\* LRem with count 0 removes every entry of the key.
ListedAfter(call, n) ==
    CASE call = "lrem"  -> 0
      [] call = "lpush" -> n + 1
      [] OTHER          -> n

Call(call, k, r) ==
    /\ call = "lpush" => listed[k] < MaxListed
    /\ hash' = [hash EXCEPT ![k] = HashAfter(call, @, r)]
    /\ listed' = [listed EXCEPT ![k] = ListedAfter(call, @)]

-----------------------------------------------------------------------------
(* Transactions: success, failure, enable, disable, restore, remove, add,  *)
(* and the edit that ends in ReloadKey.                                    *)

AnyRow == [live |-> "absent", status |-> "active", fc |-> 0,
           cred |-> CHOOSE c \in Creds : TRUE]
IdleOp == [kind |-> "none", key |-> NoKey, at |-> "idle", seen |-> EmptyHash,
           next |-> AnyRow, todo |-> <<>>, tries |-> 0]

\* executeTransactionWithRetry wraps these; the others use db.Transaction.
Retried == {"success", "failure", "enable", "disable"}

\* The transaction of t keeps other writers off the row of k until it ends.
Holds(t, k) ==
    /\ op[t].key = k /\ op[t].kind # "edit"
    /\ \/ op[t].at = "store"
       \/ RowLock /\ op[t].at = "update"
LockFree(t, k) == \A u \in Txns \ {t} : ~Holds(u, k)

\* The goroutine's record becomes o, x, z.
OpBecomes(t, o) == op' = [op EXCEPT ![t] = o]
SelBecomes(c, x) == sel' = [sel EXCEPT ![c] = x]
ScanBecomes(s, z) == scan' = [scan EXCEPT ![s] = z]

Begin(t, kind, k, at, r) ==
    /\ up /\ op[t].at = "idle" /\ kind \in Kinds
    /\ OpBecomes(t, [kind |-> kind, key |-> k, at |-> at, next |-> r,
           seen |-> IF kind \in {"success", "failure"} THEN hash[k] ELSE EmptyHash,
           todo |-> <<>>, tries |-> 0])

\* handleSuccess reads the hash before its transaction, and returns at once
\* for a disabled key and for an active key without failures.
SuccessRead(t, k) ==
    /\ row[k].live # "absent"
    /\ hash[k].status # "disabled"
    /\ ~(hash[k].status = "active" /\ hash[k].fc = 0)
    /\ Begin(t, "success", k, "first", AnyRow)
    /\ UNCHANGED <<row, store, cooled, sel, scan, fails, up>>

\* handleFailure, for a failure that shouldCountFailure counts.
FailureRead(t, k) ==
    /\ row[k].live # "absent"
    /\ hash[k].status \notin {"invalid", "disabled"}
    /\ fails[k] < MaxFails
    /\ Begin(t, "failure", k, "first", AnyRow)
    /\ fails' = [fails EXCEPT ![k] = @ + 1]
    /\ UNCHANGED <<row, store, cooled, sel, scan, up>>

\* SetKeyEnabled, RestoreKeys, RestoreMultipleKeys, RemoveKeys and
\* removeKeysByStatus: an administrator's call, for one key of its batch.
AdminBegin(t, k) ==
    /\ row[k].live # "absent"
    /\ \E kind \in {"enable", "disable", "restore", "remove"} :
           Begin(t, kind, k, "first", AnyRow)
    /\ UNCHANGED <<row, store, cooled, sel, scan, fails, up>>

\* AddKeys of a new key: nobody else sees its row before the commit.
AddBegin(t, k) ==
    /\ row[k].live = "absent"
    /\ \A u \in Txns : op[u].key # k
    /\ \E c \in Creds :
           Begin(t, "add", k, "update", [AnyRow EXCEPT !.live = "live", !.cred = c])
    /\ UNCHANGED <<row, store, cooled, sel, scan, fails, up>>

\* UpdateKey with a new key value: one committed UPDATE, then ReloadKey.
EditRow(t, k) ==
    /\ row[k].live = "live" /\ LockFree(t, k)
    /\ Begin(t, "edit", k, "first", AnyRow)
    /\ \E c \in Creds \ {row[k].cred} :
           row' = [row EXCEPT ![k] = [@ EXCEPT !.cred = c, !.status = "active"]]
    /\ UNCHANGED <<store, cooled, sel, scan, fails, up>>

\* Mutant: blacklists one failure too early.
BlacklistsEarly(o) == Threshold > 0 /\ o.seen.fc + 2 >= Threshold

\* Whether handleFailure blacklists: the count is the one it read before the
\* transaction, plus one.
Blacklists(o) == Threshold > 0 /\ o.seen.fc + 1 >= Threshold

\* Mutants: the count of the hash is added to that of the row, or lowered.
UpdatedAdding(o, r) ==
    IF o.kind = "failure" THEN [r EXCEPT !.fc = @ + o.seen.fc + 1] ELSE r
UpdatedLowering(o, r) ==
    IF o.kind = "failure" THEN [r EXCEPT !.fc = o.seen.fc - 1] ELSE r

\* What the Updates of an operation make of a row.
Updated(o, r) ==
    CASE o.kind = "success" ->
             [r EXCEPT !.fc = 0,
                       !.status = IF o.seen.status = "active" THEN @ ELSE "active"]
      [] o.kind = "failure" ->
             [r EXCEPT !.fc = o.seen.fc + 1,
                       !.status = IF Blacklists(o) THEN "invalid" ELSE @]
      [] o.kind \in {"enable", "restore"} ->
             [r EXCEPT !.fc = 0, !.status = "active"]
      [] o.kind = "disable" -> [r EXCEPT !.status = "disabled"]
      [] o.kind = "remove"  -> [r EXCEPT !.live = "deleted"]
      [] OTHER              -> r

\* Mutants of Plan: disabling leaves the key in the list; enabling pushes it
\* without removing it first; blacklisting leaves the hash active.
PlanDisableStaysListed(o, r) ==
    CASE o.kind = "disable" -> <<"status">>
      [] o.kind = "failure" -> <<"incr">>
      [] OTHER              -> <<"reset", "lrem", "lpush">>
PlanEnableTwice(o, r) ==
    CASE o.kind = "enable"  -> <<"reset", "lpush">>
      [] o.kind = "disable" -> <<"status", "lrem">>
      [] OTHER              -> <<>>
PlanBlacklistOnlyList(o, r) ==
    CASE o.kind = "failure" ->
             IF Blacklists(o) THEN <<"incr", "lrem">> ELSE <<"incr">>
      [] o.kind = "disable" -> <<"status", "lrem">>
      [] OTHER              -> <<"full", "lrem", "lpush">>

\* The store calls an operation makes after its Updates, in order.
Plan(o, r) ==
    CASE o.kind = "success" ->
             IF o.seen.status = "active" THEN <<"full">>
                                         ELSE <<"full", "lrem", "lpush">>
      [] o.kind = "failure" ->
             IF Blacklists(o) THEN <<"incr", "lrem", "status">> ELSE <<"incr">>
      [] o.kind = "enable"  -> <<"reset", "lrem", "lpush">>
      [] o.kind = "restore" -> <<"full", "lrem", "lpush">>
      [] o.kind = "disable" -> <<"status", "lrem">>
      [] o.kind = "remove"  -> <<"lrem", "hdel">>
      [] o.kind = "add"     -> <<"full", "lpush">>
      [] o.kind = "edit"    ->
             IF r.status = "active" THEN <<"full", "lrem", "lpush">>
                                    ELSE <<"lrem", "full">>
      [] OTHER              -> <<>>

\* The row an operation looks for; First does not see deleted rows.
Found(o, r) == r.live = "live" /\ (o.kind = "restore" => r.status = "invalid")

End(t) == OpBecomes(t, IdleOp)

\* First(&key): the struct the operation works on from here.  Not found ends
\* it.  ReloadKey reads outside any transaction.
First(t) ==
    LET o == op[t]
        r == row[o.key]
    IN /\ o.at = "first"
       /\ RowLock /\ o.kind # "edit" => LockFree(t, o.key)
       /\ IF ~Found(o, r) THEN End(t)
          ELSE IF o.kind = "edit"
          THEN OpBecomes(t, [o EXCEPT !.at = "store", !.next = r,
                                      !.todo = Plan(o, r)])
          ELSE OpBecomes(t, [o EXCEPT !.at = "update", !.next = Updated(o, r)])
       /\ UNCHANGED <<row, store, cooled, sel, scan, fails, up>>

\* Updates: the row is locked from here to the end of the transaction.
Update(t) ==
    /\ op[t].at = "update" /\ LockFree(t, op[t].key)
    /\ OpBecomes(t, [op[t] EXCEPT !.at = "store",
                                  !.todo = Plan(op[t], op[t].next)])
    /\ UNCHANGED <<row, store, cooled, sel, scan, fails, up>>

StoreStep(t) ==
    /\ op[t].at = "store" /\ op[t].todo # <<>>
    /\ Call(Head(op[t].todo), op[t].key, op[t].next)
    /\ OpBecomes(t, [op[t] EXCEPT !.todo = Tail(@)])
    /\ UNCHANGED <<row, cooled, sel, scan, fails, up>>

\* The commit.  The UPDATE touched the row as it was then, not the struct, and
\* no row at all if it had been deleted meanwhile.
Commit(t) ==
    LET o == op[t]
    IN /\ o.at = "store" /\ o.todo = <<>>
       /\ row' = CASE o.kind = "add"  -> [row EXCEPT ![o.key] = o.next]
                   [] o.kind = "edit" -> row
                   [] OTHER -> IF row[o.key].live = "live"
                               THEN [row EXCEPT ![o.key] = Updated(o, @)]
                               ELSE row
       /\ End(t)
       /\ UNCHANGED <<store, cooled, sel, scan, fails, up>>

\* Mutant: the retry does not count its tries.
DatabaseLockedForever(t) ==
    /\ op[t].at = "update" /\ "update" \in LockedAt
    /\ OpBecomes(t, [op[t] EXCEPT !.at = "first", !.next = AnyRow])
    /\ UNCHANGED <<row, store, cooled, sel, scan, fails, up>>

\* "database is locked": the transaction rolls back and, for the operations
\* that executeTransactionWithRetry wraps, runs again from its First.
DatabaseLocked(t) ==
    LET o == op[t]
    IN /\ o.kind # "edit"
       /\ \/ o.at = "update" /\ "update" \in LockedAt
          \/ o.at = "store" /\ o.todo = <<>> /\ "commit" \in LockedAt
       /\ IF o.kind \in Retried /\ o.tries + 1 < MaxTries
          THEN OpBecomes(t, [o EXCEPT !.at = "first", !.next = AnyRow,
                                      !.tries = @ + 1])
          ELSE End(t)
       /\ UNCHANGED <<row, store, cooled, sel, scan, fails, up>>

\* A store call fails.  The error ends the operation and rolls back its
\* transaction, but not the store calls it has made; SetKeyEnabled,
\* removeKeyFromStore and ReloadKey ignore a failed LRem.
ErrorIgnored(o) ==
    /\ Head(o.todo) = "lrem"
    /\ \/ o.kind \in {"enable", "disable", "remove"}
       \/ o.kind = "edit" /\ o.next.status # "active"
StoreFails(t) ==
    /\ "txn" \in StoreFaults /\ op[t].at = "store" /\ op[t].todo # <<>>
    /\ IF ErrorIgnored(op[t])
       THEN OpBecomes(t, [op[t] EXCEPT !.todo = Tail(@)])
       ELSE End(t)
    /\ UNCHANGED <<row, store, cooled, sel, scan, fails, up>>

-----------------------------------------------------------------------------
(* SelectKey                                                               *)

IdleSel == [at |-> "idle", key |-> NoKey, skips |-> 0, seen |-> EmptyHash,
            spare |-> EmptyHash, got |-> EmptyHash]

SelectStart(c) ==
    /\ up /\ sel[c].at = "idle"
    /\ SelBecomes(c, [IdleSel EXCEPT !.at = "rotate"])
    /\ UNCHANGED <<row, store, cooled, op, scan, fails, up>>

\* The call returns the details of a key, or ErrNoActiveKeys (EmptyHash).
Return(c, h) == SelBecomes(c, [IdleSel EXCEPT !.got = h])

\* One attempt: Rotate yields a listed key, or ErrNotFound on an empty list;
\* after the last attempt the first cooled key seen is the fallback.
SelectRotate(c) ==
    /\ sel[c].at = "rotate"
    /\ IF sel[c].skips = MaxSkip THEN Return(c, sel[c].spare)
       ELSE IF \A k \in Keys : listed[k] = 0 THEN Return(c, EmptyHash)
       ELSE \E k \in Keys :
                /\ listed[k] > 0
                /\ SelBecomes(c, [sel[c] EXCEPT !.at = "read", !.key = k,
                                                !.skips = @ + 1])
    /\ UNCHANGED <<row, store, cooled, op, scan, fails, up>>

\* HGetAll and the decision: evict a stale entry, remember and skip a cooled
\* key, skip a key the rate ledger refuses, or return this one.
SelectRead(c) ==
    LET k == sel[c].key
        h == hash[k]
    IN /\ sel[c].at = "read"
       /\ IF ~Usable(h)
          THEN SelBecomes(c, [sel[c] EXCEPT !.at = "drop", !.seen = h])
          ELSE IF k \in cooled
          THEN SelBecomes(c, [sel[c] EXCEPT !.at = "rotate", !.key = NoKey,
                                 !.spare = IF @ = EmptyHash THEN h ELSE @])
          ELSE \/ SelBecomes(c, [sel[c] EXCEPT !.at = "rotate", !.key = NoKey])
               \/ Return(c, h)
       /\ UNCHANGED <<row, store, cooled, op, scan, fails, up>>

\* The eviction: LRem, then Delete of the hash unless it is missing or lacks
\* its credential.  Errors are ignored.
SelectDrop(c) ==
    /\ sel[c].at = "drop"
    /\ \/ Call("lrem", sel[c].key, AnyRow)
       \/ "select" \in StoreFaults /\ UNCHANGED store
    /\ SelBecomes(c, IF sel[c].seen.cred # NoCred
                     THEN [sel[c] EXCEPT !.at = "forget", !.seen = EmptyHash]
                     ELSE [sel[c] EXCEPT !.at = "rotate", !.seen = EmptyHash,
                                         !.key = NoKey])
    /\ UNCHANGED <<row, cooled, op, scan, fails, up>>

SelectForget(c) ==
    /\ sel[c].at = "forget"
    /\ \/ Call("hdel", sel[c].key, AnyRow)
       \/ "select" \in StoreFaults /\ UNCHANGED store
    /\ SelBecomes(c, [sel[c] EXCEPT !.at = "rotate", !.key = NoKey])
    /\ UNCHANGED <<row, cooled, op, scan, fails, up>>

\* Rotate or HGetAll fails: the call returns an error.
SelectFails(c) ==
    /\ "select" \in StoreFaults /\ sel[c].at \in {"rotate", "read"}
    /\ Return(c, EmptyHash)
    /\ UNCHANGED <<row, store, cooled, op, scan, fails, up>>

\* CoolDownKey sets a mark with a TTL; it expires by itself.
CoolDownKey(k) ==
    /\ up /\ k \in Coolable \ cooled
    /\ cooled' = cooled \cup {k}
    /\ UNCHANGED <<row, store, op, sel, scan, fails, up>>
CooldownExpires(k) ==
    /\ k \in cooled
    /\ cooled' = cooled \ {k}
    /\ UNCHANGED <<row, store, op, sel, scan, fails, up>>

-----------------------------------------------------------------------------
(* Realignment: SyncGroupKeysFromDB after a mesh merge (and, at a slave's  *)
(* start, HydrateStoreFromDB); LoadKeysFromDB at a master's start and      *)
(* after a backup import.                                                  *)

IdleScan == [mode |-> "idle", snap |-> [k \in Keys |-> AnyRow], left |-> {},
             key |-> NoKey, todo |-> <<>>]

\* A merge from a peer commits a change of one row; SyncGroupKeysFromDB comes
\* after the commit.
PeerMerge(s, k) ==
    /\ up /\ scan[s].mode = "idle" /\ "sync" \in Scans
    /\ \A t \in Txns : ~Holds(t, k) /\ (op[t].kind = "add" => op[t].key # k)
    /\ \E r \in [live : {"live", "deleted"}, status : Statuses, fc : {0},
                 cred : Creds] :
           /\ row[k].live = "absent" => r.live = "live"
           /\ row[k].live # "absent" => r.cred = row[k].cred
           /\ row[k].live # "deleted"
           /\ row' = [row EXCEPT ![k] = r]
    /\ ScanBecomes(s, [scan[s] EXCEPT !.mode = "merged"])
    /\ UNCHANGED <<store, cooled, op, sel, fails, up>>

\* Find(&allKeys), deleted rows included.
SyncFind(s) ==
    /\ \/ up /\ scan[s].mode = "merged"
       \/ ~up /\ "sync" \in Scans /\ \A q \in Syncers : scan[q].mode = "idle"
    /\ ScanBecomes(s, [IdleScan EXCEPT !.mode = "sync", !.snap = row,
                           !.left = {k \in Keys : row[k].live # "absent"}])
    /\ UNCHANGED <<row, store, cooled, op, sel, fails, up>>

\* What SyncGroupKeysFromDB does for a key, given its row and its hash.
SyncPlan(r, h) ==
    CASE r.live = "deleted"                  -> <<"lrem", "hdel">>
      [] r.live = "live" /\ r.status # "active" -> <<"lrem", "status">>
      [] ActiveRow(r) /\ h = EmptyHash       -> <<"full", "lpush">>
      [] ActiveRow(r) /\ h # EmptyHash /\ h.cred = NoCred ->
             <<"full", "lrem", "lpush">>
      [] ActiveRow(r) /\ h.cred # NoCred /\ h.status # "active" ->
             <<"status", "lrem", "lpush">>
      [] OTHER                               -> <<>>

SyncKey(s) ==
    /\ scan[s].mode = "sync" /\ scan[s].todo = <<>>
    /\ \E k \in scan[s].left :
           ScanBecomes(s, [scan[s] EXCEPT
               !.key = k, !.left = @ \ {k},
               !.todo = SyncPlan(scan[s].snap[k], hash[k])])
    /\ UNCHANGED <<row, store, cooled, op, sel, fails, up>>

\* Errors of the store are ignored.
SyncStep(s) ==
    LET z == scan[s]
    IN /\ z.mode = "sync" /\ z.todo # <<>>
       /\ \/ Call(Head(z.todo), z.key, z.snap[z.key])
          \/ "scan" \in StoreFaults /\ UNCHANGED store
       /\ ScanBecomes(s, [z EXCEPT !.todo = Tail(@)])
       /\ UNCHANGED <<row, cooled, op, sel, fails, up>>

ScanDone(s) == ScanBecomes(s, IdleScan) /\ up' = TRUE

SyncDone(s) ==
    /\ scan[s].mode = "sync" /\ scan[s].todo = <<>> /\ scan[s].left = {}
    /\ ScanDone(s)
    /\ UNCHANGED <<row, store, cooled, op, sel, fails>>

LoadFind(s) ==
    /\ scan[s].mode = "idle" /\ "load" \in Scans
    /\ up \/ \A q \in Syncers : scan[q].mode = "idle"
    /\ ScanBecomes(s, [IdleScan EXCEPT !.mode = "load", !.snap = row,
                           !.left = {k \in Keys : row[k].live = "live"}])
    /\ UNCHANGED <<row, store, cooled, op, sel, fails, up>>

\* A failed HSet or LPush is logged, and the load goes on.
LoadKey(s) ==
    /\ scan[s].mode = "load"
    /\ \E k \in scan[s].left :
           /\ \/ Call("full", k, scan[s].snap[k])
              \/ "scan" \in StoreFaults /\ UNCHANGED store
           /\ ScanBecomes(s, [scan[s] EXCEPT !.left = @ \ {k}])
    /\ UNCHANGED <<row, cooled, op, sel, fails, up>>

\* Mutant: the list is pushed again without being deleted.
LoadKeepsList(s) ==
    /\ scan[s].mode = "load" /\ scan[s].left = {}
    /\ ScanBecomes(s, [scan[s] EXCEPT !.mode = "push"])
    /\ UNCHANGED <<row, store, cooled, op, sel, fails, up>>

\* The list is deleted and pushed again, if the group has an active key.
LoadClear(s) ==
    /\ scan[s].mode = "load" /\ scan[s].left = {}
    /\ IF \E k \in Keys : ActiveRow(scan[s].snap[k])
       THEN /\ listed' = [k \in Keys |-> 0]
            /\ ScanBecomes(s, [scan[s] EXCEPT !.mode = "push"])
            /\ UNCHANGED up
       ELSE UNCHANGED listed /\ ScanDone(s)
    /\ UNCHANGED <<row, hash, cooled, op, sel, fails>>

LoadPush(s) ==
    /\ scan[s].mode = "push"
    /\ \/ listed' = [k \in Keys |->
                       listed[k] + IF ActiveRow(scan[s].snap[k]) THEN 1 ELSE 0]
       \/ "scan" \in StoreFaults /\ UNCHANGED listed
    /\ ScanDone(s)
    /\ UNCHANGED <<row, hash, cooled, op, sel, fails>>

-----------------------------------------------------------------------------
\* The process stops: what was not committed is lost, and so is the store
\* when it is the MemoryStore.  Nothing runs again until the store is loaded.
Crash ==
    /\ up
    /\ \/ /\ "memory" \in Crashes
          /\ hash' = [k \in Keys |-> EmptyHash]
          /\ listed' = [k \in Keys |-> 0]
          /\ cooled' = {}
       \/ "redis" \in Crashes /\ UNCHANGED <<store, cooled>>
    /\ op' = [t \in Txns |-> IdleOp]
    /\ sel' = [c \in Callers |-> IdleSel]
    /\ scan' = [s \in Syncers |-> IdleScan]
    /\ up' = FALSE
    /\ UNCHANGED <<row, fails>>

\* A pool that a master has just loaded: any rows, the store in step with them.
Init ==
    /\ row \in [Keys -> {AnyRow} \cup [live : {"live"}, status : Statuses,
                                       fc : {0}, cred : Creds]]
    /\ hash = [k \in Keys |-> IF row[k].live = "live" THEN FullHash(row[k])
                                                      ELSE EmptyHash]
    /\ listed = [k \in Keys |-> IF ActiveRow(row[k]) THEN 1 ELSE 0]
    /\ cooled = {}
    /\ op = [t \in Txns |-> IdleOp]
    /\ sel = [c \in Callers |-> IdleSel]
    /\ scan = [s \in Syncers |-> IdleScan]
    /\ fails = [k \in Keys |-> 0]
    /\ up = TRUE

TxnBegin(t) == \E k \in Keys : \/ SuccessRead(t, k) \/ FailureRead(t, k)
                               \/ AdminBegin(t, k) \/ AddBegin(t, k)
                               \/ EditRow(t, k)
TxnStep(t) == First(t) \/ Update(t) \/ StoreStep(t) \/ Commit(t)
TxnFault(t) == DatabaseLocked(t) \/ StoreFails(t)
SelectStep(c) == \/ SelectRotate(c) \/ SelectRead(c)
                 \/ SelectDrop(c) \/ SelectForget(c)
ScanStep(s) == \/ SyncFind(s) \/ SyncKey(s) \/ SyncStep(s) \/ SyncDone(s)
               \/ LoadKey(s) \/ LoadClear(s) \/ LoadPush(s)

Next ==
    \/ \E t \in Txns : TxnBegin(t) \/ TxnStep(t) \/ TxnFault(t)
    \/ \E c \in Callers : SelectStart(c) \/ SelectStep(c) \/ SelectFails(c)
    \/ \E s \in Syncers : \/ ScanStep(s) \/ LoadFind(s)
                          \/ \E k \in Keys : PeerMerge(s, k)
    \/ \E k \in Keys : CoolDownKey(k) \/ CooldownExpires(k)
    \/ Crash

Spec == Init /\ [][Next]_vars

\* A goroutine that has begun goes on, and the database grants a row lock that
\* is free again and again to everyone who waits for it.
Fairness ==
    /\ \A t \in Txns : /\ SF_vars(First(t) \/ Update(t))
                       /\ WF_vars(StoreStep(t) \/ Commit(t))
    /\ \A c \in Callers : WF_vars(SelectStep(c))
    /\ \A s \in Syncers : WF_vars(ScanStep(s))
FairSpec == Spec /\ Fairness

-----------------------------------------------------------------------------
(* Properties                                                              *)

OpType == [kind : TxnKinds \cup {"none"}, key : Keys \cup {NoKey},
           at : {"idle", "first", "update", "store"}, seen : Hash,
           next : Row, todo : Seq(StoreCalls), tries : Nat]
SelType == [at : {"idle", "rotate", "read", "drop", "forget"},
            key : Keys \cup {NoKey}, skips : Nat,
            seen : Hash, spare : Hash, got : Hash]
ScanType == [mode : {"idle", "merged", "sync", "load", "push"},
             snap : [Keys -> Row], left : SUBSET Keys,
             key : Keys \cup {NoKey}, todo : Seq(StoreCalls)]

\* Every variable has its type, and a goroutine that is at work has a key to
\* work on.
TypeOK ==
    /\ row \in [Keys -> Row]
    /\ hash \in [Keys -> Hash]
    /\ listed \in [Keys -> Nat]
    /\ cooled \subseteq Keys
    /\ op \in [Txns -> OpType]
    /\ \A t \in Txns : op[t].at # "idle" => op[t].key \in Keys
    /\ sel \in [Callers -> SelType]
    /\ \A c \in Callers : sel[c].at \in {"read", "drop", "forget"} =>
                              sel[c].key \in Keys
    /\ scan \in [Syncers -> ScanType]
    /\ \A s \in Syncers : scan[s].todo # <<>> => scan[s].key \in Keys
    /\ fails \in [Keys -> Nat]
    /\ up \in BOOLEAN

\* No operation is under way on key k.
Quiet(k) ==
    /\ \A t \in Txns : op[t].at = "idle" \/ op[t].key # k
    /\ \A s \in Syncers : scan[s].mode = "idle"

\* Whatever interleaves, fails or crashes, SelectKey never lends a key without
\* its credential or one whose hash it did not read as active (provider.go:92:
\* a partial hash must never be let through).
LendsUsable ==
    \A c \in Callers : sel[c].got # EmptyHash =>
                          sel[c].got.status = "active" /\ sel[c].got.cred # NoCred

\* While transactions are serialised by the row lock and the store does not
\* fail, a key that nobody is working on is in rotation only if its committed
\* row is live and active: no order of stale reads, evictions and commits
\* leaves a blacklisted, disabled or deleted key behind in active_keys.
OnlyActiveListed ==
    \A k \in Keys : Quiet(k) /\ listed[k] > 0 => ActiveRow(row[k])

\* Under the same conditions a key never has two entries in active_keys,
\* which would give it a double share of the rotation (provider.go:510).
ListedOnce == \A k \in Keys : listed[k] <= 1

\* What the two invariants above rest on, and what a transaction may rely on
\* while it holds its row: nobody else holds it, the row is still the one that
\* its struct was made from, and the list agrees with that struct as far as
\* the LRem and the LPush that are still to come allow.
Pending(t, call) == \E i \in 1..Len(op[t].todo) : op[t].todo[i] = call
Working(t, k) == op[t].at \in {"update", "store"} /\ op[t].key = k
RowHeld(t) ==
    LET o == op[t]
        r == row[o.key]
    IN o.at # "idle" =>
           /\ o.kind \notin {"edit", "none"}
           /\ o.kind = "add" =>
                 /\ o.at # "first" /\ r.live = "absent" /\ ActiveRow(o.next)
                 /\ \A u \in Txns \ {t} : op[u].key # o.key
           /\ o.kind # "add" => r.live # "absent"
           /\ o.kind # "add" /\ o.at # "first" =>
                 r.live = "live" /\ o.next = Updated(o, r)
           /\ \A u \in Txns \ {t} : Working(t, o.key) => ~Working(u, o.key)
ListMidway(t) ==
    LET o == op[t]
    IN o.at = "store" =>
           /\ \A i \in 1..Len(o.todo) : o.todo[i] = "lpush" => i = Len(o.todo)
           /\ Pending(t, "lpush") => ActiveRow(o.next)
           /\ ~Pending(t, "lrem") =>
                 /\ listed[o.key] > 0 => ActiveRow(o.next)
                 /\ Pending(t, "lpush") => listed[o.key] = 0
ListAtRest(k) ==
    (\A t \in Txns : ~(op[t].at = "store" /\ op[t].key = k)) =>
        (listed[k] > 0 => ActiveRow(row[k]))
RotationInv ==
    /\ \A t \in Txns : RowHeld(t) /\ ListMidway(t)
    /\ \A k \in Keys : ListAtRest(k)
    /\ ListedOnce

\* The conditions: the rows are locked, an error of the store or of the commit
\* does not undo half an operation, and nothing but transactions writes.
Serialised ==
    /\ RowLock /\ Syncers = {} /\ Crashes = {}
    /\ "edit" \notin Kinds /\ "txn" \notin StoreFaults /\ "commit" \notin LockedAt

\* A failure blacklists a key only after Threshold failures were counted
\* against it, whatever the goroutines read before their transactions.
NoPrematureBlacklist ==
    [][\A t \in Txns, k \in Keys :
          /\ op[t].kind = "failure" /\ op[t].key = k /\ op'[t].at = "idle"
          /\ row[k].status # "invalid" /\ row'[k].status = "invalid"
          => fails[k] >= Threshold]_vars

\* Neither count, the store's nor the table's, runs ahead of the failures
\* reported against a key, however many goroutines report at once and whatever
\* order their reads, increments and commits take.
CountNeverAhead == \A k \in Keys : hash[k].fc <= fails[k] /\ row[k].fc <= fails[k]

\* Under the same conditions the store follows the table: when nobody works on
\* a key, its hash says of the row what is committed, or nothing where
\* SelectKey has evicted it, and a key that was removed left nothing behind.
StoreFollows ==
    \A k \in Keys : Quiet(k) =>
        IF row[k].live = "live"
        THEN /\ hash[k].status \in {row[k].status, "none"}
             /\ hash[k].cred \in {row[k].cred, NoCred}
        ELSE hash[k] = EmptyHash

\* A master that has loaded its store at start serves every active key, once,
\* with the credential and the failure count of its row, whatever the crash
\* left behind in Redis.
LoadServesActive ==
    [][\A s \in Syncers : scan[s].mode = "push" /\ ~up /\ up' =>
          \A k \in Keys :
             IF ActiveRow(row[k])
             THEN hash'[k] = FullHash(row[k]) /\ listed'[k] = 1
             ELSE listed'[k] = 0]_vars

\* Every operation under way ends: transactions run out of tries, SelectKey
\* out of attempts.
OperationsEnd ==
    /\ \A t \in Txns : op[t].at # "idle" ~> op[t].at = "idle"
    /\ \A c \in Callers : sel[c].at # "idle" ~> sel[c].at = "idle"

-----------------------------------------------------------------------------
(* What the sources say of the pool and its interleavings do not keep      *)

\* provider.go:280: a key disabled by hand is not brought back by a success
\* in flight.
DisabledStaysDisabled ==
    [][\A t \in Txns : op[t].kind = "success" /\ op'[t].at = "idle" =>
          \A k \in Keys : row[k].status = "disabled" =>
                            row'[k].status = "disabled"]_vars

\* provider.go:641: enabling a key puts it back into the rotation.
EnabledIsListed ==
    \A k \in Keys : Quiet(k) /\ ActiveRow(row[k])
                    /\ (\A c \in Callers : sel[c].at = "idle") => listed[k] > 0
=============================================================================
