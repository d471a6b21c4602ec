---------------------------- MODULE KeyPoolProofs ----------------------------
(***************************************************************************)
(* Theorems about KeyPool, for every value of its constants: types, what   *)
(* is returned to selection and what a load serves, and, under serialised  *)
(* transactions, the rotation list (RotationInv is inductive) and the      *)
(* hashes and failure counts (StoreInv is inductive with it).              *)
(***************************************************************************)
EXTENDS KeyPool, TLAPS, SequenceTheorems, FiniteSetTheorems

USE KeyPoolAssumption

-----------------------------------------------------------------------------
(* Types                                                                   *)

\* The default row and the default operation are well typed.
LEMMA DefaultTypes ==
    /\ AnyRow \in Row /\ EmptyHash \in Hash
    /\ IdleOp \in OpType
  <1>1. (CHOOSE c \in Creds : TRUE) \in Creds
    BY DEF KeyPoolAssumption
  <1>2. AnyRow \in Row
    BY <1>1 DEF AnyRow, Row, Statuses
  <1>3. EmptyHash \in Hash
    BY DEF EmptyHash, Hash
  <1>4. <<>> \in Seq(StoreCalls)
    OBVIOUS
  <1>5. QED
    BY <1>2, <1>3, <1>4 DEF IdleOp, OpType, TxnKinds

\* A row's full hash is a hash.
LEMMA FullHashType == ASSUME NEW r \in Row PROVE FullHash(r) \in Hash
  BY DEF FullHash, Row, Hash

\* A store call maps hashes to hashes and counts to counts.
LEMMA CallTypes ==
    ASSUME NEW c, NEW h \in Hash, NEW r \in Row, NEW n \in Nat
    PROVE  HashAfter(c, h, r) \in Hash /\ ListedAfter(c, n) \in Nat
  <1>1. ListedAfter(c, n) \in Nat
    BY DEF ListedAfter
  <1>2. FullHash(r) \in Hash /\ EmptyHash \in Hash
    BY FullHashType, DefaultTypes
  <1>3. [h EXCEPT !.status = r.status] \in Hash
    BY DEF Hash, Row
  <1>4. [h EXCEPT !.status = r.status, !.fc = r.fc] \in Hash
    BY DEF Hash, Row
  <1>5. [h EXCEPT !.fc = h.fc + 1] \in Hash
    BY DEF Hash
  <1>6. HashAfter(c, h, r) \in Hash
    BY <1>2, <1>3, <1>4, <1>5, Zenon DEF HashAfter
  <1>7. QED
    BY <1>1, <1>6

\* The Updates of an operation map rows to rows.
LEMMA UpdatedType ==
    ASSUME NEW o \in OpType, NEW r \in Row PROVE Updated(o, r) \in Row
  <1>1. o.seen.fc + 1 \in Nat /\ r.status \in Statuses
    BY DEF OpType, Hash, Row
  <1>2. ASSUME NEW n \in Nat, NEW s \in Statuses
        PROVE  [r EXCEPT !.fc = n, !.status = s] \in Row
    BY DEF Row
  <1>3. [r EXCEPT !.status = "disabled"] \in Row
    BY DEF Row, Statuses
  <1>4. [r EXCEPT !.live = "deleted"] \in Row
    BY DEF Row
  <1>5. "active" \in Statuses /\ "invalid" \in Statuses /\ 0 \in Nat
    BY DEF Statuses
  <1>6. CASE o.kind = "success"
    BY <1>1, <1>2, <1>5, <1>6, Zenon DEF Updated
  <1>7. CASE o.kind = "failure"
    BY <1>1, <1>2, <1>5, <1>7, Zenon DEF Updated
  <1>8. CASE o.kind \in {"enable", "restore"}
    BY <1>2, <1>5, <1>8 DEF Updated
  <1>9. CASE o.kind \notin {"success", "failure", "enable", "restore"}
    BY <1>3, <1>4, <1>9, Zenon DEF Updated
  <1>10. QED
    BY <1>6, <1>7, <1>8, <1>9

\* A plan is a sequence of store calls.
LEMMA PlanType ==
    ASSUME NEW o, NEW r PROVE Plan(o, r) \in Seq(StoreCalls)
  <1> DEFINE C == StoreCalls
  <1>1. <<>> \in Seq(C) /\ <<"full">> \in Seq(C) /\ <<"incr">> \in Seq(C)
    BY DEF StoreCalls
  <1>2. /\ <<"full", "lrem", "lpush">> \in Seq(C)
        /\ <<"incr", "lrem", "status">> \in Seq(C)
        /\ <<"reset", "lrem", "lpush">> \in Seq(C)
    BY DEF StoreCalls
  <1>3. /\ <<"status", "lrem">> \in Seq(C) /\ <<"lrem", "hdel">> \in Seq(C)
        /\ <<"full", "lpush">> \in Seq(C) /\ <<"lrem", "full">> \in Seq(C)
    BY DEF StoreCalls
  <1>4. QED
    BY <1>1, <1>2, <1>3 DEF Plan

\* The sequence of store calls to make: its head is one, its tail a sequence.
LEMMA TodoTypes ==
    ASSUME NEW todo \in Seq(StoreCalls), todo # <<>>
    PROVE  Head(todo) \in StoreCalls /\ Tail(todo) \in Seq(StoreCalls)
  OBVIOUS

\* One store call keeps the store well typed.
LEMMA CallKeepsTypes ==
    ASSUME NEW c, NEW k \in Keys, NEW r \in Row, Call(c, k, r),
           hash \in [Keys -> Hash], listed \in [Keys -> Nat]
    PROVE  hash' \in [Keys -> Hash] /\ listed' \in [Keys -> Nat]
  <1>1. HashAfter(c, hash[k], r) \in Hash /\ ListedAfter(c, listed[k]) \in Nat
    BY CallTypes
  <1>2. QED
    BY <1>1 DEF Call

(* The initial state is well typed. *)
LEMMA InitTypes == Init => TypeOK
  <1> SUFFICES ASSUME Init PROVE TypeOK
    OBVIOUS
  <1> USE DEF Init
  <1>1. row \in [Keys -> Row]
    BY DefaultTypes DEF Row, Statuses
  <1>2. hash \in [Keys -> Hash]
    BY <1>1, FullHashType, DefaultTypes
  <1>3. listed \in [Keys -> Nat] /\ fails \in [Keys -> Nat]
    OBVIOUS
  <1>4. op \in [Txns -> OpType] /\ \A t \in Txns : op[t].at = "idle"
    BY DefaultTypes DEF IdleOp
  <1>5. sel \in [Callers -> SelType] /\ \A c \in Callers : sel[c].at = "idle"
    BY DefaultTypes DEF IdleSel, SelType
  <1>6. <<>> \in Seq(StoreCalls)
    OBVIOUS
  <1>7. scan \in [Syncers -> ScanType] /\ \A s \in Syncers : scan[s].todo = <<>>
    BY <1>6, DefaultTypes DEF IdleScan, ScanType
  <1>8. QED
    BY <1>1, <1>2, <1>3, <1>4, <1>5, <1>7 DEF TypeOK

\* TypeOK, one conjunct per part of the state.
RowTyped == row \in [Keys -> Row]
StoreTyped == hash \in [Keys -> Hash] /\ listed \in [Keys -> Nat]
OpTyped == /\ op \in [Txns -> OpType]
           /\ \A t \in Txns : op[t].at # "idle" => op[t].key \in Keys
SelTyped == /\ sel \in [Callers -> SelType]
            /\ \A c \in Callers : sel[c].at \in {"read", "drop", "forget"} =>
                                      sel[c].key \in Keys
ScanTyped == /\ scan \in [Syncers -> ScanType]
             /\ \A s \in Syncers : scan[s].todo # <<>> => scan[s].key \in Keys
RestTyped == cooled \subseteq Keys /\ fails \in [Keys -> Nat] /\ up \in BOOLEAN

(* The type invariant, one part per group of variables, so that a step proves only the part it disturbs. *)
LEMMA TypeParts ==
    /\ TypeOK <=> /\ RowTyped /\ StoreTyped /\ OpTyped
                  /\ SelTyped /\ ScanTyped /\ RestTyped
    /\ TypeOK' <=> /\ RowTyped' /\ StoreTyped' /\ OpTyped'
                   /\ SelTyped' /\ ScanTyped' /\ RestTyped'
  BY DEF TypeOK, RowTyped, StoreTyped, OpTyped, SelTyped, ScanTyped, RestTyped

\* A part whose variables stay as they are stays typed.
LEMMA PartsKept ==
    ASSUME TypeOK
    PROVE  /\ row' = row => RowTyped'
           /\ hash' = hash /\ listed' = listed => StoreTyped'
           /\ op' = op => OpTyped'
           /\ sel' = sel => SelTyped'
           /\ scan' = scan => ScanTyped'
           /\ cooled' = cooled /\ fails' = fails /\ (up' = up \/ up' \in BOOLEAN) => RestTyped'
  BY Zenon DEF TypeOK, RowTyped, StoreTyped, OpTyped, SelTyped, ScanTyped, RestTyped

\* A goroutine whose record becomes a well-typed one.
LEMMA OpStep ==
    ASSUME OpTyped, NEW t \in Txns, NEW o \in OpType,
           o.at # "idle" => o.key \in Keys, OpBecomes(t, o)
    PROVE  OpTyped'
  <1>1. op' \in [Txns -> OpType]
    BY DEF OpTyped, OpBecomes
  <1>2. ASSUME NEW u \in Txns PROVE op'[u].at # "idle" => op'[u].key \in Keys
    BY DEF OpTyped, OpBecomes
  <1>3. QED
    BY <1>1, <1>2 DEF OpTyped

(* A caller that moves to another step of SelectKey keeps the callers' type. *)
LEMMA SelStep ==
    ASSUME SelTyped, NEW c \in Callers, NEW x \in SelType,
           x.at \in {"read", "drop", "forget"} => x.key \in Keys,
           SelBecomes(c, x)
    PROVE  SelTyped'
  <1>1. sel' \in [Callers -> SelType]
    BY DEF SelTyped, SelBecomes
  <1>2. ASSUME NEW u \in Callers
        PROVE  sel'[u].at \in {"read", "drop", "forget"} => sel'[u].key \in Keys
    BY DEF SelTyped, SelBecomes
  <1>3. QED
    BY <1>1, <1>2 DEF SelTyped

(* The same for one turn of the scan, which may also lend or give up. *)
LEMMA ScanStepTyped ==
    ASSUME ScanTyped, NEW s \in Syncers, NEW z \in ScanType,
           z.todo # <<>> => z.key \in Keys, ScanBecomes(s, z)
    PROVE  ScanTyped'
  <1>1. scan' \in [Syncers -> ScanType]
    BY DEF ScanTyped, ScanBecomes
  <1>2. ASSUME NEW u \in Syncers PROVE scan'[u].todo # <<>> => scan'[u].key \in Keys
    <2>1. scan \in [Syncers -> ScanType] /\ (scan[u].todo # <<>> => scan[u].key \in Keys)
      BY DEF ScanTyped
    <2>2. scan'[u] = IF u = s THEN z ELSE scan[u]
      BY <2>1 DEF ScanBecomes
    <2>3. QED
      BY <2>1, <2>2
  <1>3. QED
    BY <1>1, <1>2 DEF ScanTyped

\* Replacing fields of a transaction record by values of their types.
LEMMA OpFields ==
    ASSUME NEW o \in OpType
    PROVE  /\ \A a \in {"idle", "first", "update", "store"} :
                  /\ [o EXCEPT !.at = a] \in OpType
                  /\ \A r \in Row : /\ [o EXCEPT !.at = a, !.next = r] \in OpType
                                    /\ \A n \in Nat : [o EXCEPT !.at = a, !.next = r,
                                                              !.tries = n] \in OpType
                  /\ \A q \in Seq(StoreCalls) :
                        /\ [o EXCEPT !.at = a, !.todo = q] \in OpType
                        /\ \A r \in Row : [o EXCEPT !.at = a, !.next = r,
                                                     !.todo = q] \in OpType
           /\ \A q \in Seq(StoreCalls) : [o EXCEPT !.todo = q] \in OpType
  <1> DEFINE Ats == {"idle", "first", "update", "store"}
  <1>1. ASSUME NEW a \in Ats, NEW r \in Row
        PROVE  /\ [o EXCEPT !.at = a] \in OpType
               /\ [o EXCEPT !.at = a, !.next = r] \in OpType
    BY DEF OpType
  <1>2. ASSUME NEW a \in Ats, NEW r \in Row, NEW n \in Nat
        PROVE  [o EXCEPT !.at = a, !.next = r, !.tries = n] \in OpType
    BY DEF OpType
  <1>3. ASSUME NEW a \in Ats, NEW q \in Seq(StoreCalls)
        PROVE  /\ [o EXCEPT !.at = a, !.todo = q] \in OpType
               /\ \A r \in Row : [o EXCEPT !.at = a, !.next = r, !.todo = q] \in OpType
    BY DEF OpType
  <1>4. ASSUME NEW q \in Seq(StoreCalls) PROVE [o EXCEPT !.todo = q] \in OpType
    BY DEF OpType
  <1>5. \A a \in Ats : [o EXCEPT !.at = a] \in OpType
    BY DEF OpType
  <1>6. QED
    BY <1>1, <1>2, <1>3, <1>4, <1>5

\* The operation that Begin starts.
LEMMA BeginTyped ==
    ASSUME OpTyped, StoreTyped, NEW t \in Txns, NEW kind, NEW k \in Keys,
           NEW at \in {"first", "update"}, NEW r \in Row, Begin(t, kind, k, at, r)
    PROVE  OpTyped'
  <1> DEFINE h == IF kind \in {"success", "failure"} THEN hash[k] ELSE EmptyHash
             o == [kind |-> kind, key |-> k, at |-> at, next |-> r, seen |-> h,
                   todo |-> <<>>, tries |-> 0]
  <1>1. h \in Hash
    BY DefaultTypes DEF StoreTyped
  <1>2. kind \in TxnKinds
    BY DEF Begin, KeyPoolAssumption
  <1>3. <<>> \in Seq(StoreCalls)
    OBVIOUS
  <1>4. o \in OpType /\ (o.at # "idle" => o.key \in Keys)
    BY <1>1, <1>2, <1>3 DEF OpType
  <1>5. OpBecomes(t, o)
    BY DEF Begin
  <1> HIDE DEF o
  <1>6. QED
    BY <1>4, <1>5, OpStep

\* A transaction begins: the rows, the operation and the ghost stay typed.
LEMMA TxnBeginTyped ==
    ASSUME TypeOK, NEW t \in Txns, TxnBegin(t)
    PROVE  TypeOK'
  <1> USE TypeParts, DefaultTypes
  <1>1. PICK k \in Keys : \/ SuccessRead(t, k) \/ FailureRead(t, k) \/ AdminBegin(t, k)
                         \/ AddBegin(t, k) \/ EditRow(t, k)
    BY DEF TxnBegin
  <1>2. OpTyped /\ StoreTyped /\ RowTyped /\ RestTyped
    OBVIOUS
  <1>3. CASE SuccessRead(t, k)
    <2>1. OpTyped'
      BY <1>2, <1>3, BeginTyped DEF SuccessRead
    <2>2. QED
      BY <1>3, <2>1, PartsKept DEF SuccessRead, store
  <1>4. CASE FailureRead(t, k)
    <2>1. OpTyped'
      BY <1>2, <1>4, BeginTyped DEF FailureRead
    <2>2. RestTyped'
      BY <1>2, <1>4 DEF FailureRead, RestTyped
    <2>3. QED
      BY <1>4, <2>1, <2>2, PartsKept DEF FailureRead, store
  <1>5. CASE AdminBegin(t, k)
    <2>1. OpTyped'
      BY <1>2, <1>5, BeginTyped DEF AdminBegin
    <2>2. QED
      BY <1>5, <2>1, PartsKept DEF AdminBegin, store
  <1>6. CASE AddBegin(t, k)
    <2>1. PICK c \in Creds :
              Begin(t, "add", k, "update", [AnyRow EXCEPT !.live = "live", !.cred = c])
      BY <1>6 DEF AddBegin
    <2>2. [AnyRow EXCEPT !.live = "live", !.cred = c] \in Row
      BY DEF Row
    <2>3. OpTyped'
      BY <1>2, <2>1, <2>2, BeginTyped
    <2>4. QED
      BY <1>6, <2>3, PartsKept DEF AddBegin, store
  <1>7. CASE EditRow(t, k)
    <2>1. OpTyped'
      BY <1>2, <1>7, BeginTyped DEF EditRow
    <2>2. PICK c \in Creds :
              row' = [row EXCEPT ![k] = [row[k] EXCEPT !.cred = c, !.status = "active"]]
      BY <1>7 DEF EditRow
    <2>3. [row[k] EXCEPT !.cred = c, !.status = "active"] \in Row
      BY <1>2 DEF RowTyped, Row, Statuses
    <2>4. RowTyped'
      BY <1>2, <2>2, <2>3 DEF RowTyped
    <2>5. QED
      BY <1>7, <2>1, <2>4, PartsKept DEF EditRow, store
  <1>8. QED
    BY <1>1, <1>3, <1>4, <1>5, <1>6, <1>7

\* A transaction goes on, ends or fails: likewise.
LEMMA TxnStepTyped ==
    ASSUME TypeOK, NEW t \in Txns, TxnStep(t) \/ TxnFault(t)
    PROVE  TypeOK'
  <1> USE TypeParts
  <1> DEFINE o == op[t]
             r == row[o.key]
  <1>1. /\ OpTyped /\ StoreTyped /\ RowTyped
        /\ o \in OpType /\ (o.at # "idle" => o.key \in Keys)
    BY DEF OpTyped
  <1>2. /\ o.next \in Row /\ o.todo \in Seq(StoreCalls) /\ o.tries \in Nat
        /\ (o.key \in Keys => r \in Row) /\ o.tries + 1 \in Nat
    BY <1>1 DEF OpType, RowTyped
  <1>3. ASSUME End(t) PROVE OpTyped'
    BY <1>1, <1>3, DefaultTypes, OpStep DEF End, IdleOp
  <1>4. CASE First(t)
    <2>0. UNCHANGED <<row, hash, listed, cooled, sel, scan, fails, up>>
      BY <1>4, Zenon DEF First, store
    <2>1. o.key \in Keys /\ Updated(o, r) \in Row /\ Plan(o, r) \in Seq(StoreCalls)
      <3>1. o.at = "first"
        BY <1>4, Zenon DEF First
      <3>2. o.key \in Keys /\ r \in Row
        BY <1>1, <1>2, <3>1
      <3>3. QED
        BY <1>1, <3>2, UpdatedType, PlanType
    <2>2. CASE End(t)
      BY <1>3, <2>0, <2>2, PartsKept
    <2>3. CASE OpBecomes(t, [o EXCEPT !.at = "store", !.next = r, !.todo = Plan(o, r)])
      <3>1. [o EXCEPT !.at = "store", !.next = r, !.todo = Plan(o, r)] \in OpType
        BY <1>1, <1>2, <2>1, OpFields
      <3>2. [o EXCEPT !.at = "store", !.next = r, !.todo = Plan(o, r)].key = o.key
        BY <1>1 DEF OpType
      <3>3. OpTyped'
        BY <1>1, <2>1, <2>3, <3>1, <3>2, OpStep
      <3>4. QED
        BY <2>0, <3>3, PartsKept
    <2>4. CASE OpBecomes(t, [o EXCEPT !.at = "update", !.next = Updated(o, r)])
      <3>1. [o EXCEPT !.at = "update", !.next = Updated(o, r)] \in OpType
        BY <1>1, <2>1, OpFields
      <3>2. [o EXCEPT !.at = "update", !.next = Updated(o, r)].key = o.key
        BY <1>1 DEF OpType
      <3>3. OpTyped'
        BY <1>1, <2>1, <2>4, <3>1, <3>2, OpStep
      <3>4. QED
        BY <2>0, <3>3, PartsKept
    <2>5. QED
      BY <1>4, <2>2, <2>3, <2>4 DEF First
  <1>5. CASE Update(t)
    <2>1. [o EXCEPT !.at = "store", !.todo = Plan(o, o.next)] \in OpType
      BY <1>1, PlanType, OpFields
    <2>2. [o EXCEPT !.at = "store", !.todo = Plan(o, o.next)].key = o.key
      BY <1>1 DEF OpType
    <2>3. OpTyped'
      BY <1>1, <1>5, <2>1, <2>2, OpStep DEF Update
    <2>4. QED
      BY <1>5, <2>3, PartsKept DEF Update, store
  <1>6. [o EXCEPT !.todo = Tail(o.todo)].key = o.key
    BY <1>1 DEF OpType
  <1>7. ASSUME o.todo # <<>> PROVE [o EXCEPT !.todo = Tail(o.todo)] \in OpType
    BY <1>1, <1>2, <1>7, TodoTypes, OpFields
  <1>8. CASE StoreStep(t)
    <2>1. OpTyped'
      BY <1>1, <1>6, <1>7, <1>8, OpStep DEF StoreStep
    <2>2. StoreTyped'
      BY <1>1, <1>2, <1>8, CallKeepsTypes DEF StoreStep, StoreTyped
    <2>3. QED
      BY <1>8, <2>1, <2>2, PartsKept DEF StoreStep
  <1>9. CASE Commit(t)
    <2>1. o.key \in Keys /\ Updated(o, r) \in Row
      BY <1>1, <1>2, <1>9, UpdatedType DEF Commit
    <2>2. RowTyped'
      BY <1>1, <1>2, <1>9, <2>1 DEF Commit, RowTyped
    <2>3. OpTyped'
      BY <1>3, <1>9 DEF Commit
    <2>4. QED
      BY <1>9, <2>2, <2>3, PartsKept DEF Commit, store
  <1>10. CASE DatabaseLocked(t)
    <2>1. [o EXCEPT !.at = "first", !.next = AnyRow, !.tries = o.tries + 1] \in OpType
      BY <1>1, <1>2, DefaultTypes, OpFields
    <2>2. [o EXCEPT !.at = "first", !.next = AnyRow, !.tries = o.tries + 1].key = o.key
      BY <1>1 DEF OpType
    <2>3. OpTyped'
      BY <1>1, <1>3, <1>10, <2>1, <2>2, OpStep DEF DatabaseLocked
    <2>4. QED
      <3>1. UNCHANGED <<row, hash, listed, cooled, sel, scan, fails, up>>
        BY <1>10, Zenon DEF DatabaseLocked, store
      <3>2. QED
        BY <2>3, <3>1, PartsKept
  <1>11. CASE StoreFails(t)
    <2>1. OpTyped'
      BY <1>1, <1>3, <1>6, <1>7, <1>11, OpStep DEF StoreFails
    <2>2. QED
      BY <1>11, <2>1, PartsKept DEF StoreFails, store
  <1>12. QED
    BY <1>4, <1>5, <1>8, <1>9, <1>10, <1>11 DEF TxnStep, TxnFault

\* A SelectKey call begins, goes on or fails.
LEMMA SelectTyped ==
    ASSUME TypeOK, NEW c \in Callers,
           SelectStart(c) \/ SelectStep(c) \/ SelectFails(c)
    PROVE  TypeOK'
  <1> USE TypeParts, DefaultTypes
  <1> DEFINE x == sel[c]
  <1>1. /\ SelTyped /\ StoreTyped /\ x \in SelType
        /\ (x.at \in {"read", "drop", "forget"} => x.key \in Keys)
    BY DEF SelTyped
  <1>2. ASSUME NEW h \in Hash, Return(c, h) PROVE SelTyped'
    <2>1. IdleSel \in SelType
      BY DEF IdleSel, SelType
    <2>2. [IdleSel EXCEPT !.got = h] \in SelType /\ [IdleSel EXCEPT !.got = h].at = "idle"
      BY <2>1 DEF SelType, IdleSel
    <2>3. QED
      BY <1>1, <1>2, <2>2, SelStep DEF Return
  <1>3. [x EXCEPT !.at = "rotate", !.seen = EmptyHash, !.key = NoKey] \in SelType
    BY <1>1 DEF SelType
  <1>4. [x EXCEPT !.at = "rotate", !.key = NoKey] \in SelType
    BY <1>1 DEF SelType
  <1>5. CASE SelectStart(c)
    <2>1. [IdleSel EXCEPT !.at = "rotate"] \in SelType
      BY DEF IdleSel, SelType
    <2>2. [IdleSel EXCEPT !.at = "rotate"].at = "rotate"
      BY DEF IdleSel
    <2>3. SelTyped'
      BY <1>1, <1>5, <2>1, <2>2, SelStep DEF SelectStart
    <2>4. QED
      BY <1>5, <2>3, PartsKept DEF SelectStart, store
  <1>6. CASE SelectRotate(c)
    <2>1. x.spare \in Hash /\ x.skips + 1 \in Nat
      BY <1>1 DEF SelType
    <2>2. ASSUME NEW k \in Keys
          PROVE  LET y == [x EXCEPT !.at = "read", !.key = k, !.skips = x.skips + 1]
                 IN y \in SelType /\ y.key = k
      BY <1>1, <2>1 DEF SelType
    <2>3. ASSUME NEW k \in Keys,
                 SelBecomes(c, [x EXCEPT !.at = "read", !.key = k, !.skips = x.skips + 1])
          PROVE  SelTyped'
      <3> DEFINE y == [x EXCEPT !.at = "read", !.key = k, !.skips = x.skips + 1]
      <3>1. y \in SelType /\ y.key \in Keys /\ SelBecomes(c, y)
        BY <2>2, <2>3
      <3> HIDE DEF y
      <3>2. QED
        BY <1>1, <3>1, SelStep
    <2>4. SelTyped'
      BY <1>2, <1>6, <2>1, <2>3 DEF SelectRotate
    <2>5. QED
      BY <1>6, <2>4, PartsKept DEF SelectRotate, store
  <1>7. CASE SelectRead(c)
    <2> DEFINE h == hash[x.key]
    <2>1. x.key \in Keys /\ h \in Hash /\ x.spare \in Hash
      BY <1>1, <1>7 DEF SelectRead, SelType, StoreTyped
    <2>2. CASE SelBecomes(c, [x EXCEPT !.at = "drop", !.seen = h])
      <3>1. /\ [x EXCEPT !.at = "drop", !.seen = h] \in SelType
            /\ [x EXCEPT !.at = "drop", !.seen = h].key = x.key
        BY <1>1, <2>1 DEF SelType
      <3>2. QED
        BY <1>1, <2>1, <2>2, <3>1, SelStep, <1>7
           DEF SelectRead, store, RowTyped, StoreTyped, OpTyped, ScanTyped, RestTyped
    <2>3. CASE SelBecomes(c, [x EXCEPT !.at = "rotate", !.key = NoKey,
                                !.spare = IF x.spare = EmptyHash THEN h ELSE x.spare])
      <3> DEFINE sp == IF x.spare = EmptyHash THEN h ELSE x.spare
                 y == [x EXCEPT !.at = "rotate", !.key = NoKey, !.spare = sp]
      <3>1. sp \in Hash
        BY <2>1
      <3>2. y \in SelType /\ y.at = "rotate"
        <4> HIDE DEF sp
        <4>1. QED BY <1>1, <3>1 DEF SelType
      <3>3. SelBecomes(c, y)
        BY <2>3
      <3> HIDE DEF y
      <3>4. SelTyped'
        BY <1>1, <3>2, <3>3, SelStep
      <3>5. QED
        BY <1>7, <3>4, PartsKept DEF SelectRead, store
    <2>4. CASE SelBecomes(c, [x EXCEPT !.at = "rotate", !.key = NoKey])
      <3>1. [x EXCEPT !.at = "rotate", !.key = NoKey].at = "rotate"
        BY <1>1 DEF SelType
      <3>2. SelTyped'
        BY <1>1, <1>4, <2>4, <3>1, SelStep
      <3>3. QED
        BY <1>7, <3>2, PartsKept DEF SelectRead, store
    <2>5. CASE Return(c, h)
      BY <1>2, <1>7, <2>1, <2>5
         DEF SelectRead, store, RowTyped, StoreTyped, OpTyped, ScanTyped, RestTyped
    <2>6. QED
      BY <1>7, <2>2, <2>3, <2>4, <2>5 DEF SelectRead
  <1>8. ASSUME SelectDrop(c) \/ SelectForget(c) PROVE StoreTyped'
    <2>1. x.key \in Keys
      BY <1>1, <1>8 DEF SelectDrop, SelectForget
    <2>2. QED
      BY <1>1, <1>8, <2>1, CallKeepsTypes
         DEF SelectDrop, SelectForget, StoreTyped, store
  <1>9. [x EXCEPT !.at = "rotate", !.key = NoKey].at = "rotate"
    BY <1>1 DEF SelType
  <1>10. CASE SelectDrop(c)
    <2>1. /\ [x EXCEPT !.at = "forget", !.seen = EmptyHash] \in SelType
          /\ [x EXCEPT !.at = "forget", !.seen = EmptyHash].key = x.key
          /\ [x EXCEPT !.at = "rotate", !.seen = EmptyHash, !.key = NoKey].at = "rotate"
      BY <1>1 DEF SelType
    <2>2. SelTyped'
      BY <1>1, <1>3, <1>10, <2>1, SelStep DEF SelectDrop
    <2>3. QED
      BY <1>8, <1>10, <2>2, PartsKept DEF SelectDrop
  <1>11. CASE SelectForget(c)
    <2>1. SelTyped'
      BY <1>1, <1>4, <1>9, <1>11, SelStep DEF SelectForget
    <2>2. QED
      BY <1>8, <1>11, <2>1, PartsKept DEF SelectForget
  <1>12. CASE SelectFails(c)
    BY <1>2, <1>12, PartsKept DEF SelectFails, store
  <1>13. QED
    BY <1>5, <1>6, <1>7, <1>10, <1>11, <1>12 DEF SelectStep

\* The calls SyncGroupKeysFromDB plans for a key are store calls.
LEMMA SyncPlanType ==
    ASSUME NEW r, NEW h PROVE SyncPlan(r, h) \in Seq(StoreCalls)
  <1> DEFINE C == StoreCalls
  <1>1. <<>> \in Seq(C) /\ <<"lrem", "hdel">> \in Seq(C) /\ <<"lrem", "status">> \in Seq(C)
    BY DEF StoreCalls
  <1>2. /\ <<"full", "lpush">> \in Seq(C) /\ <<"full", "lrem", "lpush">> \in Seq(C)
        /\ <<"status", "lrem", "lpush">> \in Seq(C)
    BY DEF StoreCalls
  <1>3. QED
    BY <1>1, <1>2, Zenon DEF SyncPlan

\* A realignment or a merge begins, goes on or ends.
LEMMA ScanTypes ==
    ASSUME TypeOK, NEW s \in Syncers,
           \/ ScanStep(s) \/ LoadFind(s)
           \/ \E k \in Keys : PeerMerge(s, k)
    PROVE  TypeOK'
  <1> USE TypeParts, DefaultTypes
  <1> DEFINE z == scan[s]
  <1>1. /\ ScanTyped /\ StoreTyped /\ RowTyped /\ RestTyped /\ z \in ScanType
        /\ (z.todo # <<>> => z.key \in Keys)
    BY DEF ScanTyped
  <1>2. <<>> \in Seq(StoreCalls) /\ (z.todo # <<>> => Tail(z.todo) \in Seq(StoreCalls))
    BY <1>1, TodoTypes DEF ScanType
  <1>3. IdleScan \in ScanType /\ IdleScan.todo = <<>>
    BY <1>2 DEF IdleScan, ScanType
  <1>4. ASSUME ScanDone(s) PROVE ScanTyped' /\ up' \in BOOLEAN
    BY <1>1, <1>3, <1>4, ScanStepTyped DEF ScanDone
  <1>5. ASSUME NEW m \in {"sync", "load"}, NEW L \in SUBSET Keys,
               ScanBecomes(s, [IdleScan EXCEPT !.mode = m, !.snap = row, !.left = L])
        PROVE  ScanTyped'
    <2>1. /\ [IdleScan EXCEPT !.mode = m, !.snap = row, !.left = L] \in ScanType
          /\ [IdleScan EXCEPT !.mode = m, !.snap = row, !.left = L].todo = <<>>
      BY <1>1, <1>3 DEF ScanType, RowTyped
    <2>2. QED
      BY <1>1, <1>5, <2>1, ScanStepTyped
  <1>6. ASSUME NEW m \in {"merged", "push"}, ScanBecomes(s, [z EXCEPT !.mode = m])
        PROVE  ScanTyped'
    <2>1. /\ [z EXCEPT !.mode = m] \in ScanType
          /\ [z EXCEPT !.mode = m].todo = z.todo /\ [z EXCEPT !.mode = m].key = z.key
      BY <1>1 DEF ScanType
    <2>2. QED
      BY <1>1, <1>6, <2>1, ScanStepTyped
  <1>7. CASE \E k \in Keys : PeerMerge(s, k)
    <2>1. RowTyped'
      BY <1>1, <1>7 DEF PeerMerge, RowTyped, Row
    <2>2. ScanTyped'
      BY <1>6, <1>7 DEF PeerMerge
    <2>3. QED
      <3>1. UNCHANGED <<hash, listed, cooled, op, sel, fails, up>>
        BY <1>7 DEF PeerMerge, store
      <3>2. QED
        BY <2>1, <2>2, <3>1, PartsKept
  <1>8. CASE SyncFind(s)
    <2>1. ScanTyped'
      <3>1. PICK L : L = {k \in Keys : row[k].live # "absent"}
        OBVIOUS
      <3>2. L \in SUBSET Keys
        BY <3>1
      <3>3. ScanBecomes(s, [IdleScan EXCEPT !.mode = "sync", !.snap = row, !.left = L])
        BY <1>8, <3>1 DEF SyncFind
      <3>4. QED
        BY <1>5, <3>2, <3>3
    <2>2. QED
      <3>1. UNCHANGED <<row, hash, listed, cooled, op, sel, fails, up>>
        BY <1>8 DEF SyncFind, store
      <3>2. QED
        BY <2>1, <3>1, PartsKept
  <1>9. CASE LoadFind(s)
    <2>1. ScanTyped'
      <3>1. PICK L : L = {k \in Keys : row[k].live = "live"}
        OBVIOUS
      <3>2. L \in SUBSET Keys
        BY <3>1
      <3>3. ScanBecomes(s, [IdleScan EXCEPT !.mode = "load", !.snap = row, !.left = L])
        BY <1>9, <3>1 DEF LoadFind
      <3>4. QED
        BY <1>5, <3>2, <3>3
    <2>2. QED
      <3>1. UNCHANGED <<row, hash, listed, cooled, op, sel, fails, up>>
        BY <1>9 DEF LoadFind, store
      <3>2. QED
        BY <2>1, <3>1, PartsKept
  <1>10. CASE SyncKey(s)
    <2>1. PICK k \in z.left :
              ScanBecomes(s, [z EXCEPT !.key = k, !.left = z.left \ {k},
                                  !.todo = SyncPlan(z.snap[k], hash[k])])
      BY <1>10 DEF SyncKey
    <2> DEFINE q == SyncPlan(z.snap[k], hash[k])
               y == [z EXCEPT !.key = k, !.left = z.left \ {k}, !.todo = q]
    <2>2. k \in Keys /\ q \in Seq(StoreCalls)
      BY <1>1, SyncPlanType DEF ScanType
    <2>3. SUFFICES ScanTyped'
      BY <1>10, PartsKept DEF SyncKey, store
    <2>4. ScanBecomes(s, y)
      BY <2>1
    <2> HIDE DEF q
    <2>5. y \in ScanType /\ y.key = k
      BY <1>1, <2>2 DEF ScanType
    <2> HIDE DEF y
    <2>6. QED
      BY <1>1, <2>2, <2>4, <2>5, ScanStepTyped
  <1>11. CASE SyncStep(s)
    <2>1. z.snap[z.key] \in Row
      BY <1>1, <1>11 DEF SyncStep, ScanType
    <2>2. StoreTyped'
      BY <1>1, <1>11, <2>1, CallKeepsTypes DEF SyncStep, StoreTyped, store
    <2>3. /\ [z EXCEPT !.todo = Tail(z.todo)] \in ScanType
          /\ [z EXCEPT !.todo = Tail(z.todo)].key = z.key
      BY <1>1, <1>2, <1>11 DEF SyncStep, ScanType
    <2>4. ScanTyped'
      BY <1>1, <1>11, <2>3, ScanStepTyped DEF SyncStep
    <2>5. QED
      BY <1>11, <2>2, <2>4, PartsKept DEF SyncStep
  <1>12. CASE SyncDone(s)
    BY <1>1, <1>4, <1>12, PartsKept DEF SyncDone, store
  <1>13. CASE LoadKey(s)
    <2>1. PICK k \in z.left :
              /\ \/ Call("full", k, z.snap[k])
                 \/ UNCHANGED store
              /\ ScanBecomes(s, [z EXCEPT !.left = z.left \ {k}])
      BY <1>13 DEF LoadKey
    <2>2. k \in Keys /\ z.snap[k] \in Row
      BY <1>1 DEF ScanType
    <2>3. StoreTyped'
      BY <1>1, <2>1, <2>2, CallKeepsTypes DEF StoreTyped, store
    <2>4. /\ [z EXCEPT !.left = z.left \ {k}] \in ScanType
          /\ [z EXCEPT !.left = z.left \ {k}].todo = z.todo
          /\ [z EXCEPT !.left = z.left \ {k}].key = z.key
      BY <1>1 DEF ScanType
    <2>5. ScanTyped'
      BY <1>1, <2>1, <2>4, ScanStepTyped
    <2>6. QED
      BY <1>13, <2>3, <2>5, PartsKept DEF LoadKey
  <1>14. CASE LoadClear(s)
    <2>1. StoreTyped'
      BY <1>1, <1>14 DEF LoadClear, StoreTyped
    <2>2. ScanTyped' /\ up' \in BOOLEAN
      BY <1>1, <1>4, <1>6, <1>14 DEF LoadClear, RestTyped
    <2>3. QED
      BY <1>14, <2>1, <2>2, PartsKept DEF LoadClear
  <1>15. CASE LoadPush(s)
    <2>1. StoreTyped'
      BY <1>1, <1>15 DEF LoadPush, StoreTyped
    <2>2. QED
      BY <1>4, <1>15, <2>1, PartsKept DEF LoadPush
  <1>16. QED
    BY <1>7, <1>8, <1>9, <1>10, <1>11, <1>12, <1>13, <1>14, <1>15 DEF ScanStep

\* A crash leaves goroutines that do nothing.
LEMMA CrashTyped == TypeOK /\ Crash => TypeOK'
  <1> SUFFICES ASSUME TypeOK, Crash PROVE TypeOK'
    OBVIOUS
  <1> USE TypeParts, DefaultTypes
  <1>1. RowTyped' /\ RestTyped'
    BY DEF Crash, RowTyped, RestTyped
  <1>2. StoreTyped'
    BY DEF Crash, StoreTyped, store
  <1>3. OpTyped'
    BY DEF Crash, OpTyped, IdleOp
  <1>4. SelTyped'
    BY DEF Crash, SelTyped, SelType, IdleSel
  <1>5. <<>> \in Seq(StoreCalls)
    OBVIOUS
  <1>6. ScanTyped'
    BY <1>5 DEF Crash, ScanTyped, ScanType, IdleScan
  <1>7. QED
    BY <1>1, <1>2, <1>3, <1>4, <1>6

\* Type correctness is inductive by itself.
LEMMA NextTypes == TypeOK /\ [Next]_vars => TypeOK'
  <1> SUFFICES ASSUME TypeOK, [Next]_vars PROVE TypeOK'
    OBVIOUS
  <1>1. CASE UNCHANGED vars
    BY <1>1 DEF TypeOK, vars
  <1>2. ASSUME NEW k \in Keys, CoolDownKey(k) \/ CooldownExpires(k) PROVE TypeOK'
    BY <1>2 DEF CoolDownKey, CooldownExpires, store, TypeOK
  <1>3. QED
    BY <1>1, <1>2, TxnBeginTyped, TxnStepTyped, SelectTyped, ScanTypes, CrashTyped
       DEF Next

\* Every goroutine keeps a record of its type, and has a key of the group to
\* work on whenever it is at work: no interleaving, failure or crash leaves a
\* transaction, a selection or a realignment without one.
THEOREM TypeCorrect == Spec => []TypeOK
  <1>1. QED
    BY InitTypes, NextTypes, PTL DEF Spec

-----------------------------------------------------------------------------
(* What SelectKey lends                                                    *)

\* LendsUsable is not inductive by itself: the fallback that a call keeps for
\* its last attempt must be usable too.
LendsInv == \A c \in Callers : /\ sel[c].got = EmptyHash \/ Usable(sel[c].got)
                               /\ sel[c].spare = EmptyHash \/ Usable(sel[c].spare)

\* A caller's record changes to one whose two hashes are empty or usable.
LEMMA LendsStep ==
    ASSUME TypeOK, LendsInv, NEW c \in Callers, NEW x, SelBecomes(c, x),
           x.got = EmptyHash \/ Usable(x.got),
           x.spare = EmptyHash \/ Usable(x.spare)
    PROVE  LendsInv'
  BY DEF TypeOK, LendsInv, SelBecomes

(* Every step keeps LendsInv: a caller past the hash read holds a key that it read as usable. *)
LEMMA NextLends == TypeOK /\ LendsInv /\ [Next]_vars => LendsInv'
  <1> SUFFICES ASSUME TypeOK, LendsInv, [Next]_vars PROVE LendsInv'
    OBVIOUS
  <1>1. CASE sel' = sel
    BY <1>1 DEF LendsInv
  <1>2. CASE Crash
    BY <1>2 DEF Crash, LendsInv, IdleSel
  <1>3. ASSUME NEW c \in Callers, SelectStart(c) \/ SelectStep(c) \/ SelectFails(c)
        PROVE  LendsInv'
    <2> DEFINE x == sel[c]
    <2>1. /\ x \in SelType
          /\ x.got = EmptyHash \/ Usable(x.got)
          /\ x.spare = EmptyHash \/ Usable(x.spare)
      BY DEF TypeOK, LendsInv
    <2>2. ASSUME NEW h, h = EmptyHash \/ Usable(h), Return(c, h) PROVE LendsInv'
      <3>1. /\ [IdleSel EXCEPT !.got = h].got = h
            /\ [IdleSel EXCEPT !.got = h].spare = EmptyHash
        BY DEF IdleSel
      <3>2. QED
        BY <2>2, <3>1, LendsStep DEF Return
    <2>3. ASSUME NEW y, SelBecomes(c, y), y.got = x.got, y.spare = x.spare
          PROVE  LendsInv'
      BY <2>1, <2>3, LendsStep
    <2>4. CASE SelectStart(c)
      <3>1. /\ [IdleSel EXCEPT !.at = "rotate"].got = EmptyHash
            /\ [IdleSel EXCEPT !.at = "rotate"].spare = EmptyHash
        BY DEF IdleSel
      <3>2. QED
        BY <2>4, <3>1, LendsStep DEF SelectStart
    <2>5. CASE SelectRotate(c)
      <3>1. ASSUME NEW k, SelBecomes(c, [x EXCEPT !.at = "read", !.key = k,
                                                  !.skips = x.skips + 1])
            PROVE  LendsInv'
        BY <2>1, <2>3, <3>1 DEF SelType
      <3>2. QED
        BY <2>1, <2>2, <2>5, <3>1 DEF SelectRotate
    <2>6. CASE SelectRead(c)
      <3> DEFINE h == hash[x.key]
                 y == [x EXCEPT !.at = "rotate", !.key = NoKey,
                                !.spare = IF x.spare = EmptyHash THEN h ELSE x.spare]
      <3>1. CASE SelBecomes(c, [x EXCEPT !.at = "drop", !.seen = h])
        BY <2>1, <2>3, <3>1 DEF SelType
      <3>2. CASE SelBecomes(c, [x EXCEPT !.at = "rotate", !.key = NoKey])
        BY <2>1, <2>3, <3>2 DEF SelType
      <3>3. CASE Usable(h) /\ SelBecomes(c, y)
        <4>1. y.got = x.got /\ y.spare = IF x.spare = EmptyHash THEN h ELSE x.spare
          BY <2>1 DEF SelType
        <4>2. QED
          BY <2>1, <3>3, <4>1, LendsStep
      <3>4. CASE Usable(h) /\ Return(c, h)
        BY <2>2, <3>4
      <3>5. QED
        BY <2>6, <3>1, <3>2, <3>3, <3>4 DEF SelectRead
    <2>7. CASE SelectDrop(c)
      <3>1. \/ SelBecomes(c, [x EXCEPT !.at = "forget", !.seen = EmptyHash])
            \/ SelBecomes(c, [x EXCEPT !.at = "rotate", !.seen = EmptyHash, !.key = NoKey])
        BY <2>7 DEF SelectDrop
      <3>2. QED
        BY <2>1, <2>3, <3>1 DEF SelType
    <2>8. CASE SelectForget(c)
      BY <2>1, <2>3, <2>8 DEF SelectForget, SelType
    <2>9. CASE SelectFails(c)
      BY <2>2, <2>9 DEF SelectFails
    <2>10. QED
      BY <1>3, <2>4, <2>5, <2>6, <2>7, <2>8, <2>9 DEF SelectStep
  <1>4. ASSUME NEW t \in Txns, TxnBegin(t) \/ TxnStep(t) \/ TxnFault(t) PROVE sel' = sel
    BY <1>4 DEF TxnBegin, TxnStep, TxnFault, SuccessRead, FailureRead, AdminBegin,
                AddBegin, EditRow, First, Update, StoreStep, Commit,
                DatabaseLocked, StoreFails
  <1>5. ASSUME NEW s \in Syncers,
               \/ ScanStep(s) \/ LoadFind(s)
               \/ \E k \in Keys : PeerMerge(s, k)
        PROVE  sel' = sel
    BY <1>5 DEF ScanStep, LoadFind, PeerMerge, SyncFind, SyncKey, SyncStep, SyncDone,
                LoadKey, LoadClear, LoadPush
  <1>6. ASSUME NEW k \in Keys, CoolDownKey(k) \/ CooldownExpires(k) PROVE sel' = sel
    BY <1>6 DEF CoolDownKey, CooldownExpires
  <1>7. QED
    BY <1>1, <1>2, <1>3, <1>4, <1>5, <1>6 DEF Next, vars

\* SelectKey never returns a key without its credential or one it did not read
\* as active, under any interleaving, store fault or crash, for any number of
\* keys and goroutines.
THEOREM LendsUsableCorrect == Spec => []LendsUsable
  <1>1. Init => LendsInv
    BY DEF Init, LendsInv, IdleSel
  <1>2. LendsInv => LendsUsable
    BY DEF LendsInv, LendsUsable, Usable
  <1>3. QED
    BY <1>1, <1>2, NextLends, TypeCorrect, PTL DEF Spec

-----------------------------------------------------------------------------
(* The rotation list under serialised transactions                         *)

HIDE KeyPoolAssumption

\* The calls that remain after the first one.
LEMMA PendingTail ==
    ASSUME NEW q \in Seq(StoreCalls), q # <<>>, NEW c
    PROVE  /\ (\E i \in 1..Len(q) : q[i] = c) <=>
                 (Head(q) = c \/ \E i \in 1..Len(Tail(q)) : Tail(q)[i] = c)
           /\ (\A i \in 1..Len(q) : q[i] = c => i = Len(q)) =>
                 /\ \A i \in 1..Len(Tail(q)) : Tail(q)[i] = c => i = Len(Tail(q))
                 /\ Head(q) = c => Tail(q) = <<>>
  <1> DEFINE n == Len(q)
             m == Len(Tail(q))
             p == Tail(q)
  <1>1. n \in Nat /\ n >= 1 /\ m = n - 1 /\ Head(q) = q[1]
    OBVIOUS
  <1>2. \A i \in 1..m : p[i] = q[i + 1]
    OBVIOUS
  <1>3. (m = 0) => p = <<>>
    BY TodoTypes, EmptySeq
  <1> HIDE DEF n, m, p
  <1>4. ASSUME NEW i \in 1..n, i # 1 PROVE i - 1 \in 1..m /\ p[i - 1] = q[i]
    <2>1. i - 1 \in 1..m /\ (i - 1) + 1 = i
      BY <1>1, <1>4
    <2>2. QED
      BY <1>2, <2>1
  <1>5. ASSUME NEW i \in 1..m PROVE i + 1 \in 1..n /\ p[i] = q[i + 1]
    BY <1>1, <1>2
  <1>6. 1 \in 1..n
    BY <1>1
  <1>7. (\E i \in 1..n : q[i] = c) <=> (Head(q) = c \/ \E i \in 1..m : p[i] = c)
    BY <1>1, <1>4, <1>5, <1>6
  <1>8. ASSUME \A i \in 1..n : q[i] = c => i = n, Head(q) = c PROVE p = <<>>
    BY <1>1, <1>3, <1>6, <1>8
  <1>9. ASSUME \A i \in 1..n : q[i] = c => i = n, NEW i \in 1..m, p[i] = c
        PROVE  i = m
    <2>1. i + 1 = n
      BY <1>5, <1>9
    <2>2. QED
      BY <1>1, <2>1
  <1>10. QED
    BY <1>7, <1>8, <1>9 DEF n, m, p

\* The kinds whose plan pushes the key, and those whose plan leaves the list
\* as it is.
Pushes(o) == \/ o.kind \in {"enable", "restore", "add"}
             \/ o.kind = "success" /\ o.seen.status # "active"
LeavesList(o) == \/ o.kind = "success" /\ o.seen.status = "active"
                 \/ o.kind = "failure" /\ ~Blacklists(o)

\* Every plan pushes last, pushes only for the kinds that activate, and
\* removes the key first unless it adds a new key or leaves the list alone.
LEMMA PlanShape ==
    ASSUME NEW o \in OpType, o.kind \notin {"edit", "none"}, NEW r,
           NEW q, q = Plan(o, r)
    PROVE  /\ \A i \in 1..Len(q) : q[i] = "lpush" => i = Len(q)
           /\ (\E i \in 1..Len(q) : q[i] = "lpush") => Pushes(o)
           /\ ~(\E i \in 1..Len(q) : q[i] = "lrem") => o.kind = "add" \/ LeavesList(o)
  <1>1. o.kind \in TxnKinds \ {"edit"}
    BY DEF OpType
  <1>2. CASE o.kind = "success"
    <2>1. CASE o.seen.status = "active"
      <3>1. q = <<"full">>
        BY <1>2, <2>1, Zenon DEF Plan
      <3>2. QED
        BY <1>2, <2>1, <3>1 DEF LeavesList
    <2>2. CASE o.seen.status # "active"
      <3>1. q = <<"full", "lrem", "lpush">>
        BY <1>2, <2>2, Zenon DEF Plan
      <3>2. QED
        BY <1>2, <2>2, <3>1 DEF Pushes
    <2>3. QED
      BY <2>1, <2>2
  <1>3. CASE o.kind = "failure"
    <2>1. CASE Blacklists(o)
      <3>1. q = <<"incr", "lrem", "status">>
        BY <1>3, <2>1, Zenon DEF Plan
      <3>2. QED
        BY <1>3, <2>1, <3>1
    <2>2. CASE ~Blacklists(o)
      <3>1. q = <<"incr">>
        BY <1>3, <2>2, Zenon DEF Plan
      <3>2. QED
        BY <1>3, <2>2, <3>1 DEF LeavesList
    <2>3. QED
      BY <2>1, <2>2
  <1>4. CASE o.kind = "enable"
    <2>1. q = <<"reset", "lrem", "lpush">>
      BY <1>4, Zenon DEF Plan
    <2>2. QED
      BY <1>4, <2>1 DEF Pushes
  <1>5. CASE o.kind = "restore"
    <2>1. q = <<"full", "lrem", "lpush">>
      BY <1>5, Zenon DEF Plan
    <2>2. QED
      BY <1>5, <2>1 DEF Pushes
  <1>6. CASE o.kind = "disable"
    <2>1. q = <<"status", "lrem">>
      BY <1>6, Zenon DEF Plan
    <2>2. QED
      BY <1>6, <2>1
  <1>7. CASE o.kind = "remove"
    <2>1. q = <<"lrem", "hdel">>
      BY <1>7, Zenon DEF Plan
    <2>2. QED
      BY <1>7, <2>1
  <1>8. CASE o.kind = "add"
    <2>1. q = <<"full", "lpush">>
      BY <1>8, Zenon DEF Plan
    <2>2. QED
      BY <1>8, <2>1 DEF Pushes
  <1>9. QED
    BY <1>1, <1>2, <1>3, <1>4, <1>5, <1>6, <1>7, <1>8 DEF TxnKinds

\* The kinds that push leave an active row, and the kinds that leave the list
\* alone leave an active row active.
LEMMA UpdatedActive ==
    ASSUME NEW o \in OpType, NEW r \in Row, r.live = "live", o.kind # "add"
    PROVE  /\ Pushes(o) => ActiveRow(Updated(o, r))
           /\ LeavesList(o) /\ ActiveRow(r) => ActiveRow(Updated(o, r))
  <1>1. CASE o.kind = "success"
    <2>1. Updated(o, r) = [r EXCEPT !.fc = 0, !.status =
              IF o.seen.status = "active" THEN r.status ELSE "active"]
      BY <1>1, Zenon DEF Updated
    <2>2. /\ Updated(o, r).live = "live"
          /\ Updated(o, r).status = IF o.seen.status = "active" THEN r.status ELSE "active"
      BY <2>1 DEF Row
    <2>3. QED
      BY <1>1, <2>2 DEF ActiveRow, Pushes, LeavesList
  <1>2. CASE o.kind = "failure"
    <2>1. Updated(o, r) = [r EXCEPT !.fc = o.seen.fc + 1, !.status =
              IF Blacklists(o) THEN "invalid" ELSE r.status]
      BY <1>2, Zenon DEF Updated
    <2>2. /\ Updated(o, r).live = "live"
          /\ Updated(o, r).status = IF Blacklists(o) THEN "invalid" ELSE r.status
      BY <2>1 DEF Row
    <2>3. QED
      BY <1>2, <2>2 DEF ActiveRow, Pushes, LeavesList
  <1>3. CASE o.kind \in {"enable", "restore"}
    <2>1. Updated(o, r) = [r EXCEPT !.fc = 0, !.status = "active"]
      BY <1>3 DEF Updated
    <2>2. QED
      BY <1>3, <2>1 DEF ActiveRow, Row, LeavesList
  <1>4. QED
    BY <1>1, <1>2, <1>3 DEF Pushes, LeavesList

\* An update never makes a row that was never inserted.
LEMMA UpdatedLives ==
    ASSUME NEW o \in OpType, NEW r \in Row, r.live = "live"
    PROVE  Updated(o, r).live # "absent"
  <1>1. /\ \A n, s : [r EXCEPT !.fc = n, !.status = s].live = "live"
        /\ \A s : [r EXCEPT !.status = s].live = "live"
        /\ [r EXCEPT !.live = "deleted"].live = "deleted"
    BY DEF Row
  <1>2. CASE o.kind = "success"
    BY <1>1, <1>2, Zenon DEF Updated
  <1>3. CASE o.kind = "failure"
    BY <1>1, <1>3, Zenon DEF Updated
  <1>4. CASE o.kind \in {"enable", "restore"}
    BY <1>1, <1>4 DEF Updated
  <1>5. CASE o.kind = "disable" \/ o.kind = "remove"
    BY <1>1, <1>5, Zenon DEF Updated
  <1>6. CASE o.kind \notin {"success", "failure", "enable", "restore", "disable", "remove"}
    BY <1>6 DEF Updated
  <1>7. QED
    BY <1>2, <1>3, <1>4, <1>5, <1>6

-----------------------------------------------------------------------------
(* The invariant, step by step                                             *)

\* What no action on a transaction's record can touch: the others' records.
LEMMA OthersKeep ==
    ASSUME TypeOK, NEW t \in Txns, NEW o, OpBecomes(t, o)
    PROVE  op'[t] = o /\ \A u \in Txns \ {t} : op'[u] = op[u]
  BY DEF TypeOK, OpBecomes

\* Steps that touch neither rows nor transactions, and at most empty the list.
LEMMA RotationFrame ==
    ASSUME TypeOK, RotationInv, op' = op, row' = row,
           \A k \in Keys : listed'[k] = listed[k] \/ listed'[k] = 0
    PROVE  RotationInv'
  <1>1. ASSUME NEW t \in Txns PROVE RowHeld(t)'
    BY DEF RotationInv, RowHeld, Working
  <1>2. ASSUME NEW t \in Txns PROVE ListMidway(t)'
    <2>1. op[t].at = "store" => op[t].key \in Keys
      BY DEF TypeOK
    <2>2. op[t].at = "store" =>
             \/ listed'[op[t].key] = listed[op[t].key]
             \/ listed'[op[t].key] = 0
      BY <2>1
    <2>3. ListMidway(t)
      BY DEF RotationInv
    <2>4. QED
      BY <2>2, <2>3 DEF ListMidway, Pending
  <1>3. ASSUME NEW k \in Keys PROVE ListAtRest(k)' /\ listed'[k] <= 1
    <2>1. ListAtRest(k) /\ listed[k] <= 1
      BY DEF RotationInv, ListedOnce
    <2>2. QED
      BY <2>1 DEF ListAtRest
  <1>4. QED
    BY <1>1, <1>2, <1>3 DEF RotationInv, ListedOnce

\* A transaction that leaves the rows alone and does not come to hold a row
\* keeps RowHeld of the others.
LEMMA OthersRowHeld ==
    ASSUME TypeOK, RotationInv, NEW t \in Txns, NEW o, OpBecomes(t, o),
           NEW u \in Txns \ {t}, row' = row,
           op[u].kind = "add" /\ op[u].at # "idle" => o.key # op[u].key,
           o.at \in {"update", "store"} /\ Working(u, o.key) => FALSE
    PROVE  RowHeld(u)'
  <1>1. op'[t] = o /\ op'[u] = op[u] /\ \A v \in Txns \ {t} : op'[v] = op[v]
    BY OthersKeep
  <1>2. RowHeld(u)
    BY DEF RotationInv
  <1> DEFINE k == op[u].key
  <1>3. op[u].at # "idle" /\ op[u].kind = "add" => \A v \in Txns \ {u} : op'[v].key # k
    BY <1>1, <1>2 DEF RowHeld
  <1>4. op[u].at # "idle" =>
            \A v \in Txns \ {u} : Working(u, k)' => ~Working(v, k)'
    BY <1>1, <1>2 DEF RowHeld, Working
  <1>5. QED
    BY <1>1, <1>2, <1>3, <1>4 DEF RowHeld

\* ListMidway of a goroutine whose record and list entry do not change.
LEMMA OthersMidway ==
    ASSUME TypeOK, RotationInv, NEW t \in Txns, NEW o, OpBecomes(t, o),
           NEW u \in Txns \ {t},
           op[u].at = "store" => listed'[op[u].key] = listed[op[u].key]
    PROVE  ListMidway(u)'
  <1>1. op'[u] = op[u]
    BY OthersKeep
  <1>2. QED
    BY <1>1 DEF RotationInv, ListMidway, Pending

\* A transaction starts or stops without the store having been touched.
LEMMA RotationStart ==
    ASSUME TypeOK, RotationInv, NEW t \in Txns, NEW o, OpBecomes(t, o),
           row' = row, listed' = listed, op[t].at # "store", o.at # "store",
           RowHeld(t)',
           \A u \in Txns \ {t} :
               /\ op[u].kind = "add" /\ op[u].at # "idle" => o.key # op[u].key
               /\ o.at = "update" => ~Working(u, o.key)
    PROVE  RotationInv'
  <1>1. op'[t] = o /\ \A u \in Txns \ {t} : op'[u] = op[u]
    BY OthersKeep
  <1>2. ASSUME NEW u \in Txns PROVE RowHeld(u)'
    BY OthersRowHeld
  <1>3. ASSUME NEW u \in Txns PROVE ListMidway(u)'
    <2>1. CASE u = t
      BY <1>1, <2>1 DEF ListMidway
    <2>2. CASE u # t
      BY <2>2, OthersMidway
    <2>3. QED
      BY <2>1, <2>2
  <1>4. ASSUME NEW k \in Keys PROVE ListAtRest(k)'
    BY <1>1 DEF RotationInv, ListAtRest
  <1>5. ListedOnce'
    BY DEF RotationInv, ListedOnce
  <1>6. QED
    BY <1>2, <1>3, <1>4, <1>5 DEF RotationInv

\* A transaction begins.
LEMMA RotationBegin ==
    ASSUME TypeOK, RotationInv, Serialised, NEW t \in Txns, TxnBegin(t)
    PROVE  RotationInv'
  <1>1. PICK k \in Keys : \/ SuccessRead(t, k) \/ FailureRead(t, k) \/ AdminBegin(t, k)
                         \/ AddBegin(t, k) \/ EditRow(t, k)
    BY DEF TxnBegin
  <1>2. CASE SuccessRead(t, k) \/ FailureRead(t, k) \/ AdminBegin(t, k)
    <2>1. row[k].live # "absent" /\ row' = row /\ listed' = listed
      BY <1>2 DEF SuccessRead, FailureRead, AdminBegin, store
    <2>2. PICK kind \in TxnKinds \ {"edit", "add"} : Begin(t, kind, k, "first", AnyRow)
      BY <1>2 DEF SuccessRead, FailureRead, AdminBegin, TxnKinds
    <2>3. PICK o : /\ OpBecomes(t, o) /\ o.at = "first" /\ o.key = k /\ o.kind = kind
      BY <2>2 DEF Begin
    <2>4. op[t].at = "idle"
      BY <2>2 DEF Begin
    <2>5. op'[t] = o
      BY <2>3, OthersKeep
    <2>6. RowHeld(t)'
      BY <2>1, <2>2, <2>3, <2>5 DEF RowHeld, Working, TxnKinds
    <2>7. ASSUME NEW u \in Txns \ {t}
          PROVE  op[u].kind = "add" /\ op[u].at # "idle" => o.key # op[u].key
      BY <2>1, <2>3 DEF RotationInv, RowHeld
    <2>8. QED
      BY <2>1, <2>3, <2>4, <2>6, <2>7, RotationStart
  <1>3. CASE AddBegin(t, k)
    <2>1. row[k].live = "absent" /\ row' = row /\ listed' = listed
          /\ \A u \in Txns : op[u].key # k
      BY <1>3 DEF AddBegin, store
    <2>2. PICK r : /\ Begin(t, "add", k, "update", r)
                   /\ \E c \in Creds : r = [AnyRow EXCEPT !.live = "live", !.cred = c]
      BY <1>3 DEF AddBegin
    <2>3. ActiveRow(r)
      BY <2>2 DEF ActiveRow, AnyRow
    <2>4. PICK o : /\ OpBecomes(t, o) /\ o.at = "update" /\ o.key = k
                   /\ o.kind = "add" /\ o.next = r
      BY <2>2 DEF Begin
    <2>5. op[t].at = "idle"
      BY <2>2 DEF Begin
    <2>6. op'[t] = o /\ \A u \in Txns \ {t} : op'[u] = op[u]
      BY <2>4, OthersKeep
    <2>7. RowHeld(t)'
      BY <2>1, <2>3, <2>4, <2>6 DEF RowHeld, Working
    <2>8. QED
      BY <2>1, <2>4, <2>5, <2>7, RotationStart DEF Working
  <1>4. CASE EditRow(t, k)
    BY <1>4 DEF EditRow, Begin, Serialised
  <1>5. QED
    BY <1>1, <1>2, <1>3, <1>4

\* With locked rows, nobody works on a row that is free to take.
LEMMA LockFreeNobody ==
    ASSUME TypeOK, RotationInv, Serialised, NEW t \in Txns, NEW k \in Keys,
           LockFree(t, k), NEW u \in Txns \ {t}
    PROVE  ~Working(u, k)
  <1>1. RowHeld(u)
    BY DEF RotationInv
  <1>2. Working(u, k) => op[u].kind # "edit"
    BY <1>1 DEF RowHeld, Working
  <1>3. QED
    BY <1>2 DEF LockFree, Holds, Working, Serialised

\* First: the struct is made from the row that is now held, or the call ends.
LEMMA RotationFirst ==
    ASSUME TypeOK, RotationInv, Serialised, NEW t \in Txns, First(t)
    PROVE  RotationInv'
  <1> DEFINE o == op[t]
             r == row[o.key]
             n == [o EXCEPT !.at = "update", !.next = Updated(o, r)]
  <1>1. /\ o \in OpType /\ o.at = "first" /\ o.key \in Keys
        /\ row' = row /\ listed' = listed
    BY DEF First, TypeOK, store
  <1>2. RowHeld(t)
    BY DEF RotationInv
  <1>3. o.kind \notin {"edit", "none", "add"}
    BY <1>1, <1>2 DEF RowHeld
  <1>4. CASE End(t)
    <2>1. IdleOp.at = "idle" /\ OpBecomes(t, IdleOp) /\ IdleOp.key = NoKey
      BY <1>4 DEF IdleOp, End
    <2>2. RowHeld(t)'
      BY <2>1, OthersKeep DEF RowHeld
    <2>3. ASSUME NEW u \in Txns \ {t}, op[u].at # "idle" PROVE op[u].key # NoKey
      BY <2>3, KeyPoolAssumption DEF TypeOK
    <2>4. QED
      BY <1>1, <2>1, <2>2, <2>3, RotationStart
  <1>5. CASE Found(o, r) /\ OpBecomes(t, n)
    <2>1. /\ n.at = "update" /\ n.key = o.key /\ n.kind = o.kind /\ n.seen = o.seen
          /\ n.next = Updated(o, r)
      BY <1>1 DEF OpType
    <2>2. op'[t] = n /\ \A u \in Txns \ {t} : op'[u] = op[u]
      BY <1>5, OthersKeep
    <2>3. Updated(n, r) = Updated(o, r)
      BY <2>1 DEF Updated, Blacklists
    <2>4. r.live = "live"
      BY <1>5 DEF Found
    <2>5. \A u \in Txns \ {t} : ~Working(u, o.key)
      BY <1>1, <1>3, LockFreeNobody DEF First, Serialised
    <2>6. \A u \in Txns \ {t} : ~Working(u, o.key)'
      BY <2>2, <2>5 DEF Working
    <2> HIDE DEF n
    <2>7. RowHeld(t)'
      BY <1>1, <1>3, <2>1, <2>2, <2>3, <2>4, <2>6 DEF RowHeld
    <2>8. ASSUME NEW u \in Txns \ {t}
          PROVE  op[u].kind = "add" /\ op[u].at # "idle" => n.key # op[u].key
      BY <1>1, <2>1, <2>4 DEF RotationInv, RowHeld
    <2>9. QED
      BY <1>1, <1>5, <2>1, <2>5, <2>7, <2>8, RotationStart
  <1>6. QED
    BY <1>3, <1>4, <1>5 DEF First

\* Updates: the plan is made while the list agrees with the held row.
LEMMA RotationUpdate ==
    ASSUME TypeOK, RotationInv, Serialised, NEW t \in Txns, Update(t)
    PROVE  RotationInv'
  <1> DEFINE o == op[t]
             k == o.key
             q == Plan(o, o.next)
             n == [o EXCEPT !.at = "store", !.todo = q]
  <1>1. /\ o \in OpType /\ o.at = "update" /\ k \in Keys /\ OpBecomes(t, n)
        /\ row' = row /\ listed' = listed /\ listed[k] \in Nat
        /\ row[k] \in Row /\ o.next \in Row
    BY DEF Update, TypeOK, store, OpType
  <1>2. RowHeld(t) /\ o.kind \notin {"edit", "none"}
    BY <1>1 DEF RotationInv, RowHeld
  <1>3. /\ n.at = "store" /\ n.key = k /\ n.kind = o.kind /\ n.seen = o.seen
        /\ n.next = o.next /\ n.todo = q
    BY <1>1 DEF OpType
  <1>4. op'[t] = n /\ \A u \in Txns \ {t} : op'[u] = op[u]
    BY <1>1, OthersKeep
  <1>5. \A u \in Txns \ {t} : ~Working(u, k)
    BY <1>1, LockFreeNobody DEF Update
  <1>6. listed[k] > 0 => ActiveRow(row[k])
    BY <1>1, <1>5 DEF RotationInv, ListAtRest, Working
  <1> HIDE DEF n
  <1>7. RowHeld(t)'
    <2>1. \A r : Updated(n, r) = Updated(o, r)
      BY <1>3 DEF Updated, Blacklists
    <2>2. \A u \in Txns \ {t} : ~Working(u, k)'
      BY <1>3, <1>4, <1>5 DEF Working
    <2>3. QED
      BY <1>1, <1>2, <1>3, <1>4, <2>1, <2>2 DEF RowHeld
  <1>8. ListMidway(t)'
    <2> DEFINE HasPush == \E i \in 1..Len(q) : q[i] = "lpush"
               HasDrop == \E i \in 1..Len(q) : q[i] = "lrem"
    <2>1. /\ \A i \in 1..Len(q) : q[i] = "lpush" => i = Len(q)
          /\ HasPush => Pushes(o)
          /\ ~HasDrop => o.kind = "add" \/ LeavesList(o)
      BY <1>1, <1>2, PlanShape
    <2>2. HasPush => ActiveRow(o.next)
      BY <1>1, <1>2, <2>1, UpdatedActive DEF RowHeld
    <2>3. ~HasDrop /\ listed[k] > 0 => ActiveRow(o.next)
      BY <1>1, <1>2, <1>6, <2>1, UpdatedActive DEF RowHeld
    <2>4. ~HasDrop /\ HasPush => listed[k] = 0
      <3>1. SUFFICES ASSUME ~HasDrop, HasPush PROVE listed[k] = 0
        OBVIOUS
      <3>2. o.kind = "add"
        BY <2>1, <3>1 DEF Pushes, LeavesList
      <3>3. row[k].live = "absent"
        BY <1>1, <1>2, <3>2 DEF RowHeld
      <3>4. QED
        BY <1>1, <1>6, <3>3 DEF ActiveRow
    <2>5. Pending(t, "lpush")' = HasPush /\ Pending(t, "lrem")' = HasDrop
      BY <1>3, <1>4 DEF Pending
    <2> HIDE DEF q, HasPush, HasDrop
    <2>6. QED
      BY <1>1, <1>3, <1>4, <2>1, <2>2, <2>3, <2>4, <2>5 DEF ListMidway
  <1>9. ASSUME NEW u \in Txns PROVE RowHeld(u)' /\ ListMidway(u)'
    <2>1. CASE u = t
      BY <1>7, <1>8, <2>1
    <2>2. CASE u # t
      <3>1. op[u].kind = "add" /\ op[u].at # "idle" => k # op[u].key
        BY <1>2, <2>2 DEF RotationInv, RowHeld
      <3>2. QED
        BY <1>1, <1>3, <1>5, <2>2, <3>1, OthersRowHeld, OthersMidway
    <2>3. QED
      BY <2>1, <2>2
  <1>10. ASSUME NEW j \in Keys PROVE ListAtRest(j)'
    BY <1>1, <1>3, <1>4 DEF RotationInv, ListAtRest
  <1>11. ListedOnce'
    BY <1>1 DEF RotationInv, ListedOnce
  <1>12. QED
    BY <1>9, <1>10, <1>11 DEF RotationInv

\* One call to the store.
LEMMA RotationStore ==
    ASSUME TypeOK, RotationInv, Serialised, NEW t \in Txns, StoreStep(t)
    PROVE  RotationInv'
  <1> DEFINE o == op[t]
             k == o.key
             q == o.todo
             n == [o EXCEPT !.todo = Tail(q)]
  <1>1. /\ o \in OpType /\ o.at = "store" /\ k \in Keys /\ OpBecomes(t, n)
        /\ row' = row /\ q \in Seq(StoreCalls) /\ q # <<>> /\ Call(Head(q), k, o.next)
    BY DEF StoreStep, TypeOK, OpType
  <1>2. /\ listed[k] \in Nat /\ listed[k] <= 1
        /\ listed' = [listed EXCEPT ![k] = ListedAfter(Head(q), listed[k])]
        /\ listed'[k] = ListedAfter(Head(q), listed[k])
        /\ \A j \in Keys \ {k} : listed'[j] = listed[j]
    BY <1>1 DEF TypeOK, RotationInv, ListedOnce, Call
  <1>3. RowHeld(t) /\ ListMidway(t)
    BY DEF RotationInv
  <1>4. /\ n.at = "store" /\ n.key = k /\ n.kind = o.kind /\ n.seen = o.seen
        /\ n.next = o.next /\ n.todo = Tail(q)
    BY <1>1 DEF OpType
  <1>5. op'[t] = n /\ \A u \in Txns \ {t} : op'[u] = op[u]
    BY <1>1, OthersKeep
  <1>6. \A u \in Txns \ {t} : ~Working(u, k)
    BY <1>1, <1>3 DEF RowHeld, Working
  <1> HIDE DEF n
  <1>7. RowHeld(t)'
    <2>1. \A r : Updated(n, r) = Updated(o, r)
      BY <1>4 DEF Updated, Blacklists
    <2>2. \A u \in Txns \ {t} : ~Working(u, k)'
      BY <1>4, <1>5, <1>6 DEF Working
    <2>3. QED
      BY <1>1, <1>3, <1>4, <1>5, <2>1, <2>2 DEF RowHeld
  <1>8. ListMidway(t)' /\ listed'[k] <= 1
    <2> DEFINE Was(c) == \E i \in 1..Len(q) : q[i] = c
               Is(c) == \E i \in 1..Len(Tail(q)) : Tail(q)[i] = c
               h == Head(q)
    <2>1. /\ Was("lpush") <=> h = "lpush" \/ Is("lpush")
          /\ Was("lrem") <=> h = "lrem" \/ Is("lrem")
      BY <1>1, PendingTail
    <2>2. /\ \A i \in 1..Len(Tail(q)) : Tail(q)[i] = "lpush" => i = Len(Tail(q))
          /\ h = "lpush" => Tail(q) = <<>>
      BY <1>1, <1>3, PendingTail DEF ListMidway
    <2>3. /\ Was("lpush") => ActiveRow(o.next)
          /\ ~Was("lrem") => /\ listed[k] > 0 => ActiveRow(o.next)
                             /\ Was("lpush") => listed[k] = 0
      BY <1>1, <1>3 DEF ListMidway, Pending
    <2>4. /\ h = "lpush" => ~Is("lrem") /\ ~Is("lpush") /\ ~Was("lrem")
      <3>1. ASSUME h = "lpush" PROVE ~Is("lrem") /\ ~Is("lpush")
        <4>1. Tail(q) = <<>>
          BY <2>2, <3>1
        <4>2. 1..Len(Tail(q)) = {}
          BY <4>1
        <4>3. QED
          BY <4>2
      <3>2. QED
        BY <2>1, <3>1
    <2>5. /\ Pending(t, "lpush")' = Is("lpush") /\ Pending(t, "lrem")' = Is("lrem")
      BY <1>4, <1>5 DEF Pending
    <2>6. /\ h = "lrem" => listed'[k] = 0
          /\ h = "lpush" => listed'[k] = listed[k] + 1
          /\ h \notin {"lrem", "lpush"} => listed'[k] = listed[k]
      BY <1>2 DEF ListedAfter
    <2> HIDE DEF Was, Is, h
    <2>7. /\ Is("lpush") => ActiveRow(o.next)
          /\ ~Is("lrem") => /\ listed'[k] > 0 => ActiveRow(o.next)
                            /\ Is("lpush") => listed'[k] = 0
          /\ listed'[k] <= 1
      <3>1. CASE h = "lrem"
        BY <2>1, <2>3, <2>6, <3>1
      <3>2. CASE h = "lpush"
        BY <1>2, <2>1, <2>3, <2>4, <2>6, <3>2
      <3>3. CASE h \notin {"lrem", "lpush"}
        BY <1>2, <2>1, <2>3, <2>6, <3>3
      <3>4. QED
        BY <3>1, <3>2, <3>3
    <2>8. QED
      BY <1>4, <1>5, <2>2, <2>5, <2>7 DEF ListMidway
  <1>9. ASSUME NEW u \in Txns PROVE RowHeld(u)' /\ ListMidway(u)'
    <2>1. CASE u = t
      BY <1>7, <1>8, <2>1
    <2>2. CASE u # t
      <3>1. op[u].kind = "add" /\ op[u].at # "idle" => k # op[u].key
        BY <1>1, <2>2 DEF RotationInv, RowHeld
      <3>2. op[u].at = "store" => op[u].key \in Keys \ {k}
        BY <1>6, <2>2 DEF TypeOK, Working
      <3>3. QED
        BY <1>1, <1>2, <1>4, <1>6, <2>2, <3>1, <3>2, OthersRowHeld, OthersMidway
    <2>3. QED
      BY <2>1, <2>2
  <1>10. ASSUME NEW j \in Keys PROVE ListAtRest(j)' /\ listed'[j] <= 1
    <2>1. CASE j = k
      BY <1>4, <1>5, <1>8, <2>1 DEF ListAtRest
    <2>2. CASE j # k
      BY <1>1, <1>2, <1>4, <1>5, <2>2 DEF RotationInv, ListAtRest, ListedOnce
    <2>3. QED
      BY <2>1, <2>2
  <1>11. QED
    BY <1>9, <1>10 DEF RotationInv, ListedOnce

\* The commit gives the row what the struct already is.
LEMMA RotationCommit ==
    ASSUME TypeOK, RotationInv, Serialised, NEW t \in Txns, Commit(t)
    PROVE  RotationInv'
  <1> DEFINE o == op[t]
             k == o.key
  <1>1. /\ o \in OpType /\ o.at = "store" /\ o.todo = <<>> /\ k \in Keys
        /\ End(t) /\ listed' = listed /\ listed[k] \in Nat
        /\ row \in [Keys -> Row]
    BY DEF Commit, TypeOK, store
  <1>2. RowHeld(t) /\ ListMidway(t)
    BY DEF RotationInv
  <1>3. /\ o.kind \notin {"edit", "none"}
        /\ o.kind # "add" => row[k].live = "live" /\ o.next = Updated(o, row[k])
        /\ \A u \in Txns \ {t} : ~Working(u, k)
    BY <1>1, <1>2 DEF RowHeld, Working
  <1>4. row' = [row EXCEPT ![k] = o.next]
    <2>1. CASE o.kind = "add"
      BY <2>1 DEF Commit
    <2>2. CASE o.kind # "add"
      <3>1. row' = [row EXCEPT ![k] = Updated(o, row[k])]
        BY <1>3, <2>2, Zenon DEF Commit
      <3>2. QED
        BY <1>3, <2>2, <3>1
    <2>3. QED
      BY <2>1, <2>2
  <1>5. IdleOp.at = "idle" /\ IdleOp.key = NoKey /\ OpBecomes(t, IdleOp)
    BY <1>1 DEF End, IdleOp
  <1>6. op'[t].at = "idle" /\ \A u \in Txns \ {t} : op'[u] = op[u]
    BY <1>5, OthersKeep
  <1>7. listed[k] > 0 => ActiveRow(row'[k])
    <2>1. ~Pending(t, "lrem")
      BY <1>1 DEF Pending
    <2>2. QED
      BY <1>1, <1>2, <1>4, <2>1 DEF ListMidway
  <1>8. ASSUME NEW u \in Txns PROVE RowHeld(u)' /\ ListMidway(u)'
    <2>1. CASE u = t
      BY <1>6, <2>1 DEF RowHeld, ListMidway
    <2>2. CASE u # t
      <3>1. RowHeld(u) /\ (op[u].at # "idle" => op[u].key \in Keys)
        BY DEF RotationInv, TypeOK
      <3>2. op[u].at # "idle" /\ op[u].key = k => op[u].at = "first" /\ op[u].kind # "add"
        BY <1>3, <2>2, <3>1 DEF Working, TypeOK, OpType, RowHeld
      <3>3. op[u].at # "idle" /\ op[u].key = k => o.next.live # "absent"
        <4>1. SUFFICES ASSUME op[u].at # "idle", op[u].key = k
                       PROVE  o.next.live # "absent"
          OBVIOUS
        <4>2. o.kind # "add"
          BY <1>1, <1>2, <2>2, <4>1 DEF RowHeld
        <4>3. row[k] \in Row /\ row[k].live = "live" /\ o.next = Updated(o, row[k])
          BY <1>1, <1>3, <4>2
        <4>4. QED
          BY <1>1, <4>3, UpdatedLives
      <3>4. RowHeld(u)'
        <4>1. CASE op[u].at = "idle"
          BY <1>6, <2>2, <4>1 DEF RowHeld
        <4>2. CASE op[u].at # "idle" /\ op[u].key = k
          BY <1>1, <1>4, <1>6, <2>2, <3>1, <3>2, <3>3, <4>2 DEF RowHeld, Working
        <4>3. CASE op[u].at # "idle" /\ op[u].key # k
          <5>1. row'[op[u].key] = row[op[u].key]
            BY <1>1, <1>4, <3>1, <4>3
          <5>2. op'[t].key = NoKey /\ op[u].key # NoKey
            BY <1>5, <3>1, <4>3, OthersKeep, KeyPoolAssumption
          <5>3. QED
            BY <1>6, <2>2, <3>1, <4>3, <5>1, <5>2 DEF RowHeld, Working
        <4>4. QED
          BY <4>1, <4>2, <4>3
      <3>5. ListMidway(u)'
        BY <1>1, <1>5, <2>2, OthersMidway
      <3>6. QED
        BY <3>4, <3>5
    <2>3. QED
      BY <2>1, <2>2
  <1>9. ASSUME NEW j \in Keys PROVE ListAtRest(j)'
    <2>1. CASE j = k
      BY <1>1, <1>7, <2>1 DEF ListAtRest
    <2>2. CASE j # k
      BY <1>1, <1>4, <1>6, <2>2 DEF RotationInv, ListAtRest
    <2>3. QED
      BY <2>1, <2>2
  <1>10. ListedOnce'
    BY <1>1 DEF RotationInv, ListedOnce
  <1>11. QED
    BY <1>8, <1>9, <1>10 DEF RotationInv

\* The database is locked at the Updates: nothing was written yet.
LEMMA RotationLocked ==
    ASSUME TypeOK, RotationInv, Serialised, NEW t \in Txns, DatabaseLocked(t)
    PROVE  RotationInv'
  <1> DEFINE o == op[t]
             n == [o EXCEPT !.at = "first", !.next = AnyRow, !.tries = o.tries + 1]
  <1>1. /\ o \in OpType /\ o.at = "update" /\ o.key \in Keys
        /\ row' = row /\ listed' = listed
    BY DEF DatabaseLocked, TypeOK, store, Serialised
  <1>2. RowHeld(t)
    BY DEF RotationInv
  <1>3. CASE End(t)
    <2>1. IdleOp.at = "idle" /\ OpBecomes(t, IdleOp) /\ IdleOp.key = NoKey
      BY <1>3 DEF IdleOp, End
    <2>2. RowHeld(t)'
      BY <2>1, OthersKeep DEF RowHeld
    <2>3. ASSUME NEW u \in Txns \ {t}, op[u].at # "idle" PROVE op[u].key # NoKey
      BY <2>3, KeyPoolAssumption DEF TypeOK
    <2>4. QED
      BY <1>1, <2>1, <2>2, <2>3, RotationStart
  <1>4. CASE o.kind \in Retried /\ OpBecomes(t, n)
    <2>1. n.at = "first" /\ n.key = o.key /\ n.kind = o.kind
      BY <1>1 DEF OpType
    <2>2. op'[t] = n
      BY <1>4, OthersKeep
    <2> HIDE DEF n
    <2>3. o.kind # "add" /\ row[o.key].live # "absent"
      BY <1>1, <1>2, <1>4 DEF RowHeld, Retried
    <2>4. RowHeld(t)'
      BY <1>1, <1>2, <2>1, <2>2, <2>3 DEF RowHeld, Working
    <2>5. ASSUME NEW u \in Txns \ {t}
          PROVE  op[u].kind = "add" /\ op[u].at # "idle" => n.key # op[u].key
      BY <2>1, <2>3 DEF RotationInv, RowHeld
    <2>6. QED
      BY <1>1, <1>4, <2>1, <2>4, <2>5, RotationStart
  <1>5. QED
    BY <1>3, <1>4 DEF DatabaseLocked

-----------------------------------------------------------------------------
(* The rotation invariant holds in the loaded pool. *)
LEMMA InitRotation == Init => RotationInv
  <1> SUFFICES ASSUME Init PROVE RotationInv
    OBVIOUS
  <1>1. \A t \in Txns : op[t].at = "idle"
    BY DEF Init, IdleOp
  <1>2. \A k \in Keys : listed[k] = IF ActiveRow(row[k]) THEN 1 ELSE 0
    BY DEF Init
  <1>3. QED
    BY <1>1, <1>2 DEF RotationInv, RowHeld, ListMidway, ListAtRest, ListedOnce

(* With serialised transactions every step keeps it. *)
LEMMA NextRotation ==
    ASSUME Serialised, TypeOK, RotationInv, [Next]_vars
    PROVE  RotationInv'
  <1>1. listed \in [Keys -> Nat]
    BY DEF TypeOK
  <1>2. CASE UNCHANGED vars
    BY <1>2, RotationFrame DEF vars
  <1>3. ASSUME NEW t \in Txns, TxnBegin(t) \/ TxnStep(t) \/ TxnFault(t)
        PROVE  RotationInv'
    <2>1. ~StoreFails(t)
      BY DEF StoreFails, Serialised
    <2>2. QED
      BY <1>3, <2>1, RotationBegin, RotationFirst, RotationUpdate, RotationStore,
         RotationCommit, RotationLocked DEF TxnStep, TxnFault
  <1>4. ASSUME NEW c \in Callers, SelectStart(c) \/ SelectStep(c) \/ SelectFails(c)
        PROVE  RotationInv'
    <2>1. CASE SelectStart(c) \/ SelectRotate(c) \/ SelectRead(c) \/ SelectFails(c)
      <3>1. op' = op /\ row' = row /\ listed' = listed
        BY <2>1 DEF SelectStart, SelectRotate, SelectRead, SelectFails, store
      <3>2. QED
        BY <3>1, RotationFrame
    <2>2. CASE SelectDrop(c) \/ SelectForget(c)
      <3>1. op' = op /\ row' = row
        BY <2>2 DEF SelectDrop, SelectForget
      <3>2. \A k \in Keys : listed'[k] = listed[k] \/ listed'[k] = 0
        BY <1>1, <2>2 DEF SelectDrop, SelectForget, Call, ListedAfter, store
      <3>3. QED
        BY <3>1, <3>2, RotationFrame
    <2>3. QED
      BY <1>4, <2>1, <2>2 DEF SelectStep
  <1>5. ASSUME NEW k \in Keys, CoolDownKey(k) \/ CooldownExpires(k) PROVE RotationInv'
    <2>1. op' = op /\ row' = row /\ listed' = listed
      BY <1>5 DEF CoolDownKey, CooldownExpires, store
    <2>2. QED
      BY <2>1, RotationFrame
  <1>6. ~Crash /\ Syncers = {}
    BY DEF Crash, Serialised
  <1>7. QED
    BY <1>2, <1>3, <1>4, <1>5, <1>6 DEF Next

\* With serialised transactions RotationInv holds of every reachable state.
THEOREM RotationCorrect == ASSUME Serialised PROVE Spec => []RotationInv
  <1>1. TypeOK /\ RotationInv /\ [Next]_vars => RotationInv'
    BY NextRotation
  <1>2. QED
    BY <1>1, InitRotation, TypeCorrect, PTL DEF Spec

\* However many goroutines report, disable, enable, restore, remove, add and
\* select at once, a key at rest is in the rotation only if its row is active.
THEOREM OnlyActiveListedCorrect == ASSUME Serialised PROVE Spec => []OnlyActiveListed
  <1>1. RotationInv => OnlyActiveListed
    BY DEF RotationInv, ListAtRest, OnlyActiveListed, Quiet
  <1>2. QED
    BY <1>1, RotationCorrect, PTL

\* Under the same conditions no key is in the rotation twice, at any moment.
THEOREM ListedOnceCorrect == ASSUME Serialised PROVE Spec => []ListedOnce
  <1>1. RotationInv => ListedOnce
    BY DEF RotationInv
  <1>2. QED
    BY <1>1, RotationCorrect, PTL

-----------------------------------------------------------------------------
(* Hashes and counts under serialised transactions.                        *)
(*                                                                         *)
(* StoreFollows and CountNeverAhead speak of a key at rest; StoreInv says  *)
(* what is true of its hash and its counts while a transaction works on    *)
(* it, as far as the store calls that are still to come allow.             *)

Has(q, c) == \E i \in 1..Len(q) : q[i] = c

\* The failure o was counted, and is still to be added to the hash of k.
IsClaim(o, k) == /\ o.kind = "failure" /\ o.key = k
                 /\ \/ o.at \in {"first", "update"}
                    \/ o.at = "store" /\ Has(o.todo, "incr")
Claims(k) == {t \in Txns : IsClaim(op[t], k)}

\* Hash and row count reported failures only, and the increments to come are
\* covered by reports too.
CountAtRest(k) == /\ IsFiniteSet(Claims(k))
                  /\ hash[k].fc + Cardinality(Claims(k)) <= fails[k]
                  /\ row[k].fc <= fails[k]

\* What o will write is covered by the n failures reported for its key.
CountMidway(o, n) ==
    /\ o.at = "idle" => o.kind # "failure"
    /\ o.at # "idle" /\ o.kind = "failure" => o.seen.fc + 1 <= n
    /\ o.at # "idle" /\ o.kind = "add" => o.next.fc = 0
    /\ o.at = "store" =>
          /\ Has(o.todo, "full") \/ Has(o.todo, "reset") => o.next.fc = 0
          /\ \A i \in 1..Len(o.todo) : o.todo[i] = "incr" => i = 1 /\ o.kind = "failure"

\* What a hash may say of a row: the truth, or nothing.
Follows(h, r) ==
    IF r.live = "live"
    THEN h.status \in {r.status, "none"} /\ h.cred \in {r.cred, NoCred}
    ELSE h = EmptyHash

\* The hash h follows the struct of o but for the calls that o has yet to make.
Rewritten(o) == Has(o.todo, "full") \/ Has(o.todo, "hdel")
Restated(o) == Has(o.todo, "reset") \/ Has(o.todo, "status")
HashMidway(o, h) ==
    o.at = "store" =>
        /\ Has(o.todo, "full") \/ Restated(o) \/ Has(o.todo, "incr") =>
               o.next.live = "live"
        /\ Has(o.todo, "hdel") => o.next.live # "live"
        /\ \/ Rewritten(o)
           \/ Restated(o) /\ h.cred \in {o.next.cred, NoCred}
           \/ Follows(h, o.next)
HashAtRest(k) ==
    (\A t \in Txns : ~(op[t].at = "store" /\ op[t].key = k)) =>
        Follows(hash[k], row[k])

StoreInv ==
    /\ \A t \in Txns : /\ CountMidway(op[t], fails[op[t].key])
                       /\ HashMidway(op[t], hash[op[t].key])
    /\ \A k \in Keys : CountAtRest(k) /\ HashAtRest(k)

\* The calls of each kind's plan that touch the hash.
LEMMA PlanHash ==
    ASSUME NEW o \in OpType, o.kind \notin {"edit", "none"}, NEW r,
           NEW q, q = Plan(o, r)
    PROVE  /\ \A i \in 1..Len(q) : q[i] = "incr" => i = 1 /\ o.kind = "failure"
           /\ Has(q, "full") \/ Has(q, "reset") =>
                  o.kind \in {"success", "restore", "enable", "add"}
           /\ Has(q, "hdel") <=> o.kind = "remove"
           /\ o.kind = "remove" => ~Has(q, "status")
           /\ o.kind = "add" => Has(q, "full")
           /\ \/ Has(q, "full") \/ Has(q, "hdel") \/ Has(q, "reset") \/ Has(q, "status")
              \/ o.kind = "failure" /\ ~Blacklists(o)
  <1>1. o.kind \in TxnKinds \ {"edit"}
    BY DEF OpType
  <1>2. CASE o.kind = "success"
    <2>1. q = <<"full">> \/ q = <<"full", "lrem", "lpush">>
      BY <1>2, Zenon DEF Plan
    <2>2. CASE q = <<"full">>
      BY <1>2, <2>2 DEF Has
    <2>3. CASE q = <<"full", "lrem", "lpush">>
      BY <1>2, <2>3 DEF Has
    <2>4. QED
      BY <2>1, <2>2, <2>3
  <1>3. CASE o.kind = "failure"
    <2>1. \/ q = <<"incr", "lrem", "status">>
          \/ ~Blacklists(o) /\ q = <<"incr">>
      BY <1>3, Zenon DEF Plan
    <2>2. CASE q = <<"incr", "lrem", "status">>
      BY <1>3, <2>2 DEF Has
    <2>3. CASE ~Blacklists(o) /\ q = <<"incr">>
      BY <1>3, <2>3 DEF Has
    <2>4. QED
      BY <2>1, <2>2, <2>3
  <1>4. CASE o.kind = "enable"
    <2>1. q = <<"reset", "lrem", "lpush">>
      BY <1>4, Zenon DEF Plan
    <2>2. QED
      BY <1>4, <2>1 DEF Has
  <1>5. CASE o.kind = "restore"
    <2>1. q = <<"full", "lrem", "lpush">>
      BY <1>5, Zenon DEF Plan
    <2>2. QED
      BY <1>5, <2>1 DEF Has
  <1>6. CASE o.kind = "disable"
    <2>1. q = <<"status", "lrem">>
      BY <1>6, Zenon DEF Plan
    <2>2. QED
      BY <1>6, <2>1 DEF Has
  <1>7. CASE o.kind = "remove"
    <2>1. q = <<"lrem", "hdel">>
      BY <1>7, Zenon DEF Plan
    <2>2. QED
      BY <1>7, <2>1 DEF Has
  <1>8. CASE o.kind = "add"
    <2>1. q = <<"full", "lpush">>
      BY <1>8, Zenon DEF Plan
    <2>2. QED
      BY <1>8, <2>1 DEF Has
  <1>9. QED
    BY <1>1, <1>2, <1>3, <1>4, <1>5, <1>6, <1>7, <1>8 DEF TxnKinds

\* What the Updates make of each field of a live row.
LEMMA UpdatedFields ==
    ASSUME NEW o \in OpType, NEW r \in Row, r.live = "live",
           NEW n, n = Updated(o, r)
    PROVE  /\ n.cred = r.cred
           /\ o.kind = "remove" => n.live = "deleted"
           /\ o.kind # "remove" => n.live = "live"
           /\ o.kind \in {"success", "enable", "restore"} => n.fc = 0
           /\ o.kind = "failure" =>
                 /\ n.fc = o.seen.fc + 1
                 /\ n.status = IF Blacklists(o) THEN "invalid" ELSE r.status
           /\ o.kind \notin {"success", "enable", "restore", "failure"} => n.fc = r.fc
  <1>1. CASE o.kind = "success"
    <2>1. n = [r EXCEPT !.fc = 0, !.status =
                   IF o.seen.status = "active" THEN r.status ELSE "active"]
      BY <1>1, Zenon DEF Updated
    <2>2. QED
      BY <1>1, <2>1 DEF Row
  <1>2. CASE o.kind = "failure"
    <2>1. n = [r EXCEPT !.fc = o.seen.fc + 1, !.status =
                   IF Blacklists(o) THEN "invalid" ELSE r.status]
      BY <1>2, Zenon DEF Updated
    <2>2. QED
      BY <1>2, <2>1 DEF Row
  <1>3. CASE o.kind \in {"enable", "restore"}
    <2>1. n = [r EXCEPT !.fc = 0, !.status = "active"]
      BY <1>3 DEF Updated
    <2>2. QED
      BY <1>3, <2>1 DEF Row
  <1>4. CASE o.kind = "disable"
    <2>1. n = [r EXCEPT !.status = "disabled"]
      BY <1>4, Zenon DEF Updated
    <2>2. QED
      BY <1>4, <2>1 DEF Row
  <1>5. CASE o.kind = "remove"
    <2>1. n = [r EXCEPT !.live = "deleted"]
      BY <1>5, Zenon DEF Updated
    <2>2. QED
      BY <1>5, <2>1 DEF Row
  <1>6. CASE o.kind \notin {"success", "failure", "enable", "restore", "disable", "remove"}
    <2>1. n = r
      BY <1>6, Zenon DEF Updated
    <2>2. QED
      BY <1>6, <2>1
  <1>7. QED
    BY <1>1, <1>2, <1>3, <1>4, <1>5, <1>6

\* How the claims on a key change with one transaction's record.
LEMMA ClaimsStep ==
    ASSUME TypeOK, NEW t \in Txns, NEW o, OpBecomes(t, o), NEW k,
           IsFiniteSet(Claims(k))
    PROVE  /\ IsFiniteSet(Claims(k)')
           /\ Cardinality(Claims(k)) \in Nat /\ Cardinality(Claims(k)') \in Nat
           /\ Cardinality(Claims(k)') <= Cardinality(Claims(k)) + 1
           /\ (IsClaim(o, k) => IsClaim(op[t], k))
                 => Cardinality(Claims(k)') <= Cardinality(Claims(k))
           /\ IsClaim(op[t], k) /\ ~IsClaim(o, k)
                 => Cardinality(Claims(k)') + 1 = Cardinality(Claims(k))
  <1>1. op'[t] = o /\ \A u \in Txns \ {t} : op'[u] = op[u]
    BY OthersKeep
  <1>2. Claims(k)' = {u \in Txns : IsClaim(op'[u], k)}
    BY DEF Claims, IsClaim
  <1>3. t \in Claims(k) <=> IsClaim(op[t], k)
    BY DEF Claims
  <1>6. Cardinality(Claims(k)) \in Nat
    BY FS_CardinalityType
  <1>4. CASE IsClaim(o, k)
    <2>1. Claims(k)' = Claims(k) \cup {t}
      BY <1>1, <1>2, <1>4 DEF Claims
    <2>2. /\ IsFiniteSet(Claims(k) \cup {t})
          /\ Cardinality(Claims(k) \cup {t}) =
                IF t \in Claims(k) THEN Cardinality(Claims(k)) ELSE Cardinality(Claims(k)) + 1
      BY FS_AddElement
    <2>3. QED
      BY <1>3, <1>4, <2>1, <2>2, <1>6
  <1>5. CASE ~IsClaim(o, k)
    <2>1. Claims(k)' = Claims(k) \ {t}
      BY <1>1, <1>2, <1>5 DEF Claims
    <2>2. /\ IsFiniteSet(Claims(k) \ {t})
          /\ Cardinality(Claims(k) \ {t}) =
                IF t \in Claims(k) THEN Cardinality(Claims(k)) - 1 ELSE Cardinality(Claims(k))
      BY FS_RemoveElement
    <2>3. Cardinality(Claims(k) \ {t}) \in Nat
      BY <2>2, FS_CardinalityType
    <2>4. QED
      BY <1>3, <1>5, <1>6, <2>1, <2>2, <2>3
  <1>7. QED
    BY <1>4, <1>5

\* The others' records stay covered when reports only grow and nobody touches
\* the hash that they work on.
LEMMA StoreOthers ==
    ASSUME TypeOK, StoreInv, NEW t \in Txns, NEW o, OpBecomes(t, o),
           \A k \in Keys : fails'[k] \in Nat /\ fails[k] <= fails'[k],
           \A u \in Txns \ {t} :
               op[u].at = "store" => hash'[op[u].key] = hash[op[u].key],
           NEW u \in Txns \ {t}
    PROVE  /\ CountMidway(op'[u], fails'[op'[u].key])
           /\ HashMidway(op'[u], hash'[op'[u].key])
  <1>1. op'[u] = op[u]
    BY OthersKeep
  <1>2. /\ op[u].at # "idle" => op[u].key \in Keys
        /\ op[u].seen.fc \in Nat
    BY DEF TypeOK, OpType, Hash
  <1>3. /\ CountMidway(op[u], fails[op[u].key])
        /\ HashMidway(op[u], hash[op[u].key])
    BY DEF StoreInv
  <1>4. HashMidway(op[u], hash'[op[u].key])
    <2>1. CASE op[u].at = "store"
      BY <1>3, <2>1
    <2>2. CASE op[u].at # "store"
      BY <2>2 DEF HashMidway
    <2>3. QED
      BY <2>1, <2>2
  <1>5. CountMidway(op[u], fails'[op[u].key])
    <2>1. op[u].at # "idle" /\ op[u].kind = "failure" =>
              op[u].seen.fc + 1 <= fails'[op[u].key]
      <3>1. SUFFICES ASSUME op[u].at # "idle", op[u].kind = "failure"
                     PROVE  op[u].seen.fc + 1 <= fails'[op[u].key]
        OBVIOUS
      <3>2. fails[op[u].key] \in Nat /\ op[u].seen.fc + 1 <= fails[op[u].key]
        BY <1>2, <1>3, <3>1 DEF CountMidway, TypeOK
      <3>3. fails'[op[u].key] \in Nat /\ fails[op[u].key] <= fails'[op[u].key]
        BY <1>2, <3>1
      <3>4. QED
        BY <1>2, <3>2, <3>3
    <2>2. QED
      BY <1>3, <2>1 DEF CountMidway
  <1>6. QED
    BY <1>1, <1>4, <1>5

\* A transaction starts or stops without the store having been touched.
LEMMA StoreStart ==
    ASSUME TypeOK, StoreInv, NEW t \in Txns, NEW o, OpBecomes(t, o),
           row' = row, hash' = hash, op[t].at # "store", o.at # "store",
           \A k \in Keys :
               /\ fails'[k] \in Nat /\ fails[k] <= fails'[k]
               /\ IsClaim(o, k) /\ ~IsClaim(op[t], k) => fails[k] + 1 <= fails'[k],
           CountMidway(o, fails'[o.key])
    PROVE  StoreInv'
  <1>1. op'[t] = o /\ \A u \in Txns \ {t} : op'[u] = op[u]
    BY OthersKeep
  <1>2. ASSUME NEW u \in Txns
        PROVE  /\ CountMidway(op'[u], fails'[op'[u].key])
               /\ HashMidway(op'[u], hash'[op'[u].key])
    <2>1. CASE u = t
      BY <1>1, <2>1 DEF HashMidway
    <2>2. CASE u # t
      BY <2>2, StoreOthers
    <2>3. QED
      BY <2>1, <2>2
  <1>3. ASSUME NEW k \in Keys PROVE CountAtRest(k)' /\ HashAtRest(k)'
    <2>1. CountAtRest(k) /\ HashAtRest(k)
      BY DEF StoreInv
    <2>2. hash[k].fc \in Nat /\ row[k].fc \in Nat /\ fails[k] \in Nat
      BY DEF TypeOK, Hash, Row
    <2>3. HashAtRest(k)'
      BY <1>1, <2>1 DEF HashAtRest, Follows
    <2>4. IsFiniteSet(Claims(k))
      BY <2>1 DEF CountAtRest
    <2> DEFINE c == Cardinality(Claims(k))
               d == Cardinality(Claims(k)')
    <2>5. /\ IsFiniteSet(Claims(k)') /\ c \in Nat /\ d \in Nat /\ d <= c + 1
          /\ (IsClaim(o, k) => IsClaim(op[t], k)) => d <= c
      <3>1. QED
        BY <2>4, ClaimsStep
    <2>6. hash[k].fc + c <= fails[k] /\ row[k].fc <= fails[k]
      BY <2>1 DEF CountAtRest
    <2> HIDE DEF c, d
    <2>7. hash[k].fc + d <= fails'[k] /\ row[k].fc <= fails'[k]
      BY <2>2, <2>5, <2>6
    <2>8. QED
      BY <2>3, <2>5, <2>7 DEF CountAtRest, d
  <1>4. QED
    BY <1>2, <1>3 DEF StoreInv

\* Steps that touch neither rows, transactions nor reports, and at most empty
\* a hash.
LEMMA StoreFrame ==
    ASSUME TypeOK, StoreInv, op' = op, row' = row, fails' = fails,
           \A k \in Keys : hash'[k] = hash[k] \/ hash'[k] = EmptyHash
    PROVE  StoreInv'
  <1>1. /\ EmptyHash.fc = 0 /\ EmptyHash.cred = NoCred
        /\ \A r : Follows(EmptyHash, r)
    BY DEF EmptyHash, Follows
  <1>2. ASSUME NEW t \in Txns
        PROVE  /\ CountMidway(op'[t], fails'[op'[t].key])
               /\ HashMidway(op'[t], hash'[op'[t].key])
    <2>1. /\ CountMidway(op[t], fails[op[t].key])
          /\ HashMidway(op[t], hash[op[t].key])
      BY DEF StoreInv
    <2>2. CASE op[t].at = "store"
      <3>1. op[t].key \in Keys
        BY <2>2 DEF TypeOK
      <3>2. CASE hash'[op[t].key] = hash[op[t].key]
        BY <2>1, <3>2
      <3>3. CASE hash'[op[t].key] = EmptyHash
        BY <1>1, <2>1, <3>3 DEF HashMidway
      <3>4. QED
        BY <3>1, <3>2, <3>3
    <2>3. CASE op[t].at # "store"
      BY <2>1, <2>3 DEF HashMidway
    <2>4. QED
      BY <2>2, <2>3
  <1>3. ASSUME NEW k \in Keys PROVE CountAtRest(k)' /\ HashAtRest(k)'
    <2>1. CountAtRest(k) /\ HashAtRest(k)
      BY DEF StoreInv
    <2>2. Claims(k)' = Claims(k)
      BY DEF Claims, IsClaim
    <2>3. hash[k].fc \in Nat /\ fails[k] \in Nat
      BY DEF TypeOK, Hash
    <2>4. IsFiniteSet(Claims(k)) /\ Cardinality(Claims(k)) \in Nat
      BY <2>1, FS_CardinalityType DEF CountAtRest
    <2>5. hash'[k].fc + Cardinality(Claims(k)) <= fails[k]
      BY <1>1, <2>1, <2>3, <2>4 DEF CountAtRest
    <2>6. Follows(hash[k], row[k]) => Follows(hash'[k], row[k])
      BY <1>1
    <2>7. QED
      BY <2>1, <2>2, <2>5, <2>6 DEF CountAtRest, HashAtRest
  <1>4. QED
    BY <1>2, <1>3 DEF StoreInv

\* A transaction begins; a failure's claim comes with its report.
LEMMA StoreBegin ==
    ASSUME TypeOK, StoreInv, Serialised, NEW t \in Txns, TxnBegin(t)
    PROVE  StoreInv'
  <1>1. PICK k \in Keys : \/ SuccessRead(t, k) \/ FailureRead(t, k) \/ AdminBegin(t, k)
                         \/ AddBegin(t, k) \/ EditRow(t, k)
    BY DEF TxnBegin
  <1>2. fails \in [Keys -> Nat] /\ hash[k].fc \in Nat
    BY DEF TypeOK, Hash
  <1>3. CASE SuccessRead(t, k) \/ AdminBegin(t, k)
    <2>1. row' = row /\ hash' = hash /\ fails' = fails
      BY <1>3 DEF SuccessRead, AdminBegin, store
    <2>2. PICK kind \in TxnKinds \ {"failure", "add"} : Begin(t, kind, k, "first", AnyRow)
      BY <1>3 DEF SuccessRead, AdminBegin, TxnKinds
    <2>3. PICK o : OpBecomes(t, o) /\ o.at = "first" /\ o.kind = kind
      BY <2>2 DEF Begin
    <2>4. op[t].at = "idle"
      BY <2>2 DEF Begin
    <2>5. CountMidway(o, fails'[o.key])
      BY <2>2, <2>3 DEF CountMidway
    <2>6. \A j : ~IsClaim(o, j)
      BY <2>2, <2>3 DEF IsClaim
    <2>7. QED
      BY <1>2, <2>1, <2>3, <2>4, <2>5, <2>6, StoreStart
  <1>4. CASE FailureRead(t, k)
    <2>1. /\ row' = row /\ hash' = hash
          /\ fails' = [fails EXCEPT ![k] = fails[k] + 1]
          /\ Begin(t, "failure", k, "first", AnyRow)
      BY <1>4 DEF FailureRead, store
    <2>2. PICK o : /\ OpBecomes(t, o) /\ o.at = "first" /\ o.kind = "failure"
                   /\ o.key = k /\ o.seen = hash[k]
      BY <2>1 DEF Begin
    <2>3. op[t].at = "idle"
      BY <2>1 DEF Begin
    <2>4. hash[k].fc <= fails[k]
      <3>1. CountAtRest(k)
        BY DEF StoreInv
      <3>2. Cardinality(Claims(k)) \in Nat
        BY <3>1, FS_CardinalityType DEF CountAtRest
      <3>3. QED
        BY <1>2, <3>1, <3>2 DEF CountAtRest
    <2>5. CountMidway(o, fails'[o.key])
      BY <1>2, <2>1, <2>2, <2>4 DEF CountMidway
    <2>6. \A j \in Keys : /\ fails'[j] \in Nat /\ fails[j] <= fails'[j]
                          /\ IsClaim(o, j) => fails[j] + 1 <= fails'[j]
      BY <1>2, <2>1, <2>2 DEF IsClaim
    <2>7. QED
      BY <2>1, <2>2, <2>3, <2>5, <2>6, StoreStart
  <1>5. CASE AddBegin(t, k)
    <2>1. row' = row /\ hash' = hash /\ fails' = fails
      BY <1>5 DEF AddBegin, store
    <2>2. PICK r : /\ Begin(t, "add", k, "update", r)
                   /\ \E c \in Creds : r = [AnyRow EXCEPT !.live = "live", !.cred = c]
      BY <1>5 DEF AddBegin
    <2>3. r.fc = 0
      BY <2>2 DEF AnyRow
    <2>4. PICK o : /\ OpBecomes(t, o) /\ o.at = "update" /\ o.kind = "add"
                   /\ o.next = r
      BY <2>2 DEF Begin
    <2>5. op[t].at = "idle"
      BY <2>2 DEF Begin
    <2>6. CountMidway(o, fails'[o.key])
      BY <2>3, <2>4 DEF CountMidway
    <2>7. \A j : ~IsClaim(o, j)
      BY <2>4 DEF IsClaim
    <2>8. QED
      BY <1>2, <2>1, <2>4, <2>5, <2>6, <2>7, StoreStart
  <1>6. CASE EditRow(t, k)
    BY <1>6 DEF EditRow, Begin, Serialised
  <1>7. QED
    BY <1>1, <1>3, <1>4, <1>5, <1>6

\* A transaction that ends before its Updates gives up its claim.
LEMMA StoreEnd ==
    ASSUME TypeOK, StoreInv, NEW t \in Txns, op[t].at # "store", End(t),
           row' = row, hash' = hash, fails' = fails
    PROVE  StoreInv'
  <1>1. /\ OpBecomes(t, IdleOp) /\ IdleOp.at = "idle" /\ IdleOp.kind = "none"
    BY DEF End, IdleOp
  <1>2. CountMidway(IdleOp, fails'[IdleOp.key]) /\ \A k : ~IsClaim(IdleOp, k)
    BY <1>1 DEF CountMidway, IsClaim
  <1>3. \A k \in Keys : fails'[k] \in Nat /\ fails[k] <= fails'[k]
    BY DEF TypeOK
  <1>4. QED
    BY <1>1, <1>2, <1>3, StoreStart

\* A transaction that goes on before its store calls keeps its claim.
LEMMA StoreGoesOn ==
    ASSUME TypeOK, StoreInv, NEW t \in Txns, NEW o, OpBecomes(t, o),
           op[t].at \in {"first", "update"}, o.at \in {"first", "update"},
           o.kind = op[t].kind, o.key = op[t].key, o.seen = op[t].seen,
           o.kind # "add", row' = row, hash' = hash, fails' = fails
    PROVE  StoreInv'
  <1>1. CountMidway(op[t], fails[op[t].key])
    BY DEF StoreInv
  <1>2. CountMidway(o, fails'[o.key])
    BY <1>1 DEF CountMidway
  <1>3. \A k \in Keys : /\ fails'[k] \in Nat /\ fails[k] <= fails'[k]
                        /\ IsClaim(o, k) => IsClaim(op[t], k)
    BY DEF TypeOK, IsClaim
  <1>4. QED
    BY <1>2, <1>3, StoreStart

\* First ends the transaction or goes on with its claim.
LEMMA StoreFirst ==
    ASSUME TypeOK, RotationInv, StoreInv, Serialised, NEW t \in Txns, First(t)
    PROVE  StoreInv'
  <1> DEFINE o == op[t]
             n == [o EXCEPT !.at = "update", !.next = Updated(o, row[o.key])]
  <1>1. /\ o \in OpType /\ o.at = "first"
        /\ row' = row /\ hash' = hash /\ fails' = fails
    BY DEF First, TypeOK, store
  <1>2. o.kind \notin {"edit", "none", "add"}
    BY <1>1 DEF RotationInv, RowHeld
  <1>3. CASE End(t)
    BY <1>1, <1>3, StoreEnd
  <1>4. CASE OpBecomes(t, n)
    <2>1. n.at = "update" /\ n.key = o.key /\ n.kind = o.kind /\ n.seen = o.seen
      BY <1>1 DEF OpType
    <2> HIDE DEF n
    <2>2. QED
      BY <1>1, <1>2, <1>4, <2>1, StoreGoesOn
  <1>5. QED
    BY <1>2, <1>3, <1>4 DEF First

\* A locked database ends the transaction or sends it back, with its claim.
LEMMA StoreLocked ==
    ASSUME TypeOK, RotationInv, StoreInv, Serialised, NEW t \in Txns, DatabaseLocked(t)
    PROVE  StoreInv'
  <1> DEFINE o == op[t]
             n == [o EXCEPT !.at = "first", !.next = AnyRow, !.tries = o.tries + 1]
  <1>1. /\ o \in OpType /\ o.at = "update"
        /\ row' = row /\ hash' = hash /\ fails' = fails
    BY DEF DatabaseLocked, TypeOK, store, Serialised
  <1>2. CASE End(t)
    BY <1>1, <1>2, StoreEnd
  <1>3. CASE o.kind \in Retried /\ OpBecomes(t, n)
    <2>1. n.at = "first" /\ n.key = o.key /\ n.kind = o.kind /\ n.seen = o.seen
      BY <1>1 DEF OpType
    <2> HIDE DEF n
    <2>2. o.kind # "add"
      BY <1>3 DEF Retried
    <2>3. QED
      BY <1>1, <1>3, <2>1, <2>2, StoreGoesOn
  <1>4. QED
    BY <1>2, <1>3 DEF DatabaseLocked

\* The Updates: what the plan will write follows from the row that is held,
\* and what it leaves alone follows that row already.
LEMMA StoreUpdate ==
    ASSUME TypeOK, RotationInv, StoreInv, Serialised, NEW t \in Txns, Update(t)
    PROVE  StoreInv'
  <1> DEFINE o == op[t]
             k == o.key
             q == Plan(o, o.next)
             n == [o EXCEPT !.at = "store", !.todo = q]
  <1>1. /\ o \in OpType /\ o.at = "update" /\ k \in Keys /\ OpBecomes(t, n)
        /\ row' = row /\ hash' = hash /\ fails' = fails
        /\ row[k] \in Row /\ o.next \in Row /\ hash[k] \in Hash
    BY DEF Update, TypeOK, store, OpType
  <1>2. /\ o.kind \notin {"edit", "none"}
        /\ o.kind = "add" => ActiveRow(o.next)
        /\ o.kind # "add" => row[k].live = "live" /\ o.next = Updated(o, row[k])
    BY <1>1 DEF RotationInv, RowHeld
  <1>3. /\ n.at = "store" /\ n.key = k /\ n.kind = o.kind /\ n.seen = o.seen
        /\ n.next = o.next /\ n.todo = q
    BY <1>1 DEF OpType
  <1>4. op'[t] = n /\ \A u \in Txns \ {t} : op'[u] = op[u]
    BY <1>1, OthersKeep
  <1>5. \A u \in Txns \ {t} : ~Working(u, k)
    BY <1>1, LockFreeNobody DEF Update
  <1>6. Follows(hash[k], row[k])
    BY <1>1, <1>5 DEF StoreInv, HashAtRest, Working
  <1>7. CountMidway(o, fails[k])
    BY DEF StoreInv
  <1> HIDE DEF n, q
  <1>8. /\ \A i \in 1..Len(q) : q[i] = "incr" => i = 1 /\ o.kind = "failure"
        /\ Has(q, "full") \/ Has(q, "reset") =>
               o.kind \in {"success", "restore", "enable", "add"}
        /\ Has(q, "hdel") <=> o.kind = "remove"
        /\ o.kind = "remove" => ~Has(q, "status")
        /\ o.kind = "add" => Has(q, "full")
        /\ \/ Has(q, "full") \/ Has(q, "hdel") \/ Has(q, "reset") \/ Has(q, "status")
           \/ o.kind = "failure" /\ ~Blacklists(o)
    BY <1>1, <1>2, PlanHash DEF q
  <1>9. o.kind # "add" =>
            /\ o.next.cred = row[k].cred
            /\ o.kind = "remove" => o.next.live = "deleted"
            /\ o.kind # "remove" => o.next.live = "live"
            /\ o.kind \in {"success", "enable", "restore"} => o.next.fc = 0
            /\ o.kind = "failure" /\ ~Blacklists(o) => o.next.status = row[k].status
    BY <1>1, <1>2, UpdatedFields
  <1>10. CountMidway(n, fails'[n.key])
    <2>1. /\ o.kind = "failure" => o.seen.fc + 1 <= fails[k]
          /\ o.kind = "add" => o.next.fc = 0
      BY <1>1, <1>7 DEF CountMidway
    <2>2. Has(q, "full") \/ Has(q, "reset") => o.next.fc = 0
      BY <1>8, <1>9, <2>1
    <2>3. QED
      BY <1>1, <1>3, <1>8, <2>1, <2>2 DEF CountMidway
  <1>11. HashMidway(n, hash'[n.key])
    <2>1. Has(q, "full") \/ Has(q, "reset") \/ Has(q, "status") \/ Has(q, "incr") =>
              o.next.live = "live"
      <3>1. o.kind # "remove" => o.next.live = "live"
        BY <1>2, <1>9 DEF ActiveRow
      <3>2. Has(q, "incr") => o.kind = "failure"
        BY <1>8 DEF Has
      <3>3. QED
        BY <1>8, <3>1, <3>2
    <2>2. Has(q, "hdel") => o.next.live # "live"
      BY <1>8, <1>9
    <2>3. CASE o.kind = "add" \/ Has(q, "full") \/ Has(q, "hdel")
      BY <1>3, <1>8, <2>1, <2>2, <2>3 DEF HashMidway, Rewritten, Restated
    <2>4. CASE o.kind # "add" /\ (Has(q, "reset") \/ Has(q, "status"))
      <3>1. o.kind # "remove" \/ Has(q, "hdel")
        BY <1>8
      <3>2. hash[k].cred \in {o.next.cred, NoCred}
        BY <1>2, <1>6, <1>9, <2>4 DEF Follows
      <3>3. QED
        BY <1>1, <1>3, <2>1, <2>2, <2>4, <3>2 DEF HashMidway, Rewritten, Restated
    <2>5. CASE o.kind = "failure" /\ ~Blacklists(o)
      <3>1. Follows(hash[k], o.next)
        BY <1>2, <1>6, <1>9, <2>5 DEF Follows
      <3>2. QED
        BY <1>1, <1>3, <2>1, <2>2, <3>1 DEF HashMidway, Restated
    <2>6. QED
      BY <1>8, <2>3, <2>4, <2>5
  <1>12. ASSUME NEW u \in Txns
         PROVE  /\ CountMidway(op'[u], fails'[op'[u].key])
                /\ HashMidway(op'[u], hash'[op'[u].key])
    <2>1. CASE u = t
      BY <1>4, <1>10, <1>11, <2>1
    <2>2. CASE u # t
      <3>1. \A j \in Keys : fails'[j] \in Nat /\ fails[j] <= fails'[j]
        BY <1>1 DEF TypeOK
      <3>2. QED
        BY <1>1, <2>2, <3>1, StoreOthers
    <2>3. QED
      BY <2>1, <2>2
  <1>13. ASSUME NEW j \in Keys PROVE CountAtRest(j)' /\ HashAtRest(j)'
    <2>1. CountAtRest(j) /\ HashAtRest(j)
      BY DEF StoreInv
    <2>2. HashAtRest(j)'
      BY <1>1, <1>3, <1>4, <2>1 DEF HashAtRest
    <2>3. IsClaim(n, j) => IsClaim(o, j)
      BY <1>1, <1>3 DEF IsClaim
    <2> DEFINE c == Cardinality(Claims(j))
               d == Cardinality(Claims(j)')
    <2>4. IsFiniteSet(Claims(j)') /\ c \in Nat /\ d \in Nat /\ d <= c
      <3>1. IsFiniteSet(Claims(j))
        BY <2>1 DEF CountAtRest
      <3>2. QED
        BY <1>1, <2>3, <3>1, ClaimsStep
    <2>5. /\ hash[j].fc + c <= fails[j] /\ row[j].fc <= fails[j]
          /\ hash[j].fc \in Nat /\ fails[j] \in Nat
      BY <2>1 DEF CountAtRest, TypeOK, Hash
    <2> HIDE DEF c, d
    <2>6. hash[j].fc + d <= fails[j]
      BY <2>4, <2>5
    <2>7. QED
      BY <1>1, <2>2, <2>4, <2>5, <2>6 DEF CountAtRest, d
  <1>14. QED
    BY <1>12, <1>13 DEF StoreInv

\* What one store call makes of each field of a hash.
LEMMA HashAfterFields ==
    ASSUME NEW c \in StoreCalls, NEW h \in Hash, NEW r \in Row,
           NEW n, n = HashAfter(c, h, r)
    PROVE  /\ c = "full" => n.status = r.status /\ n.cred = r.cred /\ n.fc = r.fc
           /\ c \in {"status", "reset"} => n.status = r.status /\ n.cred = h.cred
           /\ c = "status" => n.fc = h.fc
           /\ c = "reset" => n.fc = r.fc
           /\ c = "incr" => n.status = h.status /\ n.cred = h.cred /\ n.fc = h.fc + 1
           /\ c = "hdel" => n = EmptyHash
           /\ c \in {"lrem", "lpush"} => n = h
  <1>1. CASE c = "full"
    <2>1. n = FullHash(r)
      BY <1>1, Zenon DEF HashAfter
    <2>2. QED
      BY <1>1, <2>1 DEF FullHash
  <1>2. CASE c = "status"
    <2>1. n = [h EXCEPT !.status = r.status]
      BY <1>2, Zenon DEF HashAfter
    <2>2. QED
      BY <1>2, <2>1 DEF Hash
  <1>3. CASE c = "reset"
    <2>1. n = [h EXCEPT !.status = r.status, !.fc = r.fc]
      BY <1>3, Zenon DEF HashAfter
    <2>2. QED
      BY <1>3, <2>1 DEF Hash
  <1>4. CASE c = "incr"
    <2>1. n = [h EXCEPT !.fc = h.fc + 1]
      BY <1>4, Zenon DEF HashAfter
    <2>2. QED
      BY <1>4, <2>1 DEF Hash
  <1>5. CASE c = "hdel"
    BY <1>5, Zenon DEF HashAfter
  <1>6. CASE c \in {"lrem", "lpush"}
    <2>1. n = h
      BY <1>6 DEF HashAfter
    <2>2. QED
      BY <1>6, <2>1
  <1>7. QED
    BY <1>1, <1>2, <1>3, <1>4, <1>5, <1>6 DEF StoreCalls

\* One call to the store takes the hash a step towards the struct.
LEMMA StoreStore ==
    ASSUME TypeOK, RotationInv, StoreInv, NEW t \in Txns, StoreStep(t)
    PROVE  StoreInv'
  <1> DEFINE o == op[t]
             k == o.key
             q == o.todo
             c == Head(q)
             h == hash[k]
             g == HashAfter(c, h, o.next)
             n == [o EXCEPT !.todo = Tail(q)]
  <1>1. /\ o \in OpType /\ o.at = "store" /\ k \in Keys /\ OpBecomes(t, n)
        /\ row' = row /\ fails' = fails /\ q \in Seq(StoreCalls) /\ q # <<>>
        /\ o.next \in Row /\ h \in Hash /\ c \in StoreCalls
    BY TodoTypes DEF StoreStep, TypeOK, OpType
  <1>2. /\ hash' = [hash EXCEPT ![k] = g] /\ hash'[k] = g
        /\ \A j \in Keys \ {k} : hash'[j] = hash[j]
    BY <1>1 DEF StoreStep, Call, TypeOK
  <1>3. /\ n.at = "store" /\ n.key = k /\ n.kind = o.kind /\ n.seen = o.seen
        /\ n.next = o.next /\ n.todo = Tail(q)
    BY <1>1 DEF OpType
  <1>4. op'[t] = n /\ \A u \in Txns \ {t} : op'[u] = op[u]
    BY <1>1, OthersKeep
  <1>5. \A u \in Txns \ {t} : ~Working(u, k)
    BY <1>1 DEF RotationInv, RowHeld, Working
  <1>6. CountMidway(o, fails[k]) /\ HashMidway(o, h)
    BY DEF StoreInv
  <1>7. ASSUME NEW x PROVE Has(q, x) <=> c = x \/ Has(Tail(q), x)
    BY <1>1, PendingTail DEF Has
  <1>8. /\ ~Has(Tail(q), "incr")
        /\ c = "incr" => o.kind = "failure"
    <2>1. /\ \A i \in 1..Len(q) : q[i] = "incr" => i = 1 /\ o.kind = "failure"
      BY <1>1, <1>6 DEF CountMidway
    <2>2. Len(q) \in Nat /\ Len(q) >= 1 /\ c = q[1]
      BY <1>1
    <2>3. \A i \in 1..Len(Tail(q)) : i + 1 \in 1..Len(q) /\ Tail(q)[i] = q[i + 1] /\ i + 1 # 1
      <3>1. Len(Tail(q)) = Len(q) - 1 /\ Len(q) \in Nat
        BY <1>1
      <3>2. \A i \in 1..Len(Tail(q)) : Tail(q)[i] = q[i + 1]
        BY <1>1
      <3> DEFINE l == Len(q)
                 m == Len(Tail(q))
      <3> HIDE DEF l, m
      <3>3. \A i \in 1..m : i + 1 \in 1..l /\ i + 1 # 1
        BY <3>1 DEF l, m
      <3>4. QED
        BY <3>2, <3>3 DEF l, m
    <2> HIDE DEF q, c
    <2>4. c = "incr" => o.kind = "failure"
      <3>1. 1 \in 1..Len(q)
        BY <2>2
      <3>2. QED
        BY <2>1, <2>2, <3>1, Zenon
    <2>5. ~Has(Tail(q), "incr")
      BY <2>1, <2>3 DEF Has
    <2>6. QED
      BY <2>4, <2>5
  <1>9. /\ c = "full" => g.status = o.next.status /\ g.cred = o.next.cred /\ g.fc = o.next.fc
        /\ c \in {"status", "reset"} => g.status = o.next.status /\ g.cred = h.cred
        /\ c = "status" => g.fc = h.fc
        /\ c = "reset" => g.fc = o.next.fc
        /\ c = "incr" => g.status = h.status /\ g.cred = h.cred /\ g.fc = h.fc + 1
        /\ c = "hdel" => g = EmptyHash
        /\ c \in {"lrem", "lpush"} => g = h
    <2>1. g = HashAfter(c, h, o.next)
      OBVIOUS
    <2> HIDE DEF g, c, h
    <2>2. QED
      BY <1>1, <2>1, HashAfterFields
  <1> HIDE DEF n, q, c, g
  <1>10. CountMidway(n, fails'[n.key])
    <2>1. /\ o.kind = "failure" => o.seen.fc + 1 <= fails[k]
          /\ o.kind = "add" => o.next.fc = 0
          /\ Has(q, "full") \/ Has(q, "reset") => o.next.fc = 0
      BY <1>1, <1>6 DEF CountMidway, q
    <2>2. \A i \in 1..Len(Tail(q)) : Tail(q)[i] # "incr"
      BY <1>8 DEF Has
    <2>3. Has(Tail(q), "full") \/ Has(Tail(q), "reset") => o.next.fc = 0
      BY <1>7, <2>1
    <2>4. QED
      BY <1>1, <1>3, <2>1, <2>2, <2>3 DEF CountMidway
  <1>11. HashMidway(n, hash'[n.key])
    <2>1. /\ Has(q, "full") \/ Has(q, "reset") \/ Has(q, "status") \/ Has(q, "incr") =>
                 o.next.live = "live"
          /\ Has(q, "hdel") => o.next.live # "live"
          /\ \/ Has(q, "full") \/ Has(q, "hdel")
             \/ (Has(q, "reset") \/ Has(q, "status")) /\ h.cred \in {o.next.cred, NoCred}
             \/ Follows(h, o.next)
      BY <1>1, <1>6 DEF HashMidway, Rewritten, Restated, q
    <2> DEFINE p == Tail(q)
    <2> SUFFICES \/ Has(p, "full") \/ Has(p, "hdel")
                 \/ (Has(p, "reset") \/ Has(p, "status")) /\ g.cred \in {o.next.cred, NoCred}
                 \/ Follows(g, o.next)
      <3>1. /\ Has(p, "full") \/ Has(p, "reset") \/ Has(p, "status") \/ Has(p, "incr") =>
                   o.next.live = "live"
            /\ Has(p, "hdel") => o.next.live # "live"
        BY <1>7, <2>1
      <3> HIDE DEF p
      <3>2. n.todo = p
        BY <1>3 DEF p
      <3>3. QED
        BY <1>2, <1>3, <3>1, <3>2 DEF HashMidway, Rewritten, Restated
    <2> HIDE DEF p
    <2>2. \A x : Has(q, x) <=> c = x \/ Has(p, x)
      BY <1>7 DEF p
    <2>3. CASE c = "full"
      BY <1>9, <2>1, <2>2, <2>3 DEF Follows
    <2>4. CASE c = "hdel"
      BY <1>9, <2>1, <2>2, <2>4 DEF Follows
    <2>5. CASE c \in {"status", "reset"}
      <3>1. o.next.live = "live" /\ g.status = o.next.status /\ g.cred = h.cred
        BY <1>9, <2>1, <2>2, <2>5
      <3>2. QED
        BY <2>1, <2>2, <2>5, <3>1 DEF Follows
    <2>6. CASE c = "incr"
      <3>1. o.next.live = "live" /\ g.status = h.status /\ g.cred = h.cred
        BY <1>9, <2>1, <2>2, <2>6
      <3>2. QED
        BY <2>1, <2>2, <2>6, <3>1 DEF Follows
    <2>7. CASE c \in {"lrem", "lpush"}
      <3>1. g = h
        BY <1>9, <2>7
      <3>2. QED
        BY <2>1, <2>2, <2>7, <3>1
    <2>8. QED
      BY <1>1, <2>3, <2>4, <2>5, <2>6, <2>7 DEF StoreCalls
  <1>12. ASSUME NEW u \in Txns
         PROVE  /\ CountMidway(op'[u], fails'[op'[u].key])
                /\ HashMidway(op'[u], hash'[op'[u].key])
    <2>1. CASE u = t
      BY <1>4, <1>10, <1>11, <2>1
    <2>2. CASE u # t
      <3>1. \A j \in Keys : fails'[j] \in Nat /\ fails[j] <= fails'[j]
        BY <1>1 DEF TypeOK
      <3>2. \A v \in Txns \ {t} : op[v].at = "store" => op[v].key \in Keys \ {k}
        BY <1>5 DEF TypeOK, Working
      <3>3. QED
        BY <1>1, <1>2, <2>2, <3>1, <3>2, StoreOthers
    <2>3. QED
      BY <2>1, <2>2
  <1>13. ASSUME NEW j \in Keys PROVE CountAtRest(j)' /\ HashAtRest(j)'
    <2>1. CountAtRest(j) /\ HashAtRest(j)
      BY DEF StoreInv
    <2>2. HashAtRest(j)'
      <3>1. CASE j = k
        BY <1>3, <1>4, <3>1 DEF HashAtRest
      <3>2. CASE j # k
        BY <1>1, <1>2, <1>3, <1>4, <2>1, <3>2 DEF HashAtRest
      <3>3. QED
        BY <3>1, <3>2
    <2>3. /\ IsClaim(n, j) => IsClaim(o, j)
          /\ c = "incr" => IsClaim(o, k) /\ ~IsClaim(n, k)
      <3>1. Has(q, "incr") <=> c = "incr"
        BY <1>7, <1>8
      <3>2. QED
        BY <1>1, <1>3, <1>8, <3>1 DEF IsClaim, q
    <2> DEFINE e == Cardinality(Claims(j))
               d == Cardinality(Claims(j)')
    <2>4. IsFiniteSet(Claims(j)') /\ e \in Nat /\ d \in Nat /\ d <= e
          /\ (IsClaim(o, j) /\ ~IsClaim(n, j) => d + 1 = e)
      <3>1. IsFiniteSet(Claims(j))
        BY <2>1 DEF CountAtRest
      <3>2. QED
        BY <1>1, <2>3, <3>1, ClaimsStep
    <2>5. /\ hash[j].fc + e <= fails[j] /\ row[j].fc <= fails[j]
          /\ hash[j].fc \in Nat /\ fails[j] \in Nat
      BY <2>1 DEF CountAtRest, TypeOK, Hash
    <2> HIDE DEF e, d
    <2>6. hash'[j].fc + d <= fails[j]
      <3>1. CASE j # k
        BY <1>2, <2>4, <2>5, <3>1
      <3>2. CASE j = k /\ c = "incr"
        BY <1>2, <1>9, <2>3, <2>4, <2>5, <3>2
      <3>3. CASE j = k /\ c \in {"full", "reset"}
        <4>1. o.next.fc = 0
          BY <1>1, <1>6, <1>7, <3>3 DEF CountMidway, q
        <4>2. QED
          BY <1>2, <1>9, <2>4, <2>5, <3>3, <4>1
      <3>4. CASE j = k /\ c = "hdel"
        BY <1>2, <1>9, <2>4, <2>5, <3>4 DEF EmptyHash
      <3>5. CASE j = k /\ c \in {"status", "lrem", "lpush"}
        BY <1>2, <1>9, <2>4, <2>5, <3>5
      <3>6. QED
        BY <1>1, <3>1, <3>2, <3>3, <3>4, <3>5 DEF StoreCalls
    <2>7. QED
      BY <1>1, <2>2, <2>4, <2>5, <2>6 DEF CountAtRest, d
  <1>14. QED
    BY <1>12, <1>13 DEF StoreInv

\* What a commit writes: the struct that the transaction has held.
LEMMA CommitWrites ==
    ASSUME TypeOK, RotationInv, NEW t \in Txns, Commit(t)
    PROVE  /\ op[t].key \in Keys
           /\ row' = [row EXCEPT ![op[t].key] = op[t].next]
           /\ op[t].kind # "add" => /\ row[op[t].key].live = "live"
                                    /\ op[t].next = Updated(op[t], row[op[t].key])
  <1> DEFINE o == op[t]
             k == o.key
  <1>1. k \in Keys /\ o.at = "store"
    BY DEF Commit, TypeOK
  <1>2. /\ o.kind \notin {"edit", "none"}
        /\ o.kind # "add" => row[k].live = "live" /\ o.next = Updated(o, row[k])
    BY <1>1 DEF RotationInv, RowHeld
  <1>3. CASE o.kind = "add"
    BY <1>1, <1>2, <1>3 DEF Commit
  <1>4. CASE o.kind # "add"
    <2>1. row' = [row EXCEPT ![k] = Updated(o, row[k])]
      BY <1>2, <1>4, Zenon DEF Commit
    <2>2. QED
      BY <1>1, <1>2, <1>4, <2>1
  <1>5. QED
    BY <1>3, <1>4

\* The commit: nothing is to come, so the hash follows what the row becomes.
LEMMA StoreCommit ==
    ASSUME TypeOK, RotationInv, StoreInv, NEW t \in Txns, Commit(t)
    PROVE  StoreInv'
  <1> DEFINE o == op[t]
             k == o.key
  <1>1. /\ o \in OpType /\ o.at = "store" /\ o.todo = <<>> /\ OpBecomes(t, IdleOp)
        /\ hash' = hash /\ fails' = fails /\ IdleOp.at = "idle" /\ IdleOp.kind = "none"
    BY DEF Commit, TypeOK, store, End, IdleOp
  <1>2. /\ k \in Keys /\ row' = [row EXCEPT ![k] = o.next]
        /\ o.kind # "add" => row[k].live = "live" /\ o.next = Updated(o, row[k])
    BY CommitWrites
  <1>3. row'[k] = o.next /\ \A j \in Keys \ {k} : row'[j] = row[j]
    BY <1>2 DEF TypeOK
  <1>4. op'[t] = IdleOp /\ \A u \in Txns \ {t} : op'[u] = op[u]
    BY <1>1, OthersKeep
  <1>5. CountMidway(o, fails[k]) /\ HashMidway(o, hash[k])
    BY DEF StoreInv
  <1>6. \A x : ~Has(o.todo, x)
    BY <1>1 DEF Has
  <1>7. Follows(hash[k], row'[k])
    BY <1>1, <1>3, <1>5, <1>6 DEF HashMidway, Rewritten, Restated
  <1>8. row'[k].fc <= fails[k]
    <2>1. CountAtRest(k) /\ fails[k] \in Nat
      BY <1>2 DEF StoreInv, TypeOK
    <2>2. CASE o.kind = "add"
      BY <1>1, <1>3, <1>5, <2>1, <2>2 DEF CountMidway
    <2>3. CASE o.kind # "add"
      <3>1. row[k] \in Row /\ o.seen.fc + 1 \in Nat
        BY <1>1, <1>2 DEF TypeOK, OpType, Hash
      <3>2. o.kind = "failure" => o.seen.fc + 1 <= fails[k]
        BY <1>1, <1>5 DEF CountMidway
      <3>3. \/ o.next.fc = 0 \/ o.next.fc = row[k].fc
            \/ o.kind = "failure" /\ o.next.fc = o.seen.fc + 1
        BY <1>1, <1>2, <2>3, <3>1, UpdatedFields
      <3>4. QED
        BY <1>3, <2>1, <3>1, <3>2, <3>3 DEF CountAtRest
    <2>4. QED
      BY <2>2, <2>3
  <1>9. ASSUME NEW u \in Txns
        PROVE  /\ CountMidway(op'[u], fails'[op'[u].key])
               /\ HashMidway(op'[u], hash'[op'[u].key])
    <2>1. CASE u = t
      BY <1>1, <1>4, <2>1 DEF CountMidway, HashMidway
    <2>2. CASE u # t
      <3>1. \A j \in Keys : fails'[j] \in Nat /\ fails[j] <= fails'[j]
        BY <1>1 DEF TypeOK
      <3>2. QED
        BY <1>1, <2>2, <3>1, StoreOthers
    <2>3. QED
      BY <2>1, <2>2
  <1>10. ASSUME NEW j \in Keys PROVE CountAtRest(j)' /\ HashAtRest(j)'
    <2>1. CountAtRest(j) /\ HashAtRest(j)
      BY DEF StoreInv
    <2>2. HashAtRest(j)'
      <3>1. CASE j = k
        BY <1>1, <1>7, <3>1 DEF HashAtRest
      <3>2. CASE j # k
        BY <1>1, <1>3, <1>4, <2>1, <3>2 DEF HashAtRest
      <3>3. QED
        BY <3>1, <3>2
    <2>3. row'[j].fc <= fails[j]
      BY <1>3, <1>8, <2>1 DEF CountAtRest
    <2> DEFINE e == Cardinality(Claims(j))
               d == Cardinality(Claims(j)')
    <2>4. IsFiniteSet(Claims(j)') /\ e \in Nat /\ d \in Nat /\ d <= e
      <3>1. IsFiniteSet(Claims(j)) /\ ~IsClaim(IdleOp, j)
        BY <1>1, <2>1 DEF CountAtRest, IsClaim
      <3>2. QED
        BY <1>1, <3>1, ClaimsStep
    <2>5. hash[j].fc + e <= fails[j] /\ hash[j].fc \in Nat /\ fails[j] \in Nat
      BY <2>1 DEF CountAtRest, TypeOK, Hash
    <2> HIDE DEF e, d
    <2>6. hash[j].fc + d <= fails[j]
      BY <2>4, <2>5
    <2>7. QED
      BY <1>1, <2>2, <2>3, <2>4, <2>6 DEF CountAtRest, d
  <1>11. QED
    BY <1>9, <1>10 DEF StoreInv

(* In the loaded pool the hashes are those of the rows, and nothing was reported. *)
LEMMA InitStore == Init => StoreInv
  <1> SUFFICES ASSUME Init PROVE StoreInv
    OBVIOUS
  <1>1. \A t \in Txns : op[t].at = "idle" /\ op[t].kind = "none"
    BY DEF Init, IdleOp
  <1>2. ASSUME NEW k \in Keys PROVE CountAtRest(k)
    <2>1. Claims(k) = {}
      BY <1>1 DEF Claims, IsClaim
    <2>2. row[k].fc = 0 /\ fails[k] = 0
      BY <1>2 DEF Init, AnyRow
    <2>3. hash[k].fc = 0
      BY <2>2 DEF Init, FullHash, EmptyHash
    <2>4. QED
      BY <2>1, <2>2, <2>3, FS_EmptySet DEF CountAtRest
  <1>3. ASSUME NEW k \in Keys PROVE HashAtRest(k)
    <2>1. hash[k] = IF row[k].live = "live" THEN FullHash(row[k]) ELSE EmptyHash
      BY DEF Init
    <2>2. QED
      BY <2>1 DEF HashAtRest, Follows, FullHash
  <1>4. QED
    BY <1>1, <1>2, <1>3 DEF StoreInv, CountMidway, HashMidway

(* With serialised transactions every step keeps it. *)
LEMMA NextStore ==
    ASSUME Serialised, TypeOK, RotationInv, StoreInv, [Next]_vars
    PROVE  StoreInv'
  <1>1. hash \in [Keys -> Hash]
    BY DEF TypeOK
  <1>2. CASE UNCHANGED vars
    BY <1>2, StoreFrame DEF vars
  <1>3. ASSUME NEW t \in Txns, TxnBegin(t) \/ TxnStep(t) \/ TxnFault(t)
        PROVE  StoreInv'
    <2>1. ~StoreFails(t)
      BY DEF StoreFails, Serialised
    <2>2. QED
      BY <1>3, <2>1, StoreBegin, StoreFirst, StoreUpdate, StoreStore,
         StoreCommit, StoreLocked DEF TxnStep, TxnFault
  <1>4. ASSUME NEW c \in Callers, SelectStart(c) \/ SelectStep(c) \/ SelectFails(c)
        PROVE  StoreInv'
    <2>1. op' = op /\ row' = row /\ fails' = fails
      BY <1>4 DEF SelectStep, SelectStart, SelectRotate, SelectRead, SelectDrop,
                  SelectForget, SelectFails
    <2>2. CASE SelectStart(c) \/ SelectRotate(c) \/ SelectRead(c) \/ SelectFails(c)
      <3>1. hash' = hash
        BY <2>2 DEF SelectStart, SelectRotate, SelectRead, SelectFails, store
      <3>2. QED
        BY <2>1, <3>1, StoreFrame
    <2>3. CASE SelectDrop(c) \/ SelectForget(c)
      <3>1. \A k \in Keys : hash'[k] = hash[k] \/ hash'[k] = EmptyHash
        BY <1>1, <2>3 DEF SelectDrop, SelectForget, Call, HashAfter, store
      <3>2. QED
        BY <2>1, <3>1, StoreFrame
    <2>4. QED
      BY <1>4, <2>2, <2>3 DEF SelectStep
  <1>5. ASSUME NEW k \in Keys, CoolDownKey(k) \/ CooldownExpires(k) PROVE StoreInv'
    <2>1. op' = op /\ row' = row /\ hash' = hash /\ fails' = fails
      BY <1>5 DEF CoolDownKey, CooldownExpires, store
    <2>2. QED
      BY <2>1, StoreFrame
  <1>6. ~Crash /\ Syncers = {}
    BY DEF Crash, Serialised
  <1>7. QED
    BY <1>2, <1>3, <1>4, <1>5, <1>6 DEF Next

\* With serialised transactions StoreInv holds of every reachable state.
THEOREM StoreCorrect == ASSUME Serialised PROVE Spec => []StoreInv
  <1>1. TypeOK /\ RotationInv /\ StoreInv /\ [Next]_vars => StoreInv'
    BY NextStore
  <1>2. QED
    BY <1>1, InitStore, TypeCorrect, RotationCorrect, PTL DEF Spec

\* However many goroutines report failures of a key at once, and in whatever
\* order their reads, increments and commits fall, neither the store's count
\* nor the table's is ever ahead of the failures reported (handleFailure).
THEOREM CountNeverAheadCorrect == ASSUME Serialised PROVE Spec => []CountNeverAhead
  <1>1. TypeOK /\ StoreInv => CountNeverAhead
    <2> SUFFICES ASSUME TypeOK, StoreInv, NEW k \in Keys
                 PROVE  hash[k].fc <= fails[k] /\ row[k].fc <= fails[k]
      BY DEF CountNeverAhead
    <2>1. CountAtRest(k)
      BY DEF StoreInv
    <2>2. hash[k].fc \in Nat /\ fails[k] \in Nat
      BY DEF TypeOK, Hash
    <2>3. Cardinality(Claims(k)) \in Nat
      BY <2>1, FS_CardinalityType DEF CountAtRest
    <2>4. QED
      BY <2>1, <2>2, <2>3 DEF CountAtRest
  <1>2. QED
    BY <1>1, StoreCorrect, TypeCorrect, PTL

\* A key that nobody works on has a hash that says what its row says, or
\* nothing, and a removed key left no hash behind (apiKeyToMap, HSet, Delete).
THEOREM StoreFollowsCorrect == ASSUME Serialised PROVE Spec => []StoreFollows
  <1>1. StoreInv => StoreFollows
    <2> SUFFICES ASSUME StoreInv, NEW k \in Keys, Quiet(k)
                 PROVE  Follows(hash[k], row[k])
      BY DEF StoreFollows, Follows
    <2>1. QED
      BY DEF StoreInv, HashAtRest, Quiet
  <1>2. QED
    BY <1>1, StoreCorrect, PTL

\* Only the commit of a failure that read Threshold - 1 others blacklists.
BlacklistReported(t, k) ==
    /\ op[t].kind = "failure" /\ op[t].key = k /\ op'[t].at = "idle"
    /\ row[k].status # "invalid" /\ row'[k].status = "invalid"
    => fails[k] >= Threshold

(* Every step keeps to it: what blacklists is a commit, of this goroutine. *)
LEMMA BlacklistStep ==
    ASSUME Serialised, TypeOK, RotationInv, StoreInv, [Next]_vars,
           NEW t \in Txns, NEW k \in Keys
    PROVE  BlacklistReported(t, k)
  <1> SUFFICES ASSUME op[t].kind = "failure", op[t].key = k, op'[t].at = "idle",
                      row[k].status # "invalid", row'[k].status = "invalid"
               PROVE  fails[k] >= Threshold
    BY DEF BlacklistReported
  <1>1. PICK u \in Txns : Commit(u)
    <2>1. row' # row
      OBVIOUS
    <2>2. ASSUME NEW u \in Txns, TxnBegin(u) \/ TxnStep(u) \/ TxnFault(u)
          PROVE  Commit(u)
      <3>1. ~EditRow(u, k)
        BY DEF EditRow, Begin, Serialised
      <3>2. QED
        BY <2>1, <2>2, <3>1
           DEF TxnBegin, TxnStep, TxnFault, SuccessRead, FailureRead, AdminBegin, AddBegin,
               EditRow, Begin, First, Update, StoreStep, DatabaseLocked, StoreFails, Serialised
    <2>3. ~(\E c \in Callers : SelectStart(c) \/ SelectStep(c) \/ SelectFails(c))
      BY <2>1 DEF SelectStep, SelectStart, SelectRotate, SelectRead, SelectDrop,
                  SelectForget, SelectFails
    <2>4. ~(\E j \in Keys : CoolDownKey(j) \/ CooldownExpires(j))
      BY <2>1 DEF CoolDownKey, CooldownExpires
    <2>5. ~Crash /\ Syncers = {} /\ ~UNCHANGED vars
      BY <2>1 DEF Crash, Serialised, vars
    <2>6. QED
      BY <2>2, <2>3, <2>4, <2>5 DEF Next
  <1>2. /\ op[u].key \in Keys
        /\ row' = [row EXCEPT ![op[u].key] = op[u].next]
        /\ op[u].kind # "add" => /\ row[op[u].key].live = "live"
                                 /\ op[u].next = Updated(op[u], row[op[u].key])
    BY <1>1, CommitWrites
  <1>3. CountMidway(op[t], fails[op[t].key])
    BY DEF StoreInv
  <1>4. u = t
    <2>1. SUFFICES ASSUME u # t PROVE FALSE
      OBVIOUS
    <2>2. op'[t] = op[t]
      BY <1>1, <2>1, OthersKeep DEF Commit, End
    <2>3. QED
      BY <1>3, <2>2 DEF CountMidway
  <1>5. /\ op[t] \in OpType /\ row[k] \in Row /\ row'[k] = Updated(op[t], row[k])
        /\ row[k].live = "live" /\ op[t].at = "store"
    BY <1>1, <1>2, <1>4 DEF TypeOK, Commit
  <1>6. Blacklists(op[t])
    BY <1>5, UpdatedFields
  <1>7. op[t].seen.fc + 1 <= fails[k]
    BY <1>3, <1>5 DEF CountMidway
  <1>8. op[t].seen.fc \in Nat /\ fails[k] \in Nat /\ Threshold \in Nat
    BY <1>5, KeyPoolAssumption DEF OpType, Hash, TypeOK, KeyPoolAssumption
  <1>9. QED
    BY <1>6, <1>7, <1>8 DEF Blacklists

\* A key is blacklisted by failures only when Threshold of them were counted
\* against it, whatever the goroutines read before their transactions.
THEOREM NoPrematureBlacklistCorrect == ASSUME Serialised PROVE Spec => NoPrematureBlacklist
  <1>1. TypeOK /\ RotationInv /\ StoreInv /\ [Next]_vars
            => \A t \in Txns, k \in Keys : BlacklistReported(t, k)
    BY BlacklistStep
  <1>2. QED
    BY <1>1, TypeCorrect, RotationCorrect, StoreCorrect, PTL
       DEF Spec, NoPrematureBlacklist, BlacklistReported

-----------------------------------------------------------------------------
(* What a master serves when it has loaded its store at start              *)

\* Until the server accepts work one goroutine at most is at work, and a load
\* has written the hash of every live row that it has passed.
DownInv ==
    ~up =>
        /\ \A t \in Txns : op[t].at = "idle"
        /\ \A c \in Callers : sel[c].at = "idle"
        /\ \A s, q \in Syncers : scan[s].mode # "idle" /\ scan[q].mode # "idle" => s = q
        /\ \A s \in Syncers : scan[s].mode \in {"load", "push"} =>
              /\ scan[s].snap = row
              /\ \A k \in Keys \ scan[s].left :
                    row[k].live = "live" => hash[k] = FullHash(row[k])
        /\ \A s \in Syncers : scan[s].mode = "push" =>
              scan[s].left = {} /\ \A k \in Keys : listed[k] = 0

\* While the server is down, a realignment is all there is.
LEMMA DownSteps ==
    ASSUME TypeOK, DownInv, ~up, Next
    PROVE  \/ UNCHANGED <<row, store, op, sel, scan, up>>
           \/ \E s \in Syncers : ScanStep(s) \/ LoadFind(s)
  <1>1. ASSUME NEW t \in Txns PROVE ~(TxnBegin(t) \/ TxnStep(t) \/ TxnFault(t))
    <2>1. op[t].at = "idle"
      BY DEF DownInv
    <2>2. QED
      BY <2>1 DEF TxnBegin, SuccessRead, FailureRead, AdminBegin, AddBegin, EditRow, Begin,
                  TxnStep, TxnFault, First, Update, StoreStep, Commit, DatabaseLocked, StoreFails
  <1>2. ASSUME NEW c \in Callers
        PROVE  ~(SelectStart(c) \/ SelectStep(c) \/ SelectFails(c))
    <2>1. sel[c].at = "idle"
      BY DEF DownInv
    <2>2. QED
      BY <2>1 DEF SelectStart, SelectStep, SelectRotate, SelectRead, SelectDrop,
                  SelectForget, SelectFails
  <1>3. \A s \in Syncers, k \in Keys : ~PeerMerge(s, k)
    BY DEF PeerMerge
  <1>4. ~Crash
    BY DEF Crash
  <1>5. ASSUME NEW k \in Keys, CoolDownKey(k) \/ CooldownExpires(k)
        PROVE  UNCHANGED <<row, store, op, sel, scan, up>>
    BY <1>5 DEF CoolDownKey, CooldownExpires
  <1>6. QED
    BY <1>1, <1>2, <1>3, <1>4, <1>5 DEF Next

\* A step of the realignment that is alone.
LEMMA DownScan ==
    ASSUME "scan" \notin StoreFaults, TypeOK, DownInv, ~up,
           NEW s \in Syncers, ScanStep(s) \/ LoadFind(s)
    PROVE  DownInv'
  <1> DEFINE z == scan[s]
             y == scan'[s]
  <1>1. /\ op' = op /\ sel' = sel /\ row' = row
        /\ \A t \in Txns : op[t].at = "idle"
        /\ \A c \in Callers : sel[c].at = "idle"
    BY DEF DownInv, ScanStep, LoadFind, SyncFind, SyncKey, SyncStep, SyncDone, LoadKey,
           LoadClear, LoadPush
  <1>2. /\ scan \in [Syncers -> ScanType] /\ z \in ScanType
        /\ hash \in [Keys -> Hash] /\ row \in [Keys -> Row]
    BY DEF TypeOK
  <1>3. \A q \in Syncers \ {s} : scan[q].mode = "idle"
    <2>1. CASE SyncFind(s) \/ LoadFind(s)
      BY <2>1 DEF SyncFind, LoadFind, DownInv
    <2>2. CASE SyncKey(s) \/ SyncStep(s) \/ SyncDone(s) \/ LoadKey(s) \/ LoadClear(s) \/ LoadPush(s)
      <3>1. z.mode # "idle"
        BY <2>2 DEF SyncKey, SyncStep, SyncDone, LoadKey, LoadClear, LoadPush
      <3>2. QED
        BY <3>1 DEF DownInv
    <2>3. QED
      BY <2>1, <2>2 DEF ScanStep
  <1>4. ASSUME NEW x, ScanBecomes(s, x)
        PROVE  y = x /\ \A q \in Syncers \ {s} : scan'[q] = scan[q]
    BY <1>2, <1>4 DEF ScanBecomes
  <1>5. ASSUME up' = TRUE PROVE DownInv'
    BY <1>5 DEF DownInv
  <1>6. ASSUME \A q \in Syncers \ {s} : scan'[q] = scan[q],
               y.mode \in {"load", "push"} =>
                   /\ y.snap = row
                   /\ \A k \in Keys \ y.left :
                         row[k].live = "live" => hash'[k] = FullHash(row[k]),
               y.mode = "push" => y.left = {} /\ \A k \in Keys : listed'[k] = 0
        PROVE  DownInv'
    BY <1>1, <1>3, <1>6 DEF DownInv
  <1>7. CASE SyncFind(s)
    <2>1. PICK x : x = [IdleScan EXCEPT !.mode = "sync", !.snap = row,
                                        !.left = {k \in Keys : row[k].live # "absent"}]
      OBVIOUS
    <2>2. ScanBecomes(s, x)
      BY <1>7, <2>1, Zenon DEF SyncFind
    <2>3. x.mode = "sync"
      BY <2>1 DEF IdleScan
    <2>4. QED
      BY <1>4, <1>6, <2>2, <2>3
  <1>8. CASE SyncKey(s)
    <2>1. PICK k, q : ScanBecomes(s, [z EXCEPT !.key = k, !.left = z.left \ {k}, !.todo = q])
      BY <1>8 DEF SyncKey
    <2>2. PICK x : x = [z EXCEPT !.key = k, !.left = z.left \ {k}, !.todo = q]
      OBVIOUS
    <2>3. x.mode = "sync"
      BY <1>2, <1>8, <2>2 DEF SyncKey, ScanType
    <2>4. QED
      BY <1>4, <1>6, <2>1, <2>2, <2>3
  <1>9. CASE SyncStep(s)
    <2>1. PICK x : ScanBecomes(s, x) /\ x = [z EXCEPT !.todo = Tail(z.todo)]
      BY <1>9 DEF SyncStep
    <2>2. x.mode = "sync"
      BY <1>2, <1>9, <2>1 DEF SyncStep, ScanType
    <2>3. QED
      BY <1>4, <1>6, <2>1, <2>2
  <1>10. CASE SyncDone(s) \/ LoadPush(s)
    BY <1>5, <1>10 DEF SyncDone, LoadPush, ScanDone
  <1>11. CASE LoadFind(s)
    <2>1. PICK x : x = [IdleScan EXCEPT !.mode = "load", !.snap = row,
                                        !.left = {k \in Keys : row[k].live = "live"}]
      OBVIOUS
    <2>2. ScanBecomes(s, x)
      BY <1>11, <2>1, Zenon DEF LoadFind
    <2>3. /\ x.mode = "load" /\ x.snap = row
          /\ x.left = {k \in Keys : row[k].live = "live"}
      BY <2>1 DEF IdleScan
    <2>4. QED
      BY <1>4, <1>6, <2>2, <2>3
  <1>12. CASE LoadKey(s)
    <2>1. PICK k \in z.left : /\ Call("full", k, z.snap[k])
                              /\ ScanBecomes(s, [z EXCEPT !.left = z.left \ {k}])
      BY <1>12 DEF LoadKey
    <2>2. z.mode = "load" /\ z.snap = row
      BY <1>12 DEF LoadKey, DownInv
    <2>3. \A j \in Keys \ z.left : row[j].live = "live" => hash[j] = FullHash(row[j])
      BY <2>2 DEF DownInv
    <2>4. PICK x : x = [z EXCEPT !.left = z.left \ {k}]
      OBVIOUS
    <2>5. x.mode = "load" /\ x.snap = row /\ x.left = z.left \ {k}
      BY <1>2, <2>2, <2>4 DEF ScanType
    <2>6. /\ HashAfter("full", hash[k], row[k]) = FullHash(row[k])
          /\ hash' = [hash EXCEPT ![k] = HashAfter("full", hash[k], row[k])]
      BY <2>1, <2>2 DEF HashAfter, Call
    <2>7. \A j \in Keys : hash'[j] = IF j = k THEN FullHash(row[k]) ELSE hash[j]
      BY <1>2, <2>6
    <2>8. \A j \in Keys \ x.left : row[j].live = "live" => hash'[j] = FullHash(row[j])
      BY <2>3, <2>5, <2>7
    <2>9. QED
      BY <1>4, <1>6, <2>1, <2>4, <2>5, <2>8
  <1>13. CASE LoadClear(s)
    <2>1. CASE ScanDone(s)
      BY <1>5, <2>1 DEF ScanDone
    <2>2. CASE /\ listed' = [k \in Keys |-> 0]
               /\ ScanBecomes(s, [z EXCEPT !.mode = "push"])
      <3>1. z.mode = "load" /\ z.left = {} /\ hash' = hash
        BY <1>13 DEF LoadClear
      <3>2. /\ z.snap = row
            /\ \A k \in Keys : row[k].live = "live" => hash[k] = FullHash(row[k])
        BY <3>1 DEF DownInv
      <3>3. PICK x : x = [z EXCEPT !.mode = "push"]
        OBVIOUS
      <3>4. x.mode = "push" /\ x.snap = row /\ x.left = {}
        BY <1>2, <3>1, <3>2, <3>3 DEF ScanType
      <3>5. QED
        BY <1>4, <1>6, <2>2, <3>1, <3>2, <3>3, <3>4
    <2>3. QED
      BY <1>13, <2>1, <2>2 DEF LoadClear
  <1>14. QED
    BY <1>7, <1>8, <1>9, <1>10, <1>11, <1>12, <1>13 DEF ScanStep

\* The server goes down with nothing at work, and comes up when a realignment
\* ends.
LEMMA NextDown ==
    ASSUME "scan" \notin StoreFaults, TypeOK, DownInv, [Next]_vars
    PROVE  DownInv'
  <1>1. CASE UNCHANGED vars
    BY <1>1 DEF DownInv, vars
  <1>2. CASE Crash
    <2>1. /\ \A t \in Txns : op'[t].at = "idle"
          /\ \A c \in Callers : sel'[c].at = "idle"
          /\ \A s \in Syncers : scan'[s].mode = "idle"
      BY <1>2 DEF Crash, IdleOp, IdleSel, IdleScan
    <2>2. QED
      BY <2>1 DEF DownInv
  <1>3. CASE up /\ Next /\ ~Crash
    <2>1. up' = TRUE
      BY <1>3 DEF Next, TxnBegin, SuccessRead, FailureRead, AdminBegin, AddBegin, EditRow,
                  TxnStep, TxnFault, First, Update, StoreStep, Commit, DatabaseLocked, StoreFails,
                  SelectStart, SelectStep, SelectRotate, SelectRead, SelectDrop,
                  SelectForget, SelectFails, ScanStep, LoadFind, PeerMerge, SyncFind,
                  SyncKey, SyncStep, SyncDone, LoadKey, LoadClear, LoadPush, ScanDone,
                  CoolDownKey, CooldownExpires
    <2>2. QED
      BY <2>1 DEF DownInv
  <1>4. CASE ~up /\ Next
    <2>1. CASE UNCHANGED <<row, store, op, sel, scan, up>>
      BY <2>1 DEF DownInv, store
    <2>2. QED
      BY <1>4, <2>1, DownSteps, DownScan
  <1>5. QED
    BY <1>1, <1>2, <1>3, <1>4

\* What is served when a load brings the server up.
LEMMA LoadedServes ==
    ASSUME "scan" \notin StoreFaults, TypeOK, DownInv, [Next]_vars,
           NEW s \in Syncers, scan[s].mode = "push", ~up, up', NEW k \in Keys
    PROVE  IF ActiveRow(row[k])
           THEN hash'[k] = FullHash(row[k]) /\ listed'[k] = 1
           ELSE listed'[k] = 0
  <1>1. PICK q \in Syncers : ScanStep(q) \/ LoadFind(q)
    BY DownSteps DEF vars
  <1>2. q = s
    <2>1. CASE SyncFind(q) \/ LoadFind(q)
      BY <2>1 DEF SyncFind, LoadFind
    <2>2. CASE SyncKey(q) \/ SyncStep(q) \/ SyncDone(q) \/ LoadKey(q) \/ LoadClear(q) \/ LoadPush(q)
      <3>1. scan[q].mode # "idle"
        BY <2>2 DEF SyncKey, SyncStep, SyncDone, LoadKey, LoadClear, LoadPush
      <3>2. QED
        BY <3>1 DEF DownInv
    <2>3. QED
      BY <1>1, <2>1, <2>2 DEF ScanStep
  <1>3. LoadPush(s)
    BY <1>1, <1>2 DEF ScanStep, LoadFind, SyncFind, SyncKey, SyncStep, SyncDone, LoadKey,
                      LoadClear
  <1>4. /\ listed'[k] = listed[k] + (IF ActiveRow(scan[s].snap[k]) THEN 1 ELSE 0)
        /\ hash' = hash
    BY <1>3 DEF LoadPush
  <1>5. /\ scan[s].snap = row /\ listed[k] = 0
        /\ row[k].live = "live" => hash[k] = FullHash(row[k])
    BY DEF DownInv
  <1>6. QED
    BY <1>4, <1>5 DEF ActiveRow

\* When no call of the load fails, a master comes up with every active key in
\* its rotation, once, under the hash of its row, and with no other key there,
\* whatever a crash left in Redis (LoadKeysFromDB).
THEOREM LoadServesActiveCorrect ==
    ASSUME "scan" \notin StoreFaults PROVE Spec => LoadServesActive
  <1> DEFINE Served == \A s \in Syncers : scan[s].mode = "push" /\ ~up /\ up' =>
          \A k \in Keys :
             IF ActiveRow(row[k])
             THEN hash'[k] = FullHash(row[k]) /\ listed'[k] = 1
             ELSE listed'[k] = 0
  <1>1. Init => DownInv
    BY DEF Init, DownInv
  <1>2. TypeOK /\ DownInv /\ [Next]_vars => DownInv'
    BY NextDown
  <1>3. TypeOK /\ DownInv /\ [Next]_vars => Served
    BY LoadedServes
  <1>4. QED
    BY <1>1, <1>2, <1>3, TypeCorrect, PTL DEF Spec, LoadServesActive
=============================================================================
