--------------------------- MODULE ServicesProofs ---------------------------
(* What the services around the request path never do, for every number of clients,
   instances, keys and tasks. A part of Services moves on its own, so an invariant of a part
   is proved for the part's own actions and then lifted to the whole. *)
EXTENDS Services, FiniteSetTheorems, SequenceTheorems, TLAPS

--------------------------------------------------------------------------
(* A step of the whole is, for each part, a step of the part or nothing *)

LEMMA LogPart == [ServicesNext]_vars => [LogNext]_logVars
  BY DEF vars, ServicesNext, LogMove, JoinMove, TaskMove, CacheMove, RateMove, CronMove,
         GroupMove, AliasMove, RouterMove, BackupMove, StreamMove, MigrationMove

LEMMA JoinPart == [ServicesNext]_vars => [JoinNext]_joinVars
  BY DEF vars, ServicesNext, LogMove, JoinMove, TaskMove, CacheMove, RateMove, CronMove,
         GroupMove, AliasMove, RouterMove, BackupMove, StreamMove, MigrationMove

LEMMA TaskPart == [ServicesNext]_vars => [TaskNext]_taskVars
  BY DEF vars, ServicesNext, LogMove, JoinMove, TaskMove, CacheMove, RateMove, CronMove,
         GroupMove, AliasMove, RouterMove, BackupMove, StreamMove, MigrationMove

LEMMA RatePart == [ServicesNext]_vars => [RateNext]_rateVars
  BY DEF vars, ServicesNext, LogMove, JoinMove, TaskMove, CacheMove, RateMove, CronMove,
         GroupMove, AliasMove, RouterMove, BackupMove, StreamMove, MigrationMove

LEMMA CronPart == [ServicesNext]_vars => [CronNext]_cronVars
  BY DEF vars, ServicesNext, LogMove, JoinMove, TaskMove, CacheMove, RateMove, CronMove,
         GroupMove, AliasMove, RouterMove, BackupMove, StreamMove, MigrationMove

LEMMA CachePart == [ServicesNext]_vars => [CacheNext]_cacheVars
  BY DEF vars, ServicesNext, LogMove, JoinMove, TaskMove, CacheMove, RateMove, CronMove,
         GroupMove, AliasMove, RouterMove, BackupMove, StreamMove, MigrationMove

--------------------------------------------------------------------------
(* The task slot *)

\* A task that will still write or that will end.
Works(t) == taskPc[t] \in {"works", "reports", "progress", "ends", "result"}

\* Undisturbed, a place that is taken is taken by a task that still has to end.
TaskInv ==
    /\ TaskTypeOK
    /\ taskFaults \in Nat /\ taskCrashes \in Nat
    /\ slot = "running" /\ taskFaults = 0 /\ taskCrashes = 0 => \E t \in Task : Works(t)

LEMMA TaskInitial == TaskInit => TaskInv
  BY TaskSlotAssumption DEF TaskInit, TaskInv, TaskTypeOK

\* Every step of a task keeps the invariant.
LEMMA TaskOwnStep ==
  ASSUME TaskInv, NEW t \in Task, StartReads(t) \/ TaskSteps(t)
  PROVE  TaskInv'
<1> USE TaskSlotAssumption DEF TaskInv, TaskTypeOK, Works, TaskGoes, NoTaskFault, TaskFault
<1>1. CASE StartReads(t)
  BY <1>1 DEF StartReads
<1>2. CASE StartClears(t)
  BY <1>2 DEF StartClears
<1>3. CASE StartWrites(t)
  BY <1>3 DEF StartWrites
<1>4. CASE ChunkDone(t)
  <2>1. chunks[t] # 0 => chunks[t] - 1 \in 0 .. MaxChunks
    OBVIOUS
  <2> QED
    BY <1>4, <2>1 DEF ChunkDone, AfterFailure
<1>5. CASE ProgressReads(t)
  BY <1>5 DEF ProgressReads, StatusRead
<1>6. CASE ProgressWrites(t)
  BY <1>6 DEF ProgressWrites
<1>7. CASE EndReads(t)
  BY <1>7 DEF EndReads, StatusRead
<1>8. CASE EndWrites(t)
  BY <1>8 DEF EndWrites
<1> QED
  BY <1>1, <1>2, <1>3, <1>4, <1>5, <1>6, <1>7, <1>8 DEF TaskSteps

LEMMA TaskStep == TaskInv /\ [TaskNext]_taskVars => TaskInv'
<1> SUFFICES ASSUME TaskInv, [TaskNext]_taskVars PROVE TaskInv'
  OBVIOUS
<1>1. ASSUME NEW t \in Task, StartReads(t) \/ TaskSteps(t) PROVE TaskInv'
  BY <1>1, TaskOwnStep
<1>2. CASE TaskProcessDies
  BY <1>2 DEF TaskInv, TaskTypeOK, TaskProcessDies
<1>3. CASE SlotExpires
  BY <1>3 DEF TaskInv, TaskTypeOK, SlotExpires, Works
<1>4. CASE PollReads \/ PollDeletes
  BY <1>4 DEF TaskInv, TaskTypeOK, PollReads, PollDeletes, Works
<1>5. CASE UNCHANGED taskVars
  BY <1>5 DEF TaskInv, TaskTypeOK, taskVars, Works
<1> QED
  BY <1>1, <1>2, <1>3, <1>4, <1>5 DEF TaskNext

\* When the last task is over and nothing failed, the place is free, however the reads and
\* writes of the tasks' progress interleave (StartTask, UpdateProgress, EndTask).
THEOREM SlotFreeCorrect == Spec => []SlotFreeWhenDone
<1>1. ServicesInit => TaskInv
  BY TaskInitial DEF ServicesInit
<1>2. TaskInv /\ [ServicesNext]_vars => TaskInv'
  BY TaskStep, TaskPart
<1>3. TaskInv => SlotFreeWhenDone
  BY DEF TaskInv, SlotFreeWhenDone, Works, Alive
<1> QED
  BY <1>1, <1>2, <1>3, PTL DEF Spec

--------------------------------------------------------------------------
(* Joining a parent *)

JoinRequest ==
    [child : Child, parent : Parent, tok : Token, key : Nat, alone : BOOLEAN, nr : Nat,
     at : {"sent", "admitted", "found", "fresh", "answered"}]
ChildRow == [child : Child, key : Nat]
MasterMark == [parent : Parent, key : Nat]

JoinShape ==
    /\ token \in [Token -> {"free", "used", "expired"}]
    /\ admitted \in [Token -> Nat]
    /\ joins \subseteq JoinRequest
    /\ peerRow \in [Parent -> SUBSET ChildRow]
    /\ master \in [Child -> SUBSET MasterMark]
    /\ disturbed \subseteq Child
    /\ keyCount \in Nat /\ sent \in [Child -> Nat]

\* A request that is marked as alone has no other beside it.
AloneIsAlone == \A j, k \in joins : j.alone /\ j.child = k.child => j = k

\* Only a child that is disturbed has requests that are not alone.
OverlapDisturbs == \A j \in joins : j.alone \/ j.child \in disturbed

\* What a request alone was answered is in the parent's row.
AnsweredIsStored ==
    \A j \in joins : j.alone /\ j.at = "answered" =>
        [child |-> j.child, key |-> j.key] \in peerRow[j.parent]

\* The key of a child that nothing disturbed is the parent's, until an answer replaces it.
KeyIsStored ==
    \A c \in Child : \A m \in master[c] :
        c \notin disturbed /\ (\A j \in joins : j.child = c => j.at # "answered") =>
            [child |-> c, key |-> m.key] \in peerRow[m.parent]

TokenTaken == \A t \in Token : admitted[t] <= 1 /\ (token[t] = "free" => admitted[t] = 0)

JoinInv == /\ JoinShape /\ TokenTaken
           /\ AloneIsAlone /\ OverlapDisturbs /\ AnsweredIsStored /\ KeyIsStored

LEMMA JoinInitial == JoinInit => JoinInv
  BY DEF JoinInit, JoinInv, JoinShape, TokenTaken, AloneIsAlone, OverlapDisturbs,
         AnsweredIsStored, KeyIsStored

LEMMA JoinSentKeeps ==
  ASSUME JoinInv, NEW c \in Child, NEW p \in Parent, NEW t \in Token, JoinSent(c, p, t)
  PROVE  JoinInv'
<1> DEFINE others == {j \in joins : j.child = c}
           new == [child |-> c, parent |-> p, tok |-> t, at |-> "sent", key |-> 0,
                   alone |-> others = {}, nr |-> sent[c]]
<1>1. /\ joins' = (joins \ others) \cup {[j EXCEPT !.alone = FALSE] : j \in others} \cup {new}
      /\ disturbed' = IF others = {} THEN disturbed ELSE disturbed \cup {c}
      /\ sent' = [sent EXCEPT ![c] = @ + 1]
      /\ UNCHANGED <<token, admitted, peerRow, master, keyCount>>
  BY DEF JoinSent
<1>2. new \in JoinRequest
  BY DEF JoinInv, JoinShape, JoinRequest
<1>3. ASSUME NEW j \in joins
      PROVE  /\ [j EXCEPT !.alone = FALSE] \in JoinRequest
             /\ [j EXCEPT !.alone = FALSE].child = j.child
             /\ [j EXCEPT !.alone = FALSE].alone = FALSE
  BY DEF JoinInv, JoinShape, JoinRequest
<1>4. \* what a request of the next state is
      ASSUME NEW j \in joins'
      PROVE  \/ j \in joins /\ j.child # c
             \/ j.child = c /\ ~j.alone /\ others # {}
             \/ j = new
  BY <1>1, <1>3
<1>5. new.child = c /\ new.at = "sent" /\ (new.alone <=> others = {})
  OBVIOUS
<1>6. JoinShape'
  <2>1. joins' \subseteq JoinRequest
    BY <1>1, <1>2, <1>3 DEF JoinInv, JoinShape
  <2> QED
    BY <1>1, <2>1 DEF JoinInv, JoinShape
<1>7. TokenTaken'
  BY <1>1 DEF JoinInv, TokenTaken
<1>8. AloneIsAlone'
  <2> SUFFICES ASSUME NEW j \in joins', NEW k \in joins', j.alone, j.child = k.child PROVE j = k
    BY DEF AloneIsAlone
  <2>1. CASE j.child # c
    BY <2>1, <1>4, <1>5 DEF JoinInv, AloneIsAlone
  <2>2. CASE j.child = c
    <3>1. j = new /\ others = {}
      BY <2>2, <1>4, <1>5
    <3> QED
      BY <3>1, <1>4, <1>5
  <2> QED
    BY <2>1, <2>2
<1>9. OverlapDisturbs'
  <2> SUFFICES ASSUME NEW j \in joins' PROVE j.alone \/ j.child \in disturbed'
    BY DEF OverlapDisturbs
  <2> QED
    BY <1>1, <1>4, <1>5 DEF JoinInv, OverlapDisturbs
<1>10. AnsweredIsStored'
  <2> SUFFICES ASSUME NEW j \in joins', j.alone, j.at = "answered"
               PROVE  [child |-> j.child, key |-> j.key] \in peerRow'[j.parent]
    BY DEF AnsweredIsStored
  <2>1. j \in joins
    BY <1>4, <1>5
  <2> QED
    BY <1>1, <2>1 DEF JoinInv, AnsweredIsStored
<1>11. KeyIsStored'
  <2> SUFFICES ASSUME NEW d \in Child, NEW m \in master'[d], d \notin disturbed',
                      \A j \in joins' : j.child = d => j.at # "answered"
               PROVE  [child |-> d, key |-> m.key] \in peerRow'[m.parent]
    BY DEF KeyIsStored
  <2>1. d \notin disturbed /\ m \in master[d]
    BY <1>1
  <2>2. ASSUME NEW j \in joins, j.child = d PROVE j.at # "answered"
    <3>1. d # c
      BY <2>2, <1>1
    <3> QED
      BY <2>2, <3>1, <1>1
  <2> QED
    BY <1>1, <2>1, <2>2 DEF JoinInv, KeyIsStored
<1> QED
  BY <1>6, <1>7, <1>8, <1>9, <1>10, <1>11 DEF JoinInv

\* A request goes on, with its key set or not, and its parent's rows are left alone.
LEMMA JoinGoesOn ==
  ASSUME JoinShape, AloneIsAlone, OverlapDisturbs, AnsweredIsStored, KeyIsStored,
         NEW j \in joins, NEW n \in JoinRequest, n.child = j.child, n.alone = j.alone,
         j.at # "answered", n.at # "answered", joins' = (joins \ {j}) \cup {n},
         UNCHANGED <<peerRow, master, disturbed>>
  PROVE  joins' \subseteq JoinRequest /\ AloneIsAlone' /\ OverlapDisturbs'
         /\ AnsweredIsStored' /\ KeyIsStored'
<1>1. joins' \subseteq JoinRequest
  BY DEF JoinShape
<1>2. AloneIsAlone'
  BY DEF AloneIsAlone
<1>3. OverlapDisturbs'
  BY DEF OverlapDisturbs
<1>4. AnsweredIsStored'
  BY DEF AnsweredIsStored
<1>5. KeyIsStored'
  <2> SUFFICES ASSUME NEW d \in Child, NEW m \in master'[d], d \notin disturbed',
                      \A k \in joins' : k.child = d => k.at # "answered"
               PROVE  [child |-> d, key |-> m.key] \in peerRow'[m.parent]
    BY DEF KeyIsStored
  <2>1. \A k \in joins : k.child = d => k.at # "answered"
    OBVIOUS
  <2> QED
    BY <2>1 DEF KeyIsStored
<1> QED
  BY <1>1, <1>2, <1>3, <1>4, <1>5

LEMMA TokenConsumedKeeps ==
  ASSUME JoinInv, NEW j \in joins, TokenConsumed(j)
  PROVE  JoinInv'
<1>1. j \in JoinRequest /\ j.tok \in Token /\ j.at = "sent"
  BY DEF TokenConsumed, JoinInv, JoinShape, JoinRequest
<1>2. CASE Consumable(j.tok)
  <2> DEFINE n == [j EXCEPT !.at = "admitted", !.key = keyCount + 1]
  <2>0. keyCount + 1 \in Nat
    BY DEF JoinInv, JoinShape
  <2>1. n \in JoinRequest /\ n.child = j.child /\ n.alone = j.alone /\ n.at = "admitted"
    BY <1>1, <2>0 DEF JoinRequest
  <2>2. joins' = (joins \ {j}) \cup {n} /\ UNCHANGED <<peerRow, master, disturbed>>
    BY <1>2 DEF TokenConsumed
  <2>3. joins' \subseteq JoinRequest /\ AloneIsAlone' /\ OverlapDisturbs'
        /\ AnsweredIsStored' /\ KeyIsStored'
    <3> HIDE DEF n
    <3> QED
      BY <1>1, <2>1, <2>2, JoinGoesOn DEF JoinInv
  <2>4. JoinShape' /\ TokenTaken'
    BY <1>1, <1>2, <2>3 DEF TokenConsumed, Consumable, JoinInv, JoinShape, TokenTaken
  <2> QED
    BY <2>3, <2>4 DEF JoinInv
<1>3. CASE ~Consumable(j.tok)
  <2>1. joins' = joins \ {j}
        /\ UNCHANGED <<token, admitted, keyCount, peerRow, master, disturbed, sent>>
    BY <1>3 DEF TokenConsumed
  <2>2. JoinShape' /\ TokenTaken' /\ AloneIsAlone' /\ OverlapDisturbs' /\ AnsweredIsStored'
    BY <2>1 DEF JoinInv, JoinShape, TokenTaken, AloneIsAlone, OverlapDisturbs, AnsweredIsStored
  <2>3. KeyIsStored'
    BY <1>1, <2>1 DEF JoinInv, KeyIsStored
  <2> QED
    BY <2>2, <2>3 DEF JoinInv
<1> QED
  BY <1>2, <1>3

LEMMA PeerLookedUpKeeps ==
  ASSUME JoinInv, NEW j \in joins, PeerLookedUp(j)
  PROVE  JoinInv'
<1>1. PICK to \in {"found", "fresh"} : JoinMoves(j, to)
  BY DEF PeerLookedUp
<1> DEFINE n == [j EXCEPT !.at = to]
<1>2. n \in JoinRequest /\ n.child = j.child /\ n.alone = j.alone /\ n.at = to
  BY DEF JoinInv, JoinShape, JoinRequest
<1>3. joins' = (joins \ {j}) \cup {n} /\ j.at = "admitted"
      /\ UNCHANGED <<token, admitted, keyCount, peerRow, master, disturbed, sent>>
  BY <1>1 DEF PeerLookedUp, JoinMoves
<1>4. joins' \subseteq JoinRequest /\ AloneIsAlone' /\ OverlapDisturbs'
      /\ AnsweredIsStored' /\ KeyIsStored'
  <2> HIDE DEF n
  <2> QED
    BY <1>2, <1>3, JoinGoesOn DEF JoinInv
<1>5. JoinShape' /\ TokenTaken'
  BY <1>3, <1>4 DEF JoinInv, JoinShape, TokenTaken
<1> QED
  BY <1>4, <1>5 DEF JoinInv

LEMMA PeerStoredKeeps ==
  ASSUME JoinInv, NEW j \in joins, PeerStored(j)
  PROVE  JoinInv'
<1> DEFINE n == [j EXCEPT !.at = "answered"]
           row == [child |-> j.child, key |-> j.key]
<1>1. j \in JoinRequest /\ j.parent \in Parent /\ row \in ChildRow
  BY DEF JoinInv, JoinShape, JoinRequest, ChildRow
<1>2. /\ n \in JoinRequest /\ n.child = j.child /\ n.alone = j.alone /\ n.at = "answered"
      /\ n.key = j.key /\ n.parent = j.parent
  BY <1>1 DEF JoinRequest
<1>3. joins' = (joins \ {j}) \cup {n} /\ j.at \in {"fresh", "found"}
      /\ UNCHANGED <<token, admitted, keyCount, master, disturbed, sent>>
  BY DEF PeerStored, JoinMoves
<1>4. PICK gone \in SUBSET peerRow[j.parent] :
        /\ \A r \in gone : r.child = j.child
        /\ peerRow' = [peerRow EXCEPT ![j.parent] = (@ \ gone) \cup {row}]
  <2>1. CASE j.at = "fresh"
    <3>1. peerRow' = [peerRow EXCEPT ![j.parent] = (@ \ {}) \cup {row}]
      BY <2>1 DEF PeerStored
    <3> QED
      BY <3>1
  <2>2. CASE j.at = "found"
    <3>1. PICK r \in peerRow[j.parent] :
            /\ r.child = j.child
            /\ peerRow' = [peerRow EXCEPT ![j.parent] = (@ \ {r}) \cup {NewKey(r, j)}]
      BY <2>2 DEF PeerStored
    <3>2. r \in ChildRow
      BY <1>1 DEF JoinInv, JoinShape
    <3>3. NewKey(r, j) = row
      BY <3>1, <3>2 DEF NewKey, ChildRow
    <3> QED
      BY <3>1, <3>3
  <2> QED
    BY <1>3, <2>1, <2>2
<1> HIDE DEF n, row
<1>5. JoinShape'
  <2>1. peerRow' \in [Parent -> SUBSET ChildRow]
    BY <1>1, <1>4 DEF JoinInv, JoinShape
  <2> QED
    BY <1>2, <1>3, <2>1 DEF JoinInv, JoinShape
<1>6. \* rows of another child stay, and the new row is there
      /\ row \in peerRow'[j.parent]
      /\ \A p \in Parent : \A r \in peerRow[p] : r.child # j.child => r \in peerRow'[p]
  BY <1>1, <1>4 DEF JoinInv, JoinShape
<1>7. TokenTaken' /\ AloneIsAlone' /\ OverlapDisturbs'
  BY <1>2, <1>3 DEF JoinInv, TokenTaken, AloneIsAlone, OverlapDisturbs
<1>8. AnsweredIsStored'
  <2> SUFFICES ASSUME NEW k \in joins', k.alone, k.at = "answered"
               PROVE  [child |-> k.child, key |-> k.key] \in peerRow'[k.parent]
    BY DEF AnsweredIsStored
  <2>1. CASE k = n
    BY <2>1, <1>2, <1>6 DEF row
  <2>2. CASE k # n
    <3>1. k \in joins /\ k.child # j.child /\ k \in JoinRequest
      BY <2>2, <1>2, <1>3 DEF JoinInv, JoinShape, AloneIsAlone
    <3> DEFINE kept == [child |-> k.child, key |-> k.key]
    <3>2. kept \in peerRow[k.parent] /\ kept.child = k.child /\ k.parent \in Parent
      BY <3>1 DEF JoinInv, AnsweredIsStored, JoinRequest
    <3> QED
      BY <3>1, <3>2, <1>6
  <2> QED
    BY <2>1, <2>2
<1>9. KeyIsStored'
  <2> SUFFICES ASSUME NEW d \in Child, NEW m \in master'[d], d \notin disturbed',
                      \A k \in joins' : k.child = d => k.at # "answered"
               PROVE  [child |-> d, key |-> m.key] \in peerRow'[m.parent]
    BY DEF KeyIsStored
  <2>1. d # j.child
    BY <1>2, <1>3
  <2>2. \A k \in joins : k.child = d => k.at # "answered"
    BY <2>1, <1>2, <1>3
  <2>3. m \in master[d] /\ d \notin disturbed /\ m.parent \in Parent
    BY <1>3 DEF JoinInv, JoinShape, MasterMark
  <2> DEFINE kept == [child |-> d, key |-> m.key]
  <2>4. kept \in peerRow[m.parent] /\ kept.child = d
    BY <2>2, <2>3 DEF JoinInv, KeyIsStored
  <2> QED
    BY <2>1, <2>3, <2>4, <1>6
<1> QED
  BY <1>5, <1>7, <1>8, <1>9 DEF JoinInv

LEMMA JoinFailsKeeps ==
  ASSUME JoinInv, NEW j \in joins, JoinFails(j)
  PROVE  JoinInv'
<1>1. /\ joins' = joins \ {j} /\ disturbed' = disturbed \cup {j.child}
      /\ UNCHANGED <<token, admitted, peerRow, master, keyCount, sent>>
  BY DEF JoinFails
<1>2. j.child \in Child
  BY DEF JoinInv, JoinShape, JoinRequest
<1>3. JoinShape' /\ TokenTaken' /\ AloneIsAlone' /\ OverlapDisturbs' /\ AnsweredIsStored'
  BY <1>1, <1>2 DEF JoinInv, JoinShape, TokenTaken, AloneIsAlone, OverlapDisturbs,
                    AnsweredIsStored
<1>4. KeyIsStored'
  BY <1>1 DEF JoinInv, KeyIsStored
<1> QED
  BY <1>3, <1>4 DEF JoinInv

LEMMA JoinAppliedKeeps ==
  ASSUME JoinInv, NEW j \in joins, JoinApplied(j)
  PROVE  JoinInv'
<1>1. /\ j.at = "answered" /\ joins' = joins \ {j}
      /\ master' = [master EXCEPT ![j.child] = {[parent |-> j.parent, key |-> j.key]}]
      /\ disturbed' = IF j.alone THEN disturbed \ {j.child} ELSE disturbed
      /\ UNCHANGED <<token, admitted, peerRow, keyCount, sent>>
  BY DEF JoinApplied, Masters
<1>2. j.child \in Child /\ [parent |-> j.parent, key |-> j.key] \in MasterMark
  BY DEF JoinInv, JoinShape, JoinRequest, MasterMark
<1>3. JoinShape'
  BY <1>1, <1>2 DEF JoinInv, JoinShape
<1>4. TokenTaken' /\ AloneIsAlone' /\ OverlapDisturbs' /\ AnsweredIsStored'
  BY <1>1 DEF JoinInv, TokenTaken, AloneIsAlone, OverlapDisturbs, AnsweredIsStored
<1>5. KeyIsStored'
  <2> SUFFICES ASSUME NEW d \in Child, NEW m \in master'[d], d \notin disturbed',
                      \A k \in joins' : k.child = d => k.at # "answered"
               PROVE  [child |-> d, key |-> m.key] \in peerRow'[m.parent]
    BY DEF KeyIsStored
  <2>1. CASE d = j.child
    <3>1. m = [parent |-> j.parent, key |-> j.key]
      BY <2>1, <1>1, <1>2 DEF JoinInv, JoinShape
    <3>2. j.alone
      BY <2>1, <1>1 DEF JoinInv, OverlapDisturbs
    <3>3. [child |-> j.child, key |-> j.key] \in peerRow[j.parent]
      BY <3>2, <1>1 DEF JoinInv, AnsweredIsStored
    <3> QED
      BY <2>1, <3>1, <3>3, <1>1
  <2>2. CASE d # j.child
    BY <2>2, <1>1 DEF JoinInv, JoinShape, KeyIsStored
  <2> QED
    BY <2>1, <2>2
<1> QED
  BY <1>3, <1>4, <1>5 DEF JoinInv

LEMMA JoinStep == JoinInv /\ [JoinNext]_joinVars => JoinInv'
<1> SUFFICES ASSUME JoinInv, [JoinNext]_joinVars PROVE JoinInv'
  OBVIOUS
<1>1. ASSUME NEW t \in Token, TokenExpires(t) PROVE JoinInv'
  BY <1>1 DEF JoinInv, TokenExpires, JoinShape, TokenTaken, AloneIsAlone, OverlapDisturbs,
              AnsweredIsStored, KeyIsStored
<1>2. ASSUME NEW t \in Token, NEW c \in Child, NEW p \in Parent, JoinSent(c, p, t) PROVE JoinInv'
  BY <1>2, JoinSentKeeps
<1>3. ASSUME NEW j \in joins, \/ TokenConsumed(j) \/ PeerLookedUp(j) \/ PeerStored(j)
                              \/ JoinFails(j) \/ JoinApplied(j)
      PROVE  JoinInv'
  BY <1>3, TokenConsumedKeeps, PeerLookedUpKeeps, PeerStoredKeeps, JoinFailsKeeps,
     JoinAppliedKeeps
<1>4. CASE UNCHANGED joinVars
  BY <1>4 DEF joinVars, JoinInv, JoinShape, TokenTaken, AloneIsAlone, OverlapDisturbs,
              AnsweredIsStored, KeyIsStored
<1> QED
  BY <1>1, <1>2, <1>3, <1>4 DEF JoinNext

\* An invitation admits one child, once, and an undisturbed join leaves a child and its
\* master with the same key, however many children join which parents, and whatever joins
\* overlapped or lost their answers before (ConsumeInviteToken, JoinEndpoint).
THEOREM JoinsSoundCorrect == Spec => []JoinsSound
<1>1. ServicesInit => JoinInv
  BY JoinInitial DEF ServicesInit
<1>2. JoinInv /\ [ServicesNext]_vars => JoinInv'
  BY JoinStep, JoinPart
<1>3. JoinInv => JoinsSound
  BY DEF JoinInv, TokenTaken, KeyIsStored, JoinsSound, TokenAdmitsOne, UndisturbedJoinAgrees
<1> QED
  BY <1>1, <1>2, <1>3, PTL DEF Spec

--------------------------------------------------------------------------
(* The buffer of request logs *)

\* The names that an instance took from the set and has neither written nor put back.
Held(i) == IF flushAt[i] \in {"load", "write", "readd"} THEN popped[i] ELSE {}

\* A name waits in one place.
OnePlace ==
    \A i \in Flusher : /\ Held(i) \cap pending = {}
                       /\ \A k \in Flusher \ {i} : Held(i) \cap Held(k) = {}

\* What waits is recorded and has no row; what is not recorded yet has none either.
NoRowYet ==
    /\ \A l \in pending : recorded[l] = "yes" /\ rows[l] = 0
    /\ \A i \in Flusher : \A l \in Held(i) : recorded[l] = "yes" /\ rows[l] = 0
    /\ \A l \in Log : recorded[l] \in {"no", "body"} => rows[l] = 0

\* Every log was recorded in a step of its own, hence what is there is finite.
LogsFinite ==
    /\ IsFiniteSet(pending)
    /\ \A i \in Flusher : IsFiniteSet(popped[i])
    /\ IsFiniteSet({l \in Log : rows[l] # 0})

LogInv ==
    /\ LogTypeOK /\ loaded \in [Flusher -> SUBSET Log]
    /\ OnePlace /\ NoRowYet /\ LogsFinite /\ LogsCountedOnce

LEMMA LogInitial == LogInit => LogInv
<1> SUFFICES ASSUME LogInit PROVE LogInv
  OBVIOUS
<1>1. {l \in Log : rows[l] # 0} = {} /\ {l \in Business : rows[l] = 1} = {}
  BY RequestLogAssumption DEF LogInit
<1>2. LogTypeOK /\ loaded \in [Flusher -> SUBSET Log]
  BY RequestLogAssumption, FS_EmptySet DEF LogInit, LogTypeOK
<1>3. OnePlace /\ NoRowYet
  BY DEF LogInit, OnePlace, NoRowYet, Held
<1>4. LogsFinite /\ LogsCountedOnce
  BY <1>1, FS_EmptySet DEF LogInit, LogsFinite, LogsCountedOnce
<1> QED
  BY <1>2, <1>3, <1>4 DEF LogInv

\* One transaction writes finitely many logs that have no row: they are counted once.
LEMMA WrittenCounts ==
  ASSUME NEW logs \in SUBSET Log, IsFiniteSet(logs), \A l \in logs : rows[l] = 0,
         rows \in [Log -> Nat], hourly \in Nat, LogsCountedOnce,
         IsFiniteSet({l \in Log : rows[l] # 0}), Written(logs)
  PROVE  /\ rows' \in [Log -> Nat] /\ hourly' \in Nat /\ LogsCountedOnce'
         /\ IsFiniteSet({l \in Log : rows'[l] # 0})
         /\ \A l \in Log \ logs : rows'[l] = rows[l]
<1> DEFINE before == {l \in Log : rows[l] # 0}
           counted == {l \in Business : rows[l] = 1}
           now == logs \cap Business
<1>1. \A l \in Log : rows'[l] = IF l \in logs THEN 1 ELSE rows[l]
  BY DEF Written
<1>2. rows' \in [Log -> Nat]
  BY DEF Written
<1>3. {l \in Log : rows'[l] # 0} = before \cup logs
  BY <1>1
<1>4. IsFiniteSet(before \cup logs)
  BY FS_Union
<1>5. {l \in Business : rows'[l] = 1} = counted \cup now /\ counted \cap now = {}
  BY <1>1, RequestLogAssumption
<1>6. IsFiniteSet(counted) /\ IsFiniteSet(now)
  <2>1. counted \in SUBSET before /\ now \in SUBSET logs
    BY RequestLogAssumption
  <2> HIDE DEF before, counted, now
  <2> QED
    BY <2>1, FS_Subset DEF before
<1>7. Cardinality(counted \cup now) = Cardinality(counted) + Cardinality(now)
  <2> HIDE DEF counted, now
  <2>1. counted \cap now = {}
    BY <1>5
  <2>2. Cardinality(counted \cup now)
          = Cardinality(counted) + Cardinality(now) - Cardinality(counted \cap now)
    BY <1>6, FS_Union
  <2>3. Cardinality(counted) \in Nat /\ Cardinality(now) \in Nat
    BY <1>6, FS_CardinalityType
  <2>4. Cardinality(counted \cap now) = 0
    BY <2>1, FS_EmptySet
  <2> QED
    BY <2>2, <2>3, <2>4
<1>8. hourly' = Cardinality(counted \cup now)
  <2>1. hourly' = hourly + Cardinality(now) /\ hourly = Cardinality(counted)
    BY DEF Written, LogsCountedOnce
  <2> QED
    BY <2>1, <1>7
<1>9. hourly' \in Nat
  <2> HIDE DEF counted, now
  <2> QED
    BY <1>6, <1>8, FS_Union, FS_CardinalityType
<1>10. \A l \in Log : rows'[l] <= 1
  BY <1>1 DEF LogsCountedOnce
<1>11. LogsCountedOnce'
  BY <1>5, <1>8, <1>10 DEF LogsCountedOnce
<1> QED
  BY <1>1, <1>2, <1>3, <1>4, <1>9, <1>11

LEMMA WaitingAreLogs == LogTypeOK => pending \subseteq Log /\ \A i \in Flusher : Held(i) \subseteq Log
  BY DEF LogTypeOK, Held

\* Steps that leave the tables, the names and what instances hold alone.
LEMMA TablesAlone ==
  ASSUME LogInv, UNCHANGED <<rows, hourly>>, UNCHANGED <<pending, popped>>,
         \A i \in Flusher : Held(i)' \subseteq Held(i),
         \A l \in Log : recorded'[l] = recorded[l] \/ (recorded[l] # "yes" /\ rows[l] = 0)
  PROVE  OnePlace' /\ NoRowYet' /\ LogsFinite' /\ LogsCountedOnce'
<1>1. OnePlace'
  BY DEF LogInv, OnePlace
<1>2. NoRowYet'
  <2>1. \A l \in pending' : recorded'[l] = "yes" /\ rows'[l] = 0
    BY WaitingAreLogs DEF LogInv, NoRowYet
  <2>2. \A i \in Flusher : \A l \in Held(i)' : recorded'[l] = "yes" /\ rows'[l] = 0
    BY WaitingAreLogs DEF LogInv, NoRowYet
  <2>3. \A l \in Log : recorded'[l] \in {"no", "body"} => rows'[l] = 0
    BY DEF LogInv, NoRowYet
  <2> QED
    BY <2>1, <2>2, <2>3 DEF NoRowYet
<1>3. LogsFinite' /\ LogsCountedOnce'
  BY DEF LogInv, LogsFinite, LogsCountedOnce
<1> QED
  BY <1>1, <1>2, <1>3

LEMMA RecordKeeps ==
  ASSUME LogInv, NEW l \in Log, RecordDirect(l) \/ RecordBody(l) \/ RecordPending(l)
  PROVE  LogInv'
<1> USE DEF LogFault, logBounds, logStore, logTables, flushing
<1>1. UNCHANGED <<flushAt, popped, loaded, missed>> /\ \A i \in Flusher : Held(i)' = Held(i)
  BY DEF RecordDirect, RecordBody, RecordPending, Held
<1>2. recorded[l] \in {"no", "body"} /\ rows[l] = 0 /\ l \notin pending
      /\ \A i \in Flusher : l \notin Held(i)
  BY DEF RecordDirect, RecordBody, RecordPending, LogInv, NoRowYet, LogTypeOK
<1>3. PICK to \in {"body", "yes", "failed"} : recorded' = [recorded EXCEPT ![l] = to]
  BY DEF RecordDirect, RecordBody, RecordPending
<1>4. /\ direct' \in BOOLEAN /\ bodies' \subseteq Log /\ pending' \subseteq Log
      /\ dropped' \subseteq Log
  BY DEF RecordDirect, RecordBody, RecordPending, LogInv, LogTypeOK
<1>5. CASE Written({l}) /\ to = "yes" /\ UNCHANGED pending
  <2>1. /\ rows' \in [Log -> Nat] /\ hourly' \in Nat /\ LogsCountedOnce'
        /\ IsFiniteSet({k \in Log : rows'[k] # 0})
        /\ \A k \in Log \ {l} : rows'[k] = rows[k]
    <3>1. IsFiniteSet({l})
      BY FS_Singleton
    <3> QED
      BY <1>2, <1>5, <3>1, WrittenCounts DEF LogInv, LogTypeOK, LogsFinite
  <2>2. LogTypeOK' /\ (loaded \in [Flusher -> SUBSET Log])'
    BY <1>1, <1>3, <1>4, <2>1 DEF LogInv, LogTypeOK
  <2>3. OnePlace' /\ LogsFinite'
    BY <1>1, <1>5, <2>1 DEF LogInv, OnePlace, LogsFinite
  <2>4. NoRowYet'
    <3>1. recorded'[l] = "yes" /\ \A k \in Log \ {l} : recorded'[k] = recorded[k]
      BY <1>3, <1>5 DEF LogInv, LogTypeOK
    <3>2. \A k \in pending' : recorded'[k] = "yes" /\ rows'[k] = 0
      BY <1>2, <1>5, <2>1, <3>1, WaitingAreLogs DEF LogInv, NoRowYet
    <3>3. \A i \in Flusher : \A k \in Held(i)' : recorded'[k] = "yes" /\ rows'[k] = 0
      BY <1>1, <1>2, <2>1, <3>1, WaitingAreLogs DEF LogInv, NoRowYet
    <3>4. \A k \in Log : recorded'[k] \in {"no", "body"} => rows'[k] = 0
      BY <2>1, <3>1 DEF LogInv, NoRowYet
    <3> QED
      BY <3>2, <3>3, <3>4 DEF NoRowYet
  <2> QED
    BY <2>1, <2>2, <2>3, <2>4 DEF LogInv
<1>6. CASE UNCHANGED <<rows, hourly>> /\ pending' = pending \cup {l} /\ to = "yes"
  <2>1. LogTypeOK' /\ (loaded \in [Flusher -> SUBSET Log])'
    BY <1>1, <1>3, <1>4, <1>6 DEF LogInv, LogTypeOK
  <2>2. OnePlace'
    BY <1>1, <1>2, <1>6 DEF LogInv, OnePlace
  <2>3. NoRowYet'
    BY <1>1, <1>2, <1>3, <1>6 DEF LogInv, NoRowYet, LogTypeOK
  <2>4. LogsFinite' /\ LogsCountedOnce'
    BY <1>1, <1>6, FS_AddElement DEF LogInv, LogsFinite, LogsCountedOnce
  <2> QED
    BY <2>1, <2>2, <2>3, <2>4 DEF LogInv
<1>7. CASE UNCHANGED <<rows, hourly, pending>>
  <2>1. OnePlace' /\ NoRowYet' /\ LogsFinite' /\ LogsCountedOnce'
    BY <1>1, <1>2, <1>3, <1>7, TablesAlone DEF LogInv, LogTypeOK
  <2>2. LogTypeOK' /\ (loaded \in [Flusher -> SUBSET Log])'
    BY <1>1, <1>3, <1>4, <1>7 DEF LogInv, LogTypeOK
  <2> QED
    BY <2>1, <2>2 DEF LogInv
<1>8. \/ Written({l}) /\ recorded' = [recorded EXCEPT ![l] = "yes"] /\ UNCHANGED pending
      \/ UNCHANGED <<rows, hourly>> /\ pending' = pending \cup {l}
           /\ recorded' = [recorded EXCEPT ![l] = "yes"]
      \/ UNCHANGED <<rows, hourly, pending>>
  BY DEF RecordDirect, RecordBody, RecordPending
<1>9. recorded' = [recorded EXCEPT ![l] = "yes"] => to = "yes"
  BY <1>3 DEF LogInv, LogTypeOK
<1> QED
  BY <1>5, <1>6, <1>7, <1>8, <1>9

\* An instance takes names: they leave the set and are its own.
LEMMA FlushPopsKeeps ==
  ASSUME LogInv, NEW i \in Flusher, FlushPops(i)
  PROVE  LogInv'
<1> USE DEF logBounds, logTables, LogFault
<1>1. UNCHANGED <<recorded, bodies, rows, hourly, missed, dropped, direct>>
  BY DEF FlushPops
<1>2. PICK S \in SUBSET pending :
        /\ Cardinality(S) <= BatchSize
        /\ popped' = [popped EXCEPT ![i] = S] /\ loaded' = [loaded EXCEPT ![i] = {}]
        /\ pending' = pending \ S
        /\ \/ flushAt' = [flushAt EXCEPT ![i] = "load"]
           \/ S = {} /\ flushAt' = [flushAt EXCEPT ![i] = "idle"]
  <2>1. CASE /\ flushAt' = [flushAt EXCEPT ![i] = "idle"]
             /\ popped' = [popped EXCEPT ![i] = {}] /\ loaded' = [loaded EXCEPT ![i] = {}]
             /\ UNCHANGED pending
    <3>1. Cardinality({}) <= BatchSize
      BY FS_EmptySet, RequestLogAssumption
    <3>2. pending' = pending \ {}
      BY <2>1
    <3> QED
      BY <2>1, <3>1, <3>2
  <2>2. CASE \E S \in SUBSET pending \ {{}} :
               /\ Cardinality(S) = IF Cardinality(pending) < BatchSize
                                   THEN Cardinality(pending) ELSE BatchSize
               /\ pending' = Taken(S)
               /\ popped' = [popped EXCEPT ![i] = S]
               /\ flushAt' = [flushAt EXCEPT ![i] = "load"]
               /\ loaded' = [loaded EXCEPT ![i] = {}]
    <3>1. PICK S \in SUBSET pending \ {{}} :
            /\ Cardinality(S) = IF Cardinality(pending) < BatchSize
                                THEN Cardinality(pending) ELSE BatchSize
            /\ pending' = Taken(S)
            /\ popped' = [popped EXCEPT ![i] = S]
            /\ flushAt' = [flushAt EXCEPT ![i] = "load"]
            /\ loaded' = [loaded EXCEPT ![i] = {}]
      BY <2>2
    <3>2. Cardinality(pending) \in Nat
      BY FS_CardinalityType DEF LogInv, LogsFinite
    <3>3. Cardinality(S) <= BatchSize
      BY <3>1, <3>2, RequestLogAssumption
    <3> QED
      BY <3>1, <3>3 DEF Taken
  <2> QED
    BY <2>1, <2>2 DEF FlushPops
<1>3. LogTypeOK' /\ (loaded \in [Flusher -> SUBSET Log])'
  BY <1>1, <1>2 DEF LogInv, LogTypeOK
<1>4. IsFiniteSet(S) /\ IsFiniteSet(pending \ S)
  <2>1. pending \ S \in SUBSET pending
    OBVIOUS
  <2> QED
    BY <2>1, FS_Subset DEF LogInv, LogsFinite
<1>5. LogsFinite' /\ LogsCountedOnce'
  BY <1>1, <1>2, <1>4 DEF LogInv, LogsFinite, LogsCountedOnce, LogTypeOK
<1>6. Held(i)' \subseteq S /\ \A k \in Flusher \ {i} : Held(k)' = Held(k)
  BY <1>2 DEF Held, LogInv, LogTypeOK
<1>7. OnePlace'
  BY <1>2, <1>6 DEF LogInv, OnePlace
<1>8. NoRowYet'
  BY <1>1, <1>2, <1>6 DEF LogInv, NoRowYet
<1> QED
  BY <1>3, <1>5, <1>7, <1>8 DEF LogInv

LEMMA FlushWritesKeeps ==
  ASSUME LogInv, NEW i \in Flusher, FlushWrites(i)
  PROVE  LogInv'
<1> USE DEF logBounds, logTables, logStore, LogFault
<1>1. /\ flushAt[i] = "write" /\ UNCHANGED <<recorded, bodies, pending, popped, loaded, dropped, direct>>
  BY DEF FlushWrites
<1>2. CASE Written(loaded[i]) /\ flushAt' = [flushAt EXCEPT ![i] = "delete"] /\ UNCHANGED missed
  <2>1. loaded[i] \in SUBSET Log /\ loaded[i] \subseteq popped[i] /\ Held(i) = popped[i]
    BY <1>1 DEF LogInv, LogTypeOK, Held
  <2>2. IsFiniteSet(loaded[i])
    BY <2>1, FS_Subset DEF LogInv, LogsFinite
  <2>3. \A l \in loaded[i] : rows[l] = 0 /\ recorded[l] = "yes"
    BY <2>1 DEF LogInv, NoRowYet
  <2>4. /\ rows' \in [Log -> Nat] /\ hourly' \in Nat /\ LogsCountedOnce'
        /\ IsFiniteSet({l \in Log : rows'[l] # 0})
        /\ \A l \in Log \ loaded[i] : rows'[l] = rows[l]
    BY <1>2, <2>1, <2>2, <2>3, WrittenCounts DEF LogInv, LogTypeOK, LogsFinite
  <2>5. LogTypeOK' /\ (loaded \in [Flusher -> SUBSET Log])'
    BY <1>1, <1>2, <2>4 DEF LogInv, LogTypeOK
  <2>6. LogsFinite'
    BY <1>1, <2>4 DEF LogInv, LogsFinite
  <2>7. Held(i)' = {} /\ \A k \in Flusher \ {i} : Held(k)' = Held(k)
    BY <1>1, <1>2 DEF Held, LogInv, LogTypeOK
  <2>8. OnePlace'
    BY <1>1, <2>7 DEF LogInv, OnePlace
  <2>9. \* what others hold or what is in the set is not written
        /\ pending \cap loaded[i] = {}
        /\ \A k \in Flusher \ {i} : Held(k) \cap loaded[i] = {}
    BY <2>1 DEF LogInv, OnePlace
  <2>10. /\ \A k \in Flusher : Held(k) \subseteq Log
         /\ pending \subseteq Log
    BY DEF LogInv, LogTypeOK, Held
  <2>11. NoRowYet'
    <3>1. \A l \in pending' : recorded'[l] = "yes" /\ rows'[l] = 0
      BY <1>1, <2>4, <2>9, <2>10 DEF LogInv, NoRowYet
    <3>2. \A k \in Flusher : \A l \in Held(k)' : recorded'[l] = "yes" /\ rows'[l] = 0
      BY <1>1, <2>4, <2>7, <2>9, <2>10 DEF LogInv, NoRowYet
    <3>3. \A l \in Log : recorded'[l] \in {"no", "body"} => rows'[l] = 0
      BY <1>1, <2>3, <2>4 DEF LogInv, NoRowYet
    <3> QED
      BY <3>1, <3>2, <3>3 DEF NoRowYet
  <2> QED
    BY <2>4, <2>5, <2>6, <2>8, <2>11 DEF LogInv
<1>3. CASE /\ flushAt' = [flushAt EXCEPT ![i] = "readd"]
           /\ missed' = [l \in Log |-> IF l \in popped[i] /\ missed[l] < Patience
                                       THEN missed[l] + 1 ELSE missed[l]]
           /\ UNCHANGED <<rows, hourly>>
  <2>1. missed' \in [Log -> 0 .. Patience]
    BY <1>3, RequestLogAssumption DEF LogInv, LogTypeOK
  <2>2. LogTypeOK' /\ (loaded \in [Flusher -> SUBSET Log])'
    BY <1>1, <1>3, <2>1 DEF LogInv, LogTypeOK
  <2>3. \A k \in Flusher : Held(k)' = Held(k)
    BY <1>1, <1>3 DEF Held, LogInv, LogTypeOK
  <2> QED
    BY <1>1, <1>3, <2>2, <2>3, TablesAlone DEF LogInv
<1> QED
  BY <1>2, <1>3 DEF FlushWrites

LEMMA FlushReaddsKeeps ==
  ASSUME LogInv, NEW i \in Flusher, FlushReadds(i)
  PROVE  LogInv'
<1> USE DEF logBounds, logTables, LogFault
<1>1. /\ flushAt[i] = "readd" /\ flushAt' = [flushAt EXCEPT ![i] = "idle"]
      /\ UNCHANGED <<recorded, bodies, popped, loaded, rows, hourly, missed, direct>>
      /\ pending' = pending \cup popped[i] \/ UNCHANGED pending
  BY DEF FlushReadds, PutBack
<1>2. dropped' \subseteq Log
  BY DEF FlushReadds, LogInv, LogTypeOK
<1>3. LogTypeOK' /\ (loaded \in [Flusher -> SUBSET Log])'
  BY <1>1, <1>2 DEF LogInv, LogTypeOK
<1>4. Held(i) = popped[i] /\ Held(i)' = {} /\ \A k \in Flusher \ {i} : Held(k)' = Held(k)
  BY <1>1 DEF Held, LogInv, LogTypeOK
<1>5. OnePlace'
  BY <1>1, <1>4 DEF LogInv, OnePlace
<1>6. NoRowYet'
  BY <1>1, <1>4 DEF LogInv, NoRowYet
<1>7. LogsFinite' /\ LogsCountedOnce'
  BY <1>1, FS_Union DEF LogInv, LogsFinite, LogsCountedOnce
<1> QED
  BY <1>3, <1>5, <1>6, <1>7 DEF LogInv

\* The steps of an instance that only give up what it holds, or nothing.
LEMMA FlushRestKeeps ==
  ASSUME LogInv, NEW i \in Flusher,
         FlushStarts(i) \/ FlushLoads(i) \/ FlushDeletes(i)
  PROVE  LogInv'
<1> USE DEF logBounds, logTables, logStore, LogFault
<1>1. UNCHANGED <<recorded, pending, popped, rows, hourly, missed, direct>>
  BY DEF FlushStarts, FlushLoads, FlushDeletes
<1>2. \A k \in Flusher : Held(k)' \subseteq Held(k)
  BY <1>1 DEF FlushStarts, FlushLoads, FlushDeletes, Held, LogInv, LogTypeOK
<1>3. LogTypeOK' /\ (loaded \in [Flusher -> SUBSET Log])'
  BY <1>1 DEF FlushStarts, FlushLoads, FlushDeletes, LogInv, LogTypeOK
<1> QED
  BY <1>1, <1>2, <1>3, TablesAlone DEF LogInv

LEMMA FlusherCrashesKeeps ==
  ASSUME LogInv, NEW i \in Flusher, FlusherCrashes(i)
  PROVE  LogInv'
<1> USE DEF logTables, logStore
<1>1. /\ UNCHANGED <<recorded, bodies, pending, rows, hourly, missed, direct>>
      /\ flushAt' = [flushAt EXCEPT ![i] = "idle"]
      /\ popped' = [popped EXCEPT ![i] = {}] /\ loaded' = [loaded EXCEPT ![i] = {}]
      /\ dropped' \subseteq Log
  BY DEF FlusherCrashes, LogInv, LogTypeOK
<1>2. LogTypeOK' /\ (loaded \in [Flusher -> SUBSET Log])'
  BY <1>1, FS_EmptySet, RequestLogAssumption DEF LogInv, LogTypeOK
<1>3. Held(i)' = {} /\ \A k \in Flusher \ {i} : Held(k)' = Held(k)
  BY <1>1 DEF Held, LogInv, LogTypeOK
<1>4. OnePlace' /\ NoRowYet'
  BY <1>1, <1>3 DEF LogInv, OnePlace, NoRowYet
<1>5. LogsFinite' /\ LogsCountedOnce'
  BY <1>1, FS_EmptySet DEF LogInv, LogTypeOK, LogsFinite, LogsCountedOnce
<1> QED
  BY <1>2, <1>4, <1>5 DEF LogInv

LEMMA LogStep == LogInv /\ [LogNext]_logVars => LogInv'
<1> SUFFICES ASSUME LogInv, [LogNext]_logVars PROVE LogInv'
  OBVIOUS
<1>1. ASSUME NEW l \in Log, RecordDirect(l) \/ RecordBody(l) \/ RecordPending(l) PROVE LogInv'
  BY <1>1, RecordKeeps
<1>2. ASSUME NEW i \in Flusher, FlushStarts(i) \/ FlushSteps(i) \/ FlusherCrashes(i)
      PROVE  LogInv'
  BY <1>2, FlushPopsKeeps, FlushWritesKeeps, FlushReaddsKeeps, FlushRestKeeps,
     FlusherCrashesKeeps DEF FlushSteps
<1>3. CASE \/ SetInterval \/ UNCHANGED logVars
           \/ \E l \in Log : BodyExpires(l)
  <2>1. UNCHANGED <<recorded, pending, flushAt, popped, loaded, rows, hourly, missed, dropped>>
    BY <1>3 DEF SetInterval, logVars, BodyExpires, flushing, logTables, logStore
  <2>2. direct' \in BOOLEAN /\ bodies' \subseteq Log
    BY <1>3 DEF SetInterval, logVars, BodyExpires, logBounds, logStore, LogInv, LogTypeOK
  <2>3. \A k \in Flusher : Held(k)' = Held(k)
    BY <2>1 DEF Held
  <2>4. LogTypeOK' /\ (loaded \in [Flusher -> SUBSET Log])'
    BY <2>1, <2>2 DEF LogInv, LogTypeOK
  <2> QED
    BY <2>1, <2>3, <2>4, TablesAlone DEF LogInv
<1> QED
  BY <1>1, <1>2, <1>3 DEF LogNext

\* A log is one row at most and the hourly counters are those of the rows, for any number of
\* instances, logs and faults and any size of a batch (Record, flush, writeLogsToDB).
THEOREM LogsCountedCorrect == Spec => []LogsCountedOnce
<1>1. ServicesInit => LogInv
  BY LogInitial DEF ServicesInit
<1>2. LogInv /\ [ServicesNext]_vars => LogInv'
  BY LogStep, LogPart
<1>3. LogInv => LogsCountedOnce
  BY DEF LogInv
<1> QED
  BY <1>1, <1>2, <1>3, PTL DEF Spec

--------------------------------------------------------------------------
(* The limits of a key *)

Request ==
    [at : {"idle", "rotate", "day", "minute+", "day+"}, key : LimitedKey \cup {NoKey},
     seen : SUBSET LimitedKey, fallback : LimitedKey \cup {NoKey}]

RateShape ==
    /\ minute \in Counters /\ day \in Counters /\ lentMinute \in Counters /\ lentDay \in Counters
    /\ ask \in [Asker -> Request]
    /\ \A a \in Asker : ask[a].at \in {"day", "minute+", "day+"} => ask[a].key \in LimitedKey
    /\ ledgerFaults \in Nat

\* Requests that the counter of the minute, or of the day, let pass and that it does not
\* count yet.
ToMinute(k) == {a \in Asker : ask[a].at \in {"day", "minute+"} /\ ask[a].key = k /\ Passed(a)}
ToDay(k) == {a \in Asker : ask[a].at \in {"minute+", "day+"} /\ ask[a].key = k /\ Passed(a)}

\* What a key was lent in a window is counted, but for the calls that failed; and with those
\* that still wait to be counted it stays within the room.
Within(limit, faults, lent, count, waiting) ==
    limit > 0 => /\ lent <= count + faults
                 /\ lent + Cardinality(waiting) <= limit + Cardinality(Asker) - 1 + faults

RateInv ==
    /\ RateShape
    /\ \A k \in LimitedKey :
         /\ Within(RPM, ledgerFaults, lentMinute[k], minute[k], ToMinute(k))
         /\ Within(RPD, ledgerFaults, lentDay[k], day[k], ToDay(k))

\* How many wait, and how that changes with one of them.
LEMMA WaitingCount ==
  ASSUME NEW W \in SUBSET Asker, NEW a \in Asker
  PROVE  /\ Cardinality(W) \in 0 .. Cardinality(Asker) /\ Cardinality(Asker) \in Nat
         /\ \A V \in SUBSET W : Cardinality(V) <= Cardinality(W) /\ Cardinality(V) \in Nat
         /\ \A V \in SUBSET (W \cup {a}) : Cardinality(V) <= Cardinality(W) + 1
         /\ a \in W => Cardinality(W \ {a}) = Cardinality(W) - 1
<1>1. IsFiniteSet(Asker) /\ IsFiniteSet(W)
  BY RateLedgerAssumption, FS_Subset
<1>2. Cardinality(Asker) \in Nat /\ Cardinality(W) \in Nat /\ Cardinality(W) <= Cardinality(Asker)
  BY <1>1, FS_Subset, FS_CardinalityType
<1>3. ASSUME NEW V \in SUBSET W PROVE Cardinality(V) <= Cardinality(W) /\ Cardinality(V) \in Nat
  BY <1>1, FS_Subset, FS_CardinalityType
<1>4. ASSUME NEW V \in SUBSET (W \cup {a}) PROVE Cardinality(V) <= Cardinality(W) + 1
  <2>1. IsFiniteSet(W \cup {a}) /\ Cardinality(W \cup {a}) <= Cardinality(W) + 1
        /\ Cardinality(W \cup {a}) \in Nat
    <3>1. /\ IsFiniteSet(W \cup {a})
          /\ Cardinality(W \cup {a}) = IF a \in W THEN Cardinality(W) ELSE Cardinality(W) + 1
      BY <1>1, FS_AddElement
    <3> QED
      BY <1>2, <3>1
  <2>2. Cardinality(V) <= Cardinality(W \cup {a}) /\ Cardinality(V) \in Nat
    BY <2>1, FS_Subset, FS_CardinalityType
  <2> QED
    BY <1>2, <2>1, <2>2
<1>5. a \in W => Cardinality(W \ {a}) = Cardinality(W) - 1
  BY <1>1, FS_RemoveElement
<1> QED
  BY <1>2, <1>3, <1>4, <1>5

\* What a step may do to a window: let fewer wait, count more and fail; let one pass below
\* the limit; let one pass unread; count one; fail to count one; begin again.
LEMMA WindowMoves ==
  ASSUME NEW limit \in Nat, NEW f \in Nat, NEW lent \in Nat, NEW count \in Nat,
         NEW W \in SUBSET Asker, NEW V \in SUBSET Asker, NEW a \in Asker,
         Within(limit, f, lent, count, W)
  PROVE  /\ V \subseteq W => Within(limit, f, lent, count, V)
         /\ V \subseteq W => Within(limit, f, lent, count + 1, V)
         /\ V \subseteq W => Within(limit, f + 1, lent, count, V)
         /\ ~Spent(count, limit) => Within(limit, f, lent, count, V)
         /\ V \subseteq W \cup {a} => Within(limit, f + 1, lent, count, V)
         /\ a \in W /\ V = W \ {a} => Within(limit, f, lent + 1, count + 1, V)
         /\ a \in W /\ V = W \ {a} => Within(limit, f + 1, lent + 1, count, V)
         /\ Within(limit, f, 0, 0, V)
<1> DEFINE w == Cardinality(W)  v == Cardinality(V)  n == Cardinality(Asker)
<1>1. w \in 0 .. n /\ v \in 0 .. n /\ n \in Nat
  BY WaitingCount
<1>2. /\ V \subseteq W => v <= w
      /\ V \subseteq W \cup {a} => v <= w + 1
      /\ a \in W /\ V = W \ {a} => v = w - 1
  BY WaitingCount
<1>3. limit > 0 => lent <= count + f /\ lent + w <= limit + n - 1 + f
  BY DEF Within
<1> HIDE DEF w, v, n
<1>4. \A g, l, c \in Nat :
        (limit > 0 => l <= c + g /\ l + v <= limit + n - 1 + g) => Within(limit, g, l, c, V)
  BY DEF Within, v, n
<1>5. V \subseteq W => Within(limit, f, lent, count, V)
  BY <1>1, <1>2, <1>3, <1>4
<1>6. V \subseteq W => Within(limit, f, lent, count + 1, V)
  BY <1>1, <1>2, <1>3, <1>4
<1>7. V \subseteq W => Within(limit, f + 1, lent, count, V)
  BY <1>1, <1>2, <1>3, <1>4
<1>8. ~Spent(count, limit) => Within(limit, f, lent, count, V)
  BY <1>1, <1>3, <1>4 DEF Spent
<1>9. V \subseteq W \cup {a} => Within(limit, f + 1, lent, count, V)
  BY <1>1, <1>2, <1>3, <1>4
<1>10. a \in W /\ V = W \ {a} => Within(limit, f, lent + 1, count + 1, V)
  BY <1>1, <1>2, <1>3, <1>4
<1>11. a \in W /\ V = W \ {a} => Within(limit, f + 1, lent + 1, count, V)
  BY <1>1, <1>2, <1>3, <1>4
<1>12. Within(limit, f, 0, 0, V)
  BY <1>1, <1>4
<1> QED
  BY <1>5, <1>6, <1>7, <1>8, <1>9, <1>10, <1>11, <1>12

\* The numbers behind a window of which one request leaves, or none.
LEMMA WaitingNumbers ==
  ASSUME NEW W \in SUBSET Asker, NEW V \in SUBSET W
  PROVE  /\ Cardinality(W) \in Nat /\ Cardinality(V) \in Nat /\ Cardinality(Asker) \in Nat
         /\ Cardinality(V) <= Cardinality(W)
         /\ \A a \in W : V = W \ {a} => Cardinality(V) = Cardinality(W) - 1
  BY RateLedgerAssumption, FS_Subset, FS_CardinalityType, FS_RemoveElement

LEMMA RateInitial == RateInit => RateInv
<1> SUFFICES ASSUME RateInit PROVE RateInv
  OBVIOUS
<1>1. RateShape
  BY DEF RateInit, RateShape, Request, Idle, Counters
<1>2. ASSUME NEW k \in LimitedKey PROVE ToMinute(k) = {} /\ ToDay(k) = {}
  BY DEF RateInit, ToMinute, ToDay, Idle
<1>3. ASSUME NEW limit \in Nat PROVE Within(limit, 0, 0, 0, {})
  <2>1. Cardinality({}) = 0 /\ Cardinality(Asker) \in Nat
    BY FS_EmptySet, FS_CardinalityType, RateLedgerAssumption
  <2> QED
    BY <2>1 DEF Within
<1> QED
  BY <1>1, <1>2, <1>3, RateLedgerAssumption DEF RateInit, RateInv

\* A request that moves changes at most its own place among those that wait.
LEMMA OnlyItsPlace ==
  ASSUME RateShape, NEW a \in Asker, NEW now \in Request, AskGoes(a, now),
         now.at \in {"day", "minute+", "day+"} => now.key \in LimitedKey
  PROVE  /\ ask' \in [Asker -> Request]
         /\ \A b \in Asker : ask'[b].at \in {"day", "minute+", "day+"} => ask'[b].key \in LimitedKey
         /\ \A k \in LimitedKey :
              /\ ToMinute(k)' = IF /\ now.at \in {"day", "minute+"} /\ now.key = k
                                   /\ now.key # now.fallback
                                THEN ToMinute(k) \cup {a} ELSE ToMinute(k) \ {a}
              /\ ToDay(k)' = IF /\ now.at \in {"minute+", "day+"} /\ now.key = k
                                /\ now.key # now.fallback
                             THEN ToDay(k) \cup {a} ELSE ToDay(k) \ {a}
<1>1. \A b \in Asker : ask'[b] = IF b = a THEN now ELSE ask[b]
  BY DEF AskGoes, RateShape
<1>2. ask' \in [Asker -> Request]
  BY DEF AskGoes, RateShape
<1>3. \A b \in Asker : ask'[b].at \in {"day", "minute+", "day+"} => ask'[b].key \in LimitedKey
  BY <1>1 DEF RateShape
<1>4. ASSUME NEW k \in LimitedKey
      PROVE  /\ ToMinute(k)' = IF /\ now.at \in {"day", "minute+"} /\ now.key = k
                                  /\ now.key # now.fallback
                               THEN ToMinute(k) \cup {a} ELSE ToMinute(k) \ {a}
             /\ ToDay(k)' = IF /\ now.at \in {"minute+", "day+"} /\ now.key = k
                               /\ now.key # now.fallback
                            THEN ToDay(k) \cup {a} ELSE ToDay(k) \ {a}
  BY <1>1 DEF ToMinute, ToDay, Passed
<1> QED
  BY <1>2, <1>3, <1>4

LEMMA WaitingTypes ==
  ASSUME NEW k
  PROVE  ToMinute(k) \in SUBSET Asker /\ ToDay(k) \in SUBSET Asker
         /\ ToMinute(k)' \in SUBSET Asker /\ ToDay(k)' \in SUBSET Asker
  BY DEF ToMinute, ToDay

\* Requests that ask, rotate or give up let no more wait; what they read decides the rest.
LEMMA LooksKeep ==
  ASSUME RateInv, NEW a \in Asker, NEW now \in Request, AskGoes(a, now),
         now.at \in {"day", "minute+", "day+"} => now.key \in LimitedKey,
         UNCHANGED <<minute, day, lentMinute, lentDay>>,
         \/ UNCHANGED ledgerFaults
            /\ (now.at \in {"day", "minute+"} /\ now.key # now.fallback =>
                    ~Spent(minute[now.key], RPM) \/ a \in ToMinute(now.key))
            /\ (now.at \in {"minute+", "day+"} /\ now.key # now.fallback =>
                    ~Spent(day[now.key], RPD) \/ a \in ToDay(now.key))
         \/ ledgerFaults' = ledgerFaults + 1
  PROVE  RateInv'
<1>1. RateShape'
  BY OnlyItsPlace DEF RateInv, RateShape
<1>2. ASSUME NEW k \in LimitedKey
      PROVE  /\ Within(RPM, ledgerFaults, lentMinute[k], minute[k], ToMinute(k))'
             /\ Within(RPD, ledgerFaults, lentDay[k], day[k], ToDay(k))'
  <2>1. /\ minute[k] \in Nat /\ day[k] \in Nat /\ lentMinute[k] \in Nat /\ lentDay[k] \in Nat
        /\ ledgerFaults \in Nat /\ RPM \in Nat /\ RPD \in Nat
    BY RateLedgerAssumption DEF RateInv, RateShape, Counters
  <2>2. /\ Within(RPM, ledgerFaults, lentMinute[k], minute[k], ToMinute(k))
        /\ Within(RPD, ledgerFaults, lentDay[k], day[k], ToDay(k))
    BY DEF RateInv
  <2>3. /\ ToMinute(k)' \subseteq ToMinute(k) \cup {a} /\ ToDay(k)' \subseteq ToDay(k) \cup {a}
        /\ ~(ToMinute(k)' \subseteq ToMinute(k)) =>
             now.at \in {"day", "minute+"} /\ now.key # now.fallback /\ now.key = k
             /\ a \notin ToMinute(k)
        /\ ~(ToDay(k)' \subseteq ToDay(k)) =>
             now.at \in {"minute+", "day+"} /\ now.key # now.fallback /\ now.key = k
             /\ a \notin ToDay(k)
    BY OnlyItsPlace DEF RateInv
  <2>4. CASE ledgerFaults' = ledgerFaults + 1
    <3>1. /\ Within(RPM, ledgerFaults + 1, lentMinute[k], minute[k], ToMinute(k)')
          /\ Within(RPD, ledgerFaults + 1, lentDay[k], day[k], ToDay(k)')
      BY <2>1, <2>2, <2>3, WaitingTypes, WindowMoves
    <3> QED
      BY <3>1, <2>4 DEF Within
  <2>5. CASE ledgerFaults' # ledgerFaults + 1
    <3>1. /\ (ToMinute(k)' \subseteq ToMinute(k)) \/ ~Spent(minute[k], RPM)
          /\ (ToDay(k)' \subseteq ToDay(k)) \/ ~Spent(day[k], RPD)
      BY <2>3, <2>5
    <3>2. /\ Within(RPM, ledgerFaults, lentMinute[k], minute[k], ToMinute(k)')
          /\ Within(RPD, ledgerFaults, lentDay[k], day[k], ToDay(k)')
      BY <2>1, <2>2, <3>1, WaitingTypes, WindowMoves
    <3> QED
      BY <3>2, <2>5 DEF Within
  <2> QED
    BY <2>4, <2>5
<1> QED
  BY <1>1, <1>2 DEF RateInv

LEMMA LookingSteps ==
  ASSUME RateInv, NEW a \in Asker, Asks(a) \/ Rotates(a) \/ ReadsDay(a) \/ Exhausted(a)
  PROVE  RateInv'
<1>1. /\ ask[a] \in Request /\ ledgerFaults \in Nat
      /\ ask[a].at \in {"day", "minute+", "day+"} => ask[a].key \in LimitedKey
  BY DEF RateInv, RateShape
<1>2. UNCHANGED <<minute, day, lentMinute, lentDay>>
  BY DEF Asks, Rotates, ReadsDay, Exhausted
<1>3. CASE Asks(a)
  <2> DEFINE now == [Idle EXCEPT !.at = "rotate"]
  <2>1. now \in Request /\ now.at = "rotate"
    BY DEF Idle, Request
  <2>2. AskGoes(a, now) /\ UNCHANGED ledgerFaults
    BY <1>3 DEF Asks
  <2> HIDE DEF now
  <2> QED
    BY <1>2, <2>1, <2>2, LooksKeep
<1>4. CASE Rotates(a)
  <2>1. PICK k \in LimitedKey \ ask[a].seen :
          LET next == [ask[a] EXCEPT !.seen = @ \cup {k}] IN
          \/ /\ k \in cooled
             /\ AskGoes(a, [next EXCEPT !.fallback = IF @ = NoKey THEN k ELSE @])
             /\ UNCHANGED ledgerFaults
          \/ /\ k \notin cooled
             /\ \/ /\ AskGoes(a, IF Spent(minute[k], RPM) THEN next
                                 ELSE [next EXCEPT !.at = "day", !.key = k])
                   /\ UNCHANGED ledgerFaults
                \/ /\ AskGoes(a, [next EXCEPT !.at = "minute+", !.key = k])
                   /\ LedgerFault
    BY <1>4 DEF Rotates
  <2> DEFINE next == [ask[a] EXCEPT !.seen = @ \cup {k}]
             cold == [next EXCEPT !.fallback = IF @ = NoKey THEN k ELSE @]
             seen == [next EXCEPT !.at = "day", !.key = k]
             blind == [next EXCEPT !.at = "minute+", !.key = k]
  <2>2. ask[a].at = "rotate"
    BY <1>4 DEF Rotates
  <2>3. /\ next \in Request /\ next.at = "rotate"
        /\ cold \in Request /\ cold.at = "rotate"
        /\ seen \in Request /\ seen.at = "day" /\ seen.key = k
        /\ blind \in Request /\ blind.at = "minute+" /\ blind.key = k
    BY <1>1, <2>2 DEF Request
  <2>4. \/ AskGoes(a, cold) /\ UNCHANGED ledgerFaults
        \/ AskGoes(a, next) /\ UNCHANGED ledgerFaults
        \/ AskGoes(a, seen) /\ ~Spent(minute[k], RPM) /\ UNCHANGED ledgerFaults
        \/ AskGoes(a, blind) /\ ledgerFaults' = ledgerFaults + 1
    BY <2>1 DEF LedgerFault
  <2> HIDE DEF next, cold, seen, blind
  <2>5. CASE AskGoes(a, cold) /\ UNCHANGED ledgerFaults
    <3>1. cold \in Request /\ cold.at = "rotate"
      BY <2>3
    <3> QED
      BY <1>2, <2>5, <3>1, LooksKeep
  <2>6. CASE AskGoes(a, next) /\ UNCHANGED ledgerFaults
    <3>1. next \in Request /\ next.at = "rotate"
      BY <2>3
    <3> QED
      BY <1>2, <2>6, <3>1, LooksKeep
  <2>7. CASE AskGoes(a, seen) /\ ~Spent(minute[k], RPM) /\ UNCHANGED ledgerFaults
    <3>1. seen \in Request /\ seen.at = "day" /\ seen.key = k
      BY <2>3
    <3> QED
      BY <1>2, <2>7, <3>1, LooksKeep
  <2>8. CASE AskGoes(a, blind) /\ ledgerFaults' = ledgerFaults + 1
    <3>1. blind \in Request /\ blind.at = "minute+" /\ blind.key = k
      BY <2>3
    <3> QED
      BY <1>2, <2>8, <3>1, LooksKeep
  <2> QED
    BY <2>4, <2>5, <2>6, <2>7, <2>8
<1>5. CASE ReadsDay(a)
  <2> DEFINE back == [ask[a] EXCEPT !.at = "rotate"]
             on == [ask[a] EXCEPT !.at = "minute+"]
  <2>1. ask[a].at = "day"
    BY <1>5 DEF ReadsDay
  <2>2. /\ back \in Request /\ back.at = "rotate"
        /\ on \in Request /\ on.at = "minute+" /\ on.key = ask[a].key
        /\ on.fallback = ask[a].fallback
    BY <1>1 DEF Request
  <2>3. on.key # on.fallback => a \in ToMinute(on.key)
    BY <2>1, <2>2 DEF ToMinute, Passed
  <2>4. \/ AskGoes(a, back) /\ UNCHANGED ledgerFaults
        \/ AskGoes(a, on) /\ ~Spent(day[on.key], RPD) /\ UNCHANGED ledgerFaults
        \/ AskGoes(a, on) /\ ledgerFaults' = ledgerFaults + 1
    BY <1>5, <2>2 DEF ReadsDay, LedgerFault
  <2>5. on.key \in LimitedKey
    BY <1>1, <2>1, <2>2
  <2> HIDE DEF back, on
  <2>6. CASE AskGoes(a, back) /\ UNCHANGED ledgerFaults
    BY <1>2, <2>2, <2>6, LooksKeep
  <2>7. CASE AskGoes(a, on) /\ ~Spent(day[on.key], RPD) /\ UNCHANGED ledgerFaults
    BY <1>2, <2>2, <2>3, <2>5, <2>7, LooksKeep
  <2>8. CASE AskGoes(a, on) /\ ledgerFaults' = ledgerFaults + 1
    BY <1>2, <2>2, <2>5, <2>8, LooksKeep
  <2> QED
    BY <2>4, <2>6, <2>7, <2>8
<1>6. CASE Exhausted(a)
  <2> DEFINE lent == [ask[a] EXCEPT !.at = "minute+", !.key = ask[a].fallback]
  <2>1. /\ Idle \in Request /\ Idle.at = "idle"
        /\ lent \in Request /\ lent.key = ask[a].fallback /\ lent.key = lent.fallback
        /\ ask[a].fallback # NoKey => lent.key \in LimitedKey
    BY <1>1 DEF Idle, Request
  <2>2. \/ AskGoes(a, Idle) /\ UNCHANGED ledgerFaults
        \/ AskGoes(a, lent) /\ ask[a].fallback # NoKey /\ UNCHANGED ledgerFaults
    BY <1>6 DEF Exhausted
  <2> HIDE DEF lent
  <2>3. CASE AskGoes(a, Idle) /\ UNCHANGED ledgerFaults
    BY <1>2, <2>1, <2>3, LooksKeep
  <2>4. CASE AskGoes(a, lent) /\ ask[a].fallback # NoKey /\ UNCHANGED ledgerFaults
    BY <1>2, <2>1, <2>4, LooksKeep
  <2> QED
    BY <2>2, <2>3, <2>4
<1> QED
  BY <1>3, <1>4, <1>5, <1>6

LEMMA CountersAdd ==
  ASSUME NEW counter \in Counters, NEW k \in LimitedKey
  PROVE  /\ Add(counter, k) \in Counters /\ Add(counter, k)[k] = counter[k] + 1
         /\ \A j \in LimitedKey \ {k} : Add(counter, k)[j] = counter[j]
  BY DEF Counters, Add

\* One that waited is counted in its minute, or the count fails and the day's with it.
LEMMA RecordsMinuteKeeps ==
  ASSUME RateInv, NEW a \in Asker, RecordsMinute(a)
  PROVE  RateInv'
<1> DEFINE key == ask[a].key
           next == [ask[a] EXCEPT !.at = "day+"]
<1>1. /\ ask[a] \in Request /\ ask[a].at = "minute+" /\ key \in LimitedKey
      /\ minute \in Counters /\ day \in Counters /\ lentMinute \in Counters /\ lentDay \in Counters
      /\ ledgerFaults \in Nat /\ RPM \in Nat /\ RPD \in Nat /\ UNCHANGED day
  BY RateLedgerAssumption DEF RateInv, RateShape, RecordsMinute
<1>2. /\ next \in Request /\ next.at = "day+" /\ next.key = key
      /\ next.fallback = ask[a].fallback /\ Idle \in Request /\ Idle.at = "idle"
  BY <1>1 DEF Request, Idle
<1>3. lentMinute' = IF Passed(a) THEN Add(lentMinute, key) ELSE lentMinute
  BY DEF RecordsMinute
<1>4. \A k \in LimitedKey :
        /\ minute[k] \in Nat /\ day[k] \in Nat /\ lentMinute[k] \in Nat /\ lentDay[k] \in Nat
        /\ Within(RPM, ledgerFaults, lentMinute[k], minute[k], ToMinute(k))
        /\ Within(RPD, ledgerFaults, lentDay[k], day[k], ToDay(k))
  BY <1>1 DEF RateInv, Counters
<1>5. \A k \in LimitedKey : /\ a \in ToMinute(k) <=> k = key /\ Passed(a)
                            /\ a \in ToDay(k) <=> k = key /\ Passed(a)
  BY <1>1 DEF ToMinute, ToDay, Passed
<1>6. CASE /\ minute' = IF RPM > 0 THEN Add(minute, key) ELSE minute
           /\ AskGoes(a, next) /\ UNCHANGED <<lentDay, ledgerFaults>>
  <2>1. RateShape' /\ \A k \in LimitedKey : ToMinute(k)' = ToMinute(k) \ {a}
    <3> HIDE DEF next, key
    <3>1. /\ ask' \in [Asker -> Request]
          /\ \A b \in Asker : ask'[b].at \in {"day", "minute+", "day+"} => ask'[b].key \in LimitedKey
          /\ \A k \in LimitedKey : ToMinute(k)' = ToMinute(k) \ {a}
      BY <1>1, <1>2, <1>6, OnlyItsPlace DEF RateInv
    <3>2. minute' \in Counters /\ lentMinute' \in Counters
      BY <1>1, <1>3, <1>6, CountersAdd
    <3> QED
      BY <1>1, <1>6, <3>1, <3>2 DEF RateShape
  <2>2. ASSUME NEW k \in LimitedKey PROVE ToDay(k)' = ToDay(k)
    <3>1. ToDay(k)' = IF key = k /\ next.key # next.fallback
                      THEN ToDay(k) \cup {a} ELSE ToDay(k) \ {a}
      <4> HIDE DEF next, key
      <4> QED
        BY <1>1, <1>2, <1>6, OnlyItsPlace DEF RateInv
    <3> QED
      BY <1>2, <1>5, <3>1 DEF Passed
  <2>3. ASSUME NEW k \in LimitedKey
        PROVE  Within(RPM, ledgerFaults, lentMinute'[k], minute'[k], ToMinute(k)')
    <3> HIDE DEF key, next
    <3>0. /\ minute[k] \in Nat /\ day[k] \in Nat /\ lentMinute[k] \in Nat /\ lentDay[k] \in Nat
         /\ Within(RPM, ledgerFaults, lentMinute[k], minute[k], ToMinute(k))
         /\ Within(RPD, ledgerFaults, lentDay[k], day[k], ToDay(k))
      BY <1>4
    <3>1. RPM = 0 => Within(RPM, ledgerFaults, lentMinute'[k], minute'[k], ToMinute(k)')
      BY DEF Within
    <3>2. CASE RPM > 0 /\ k # key
      <4>1. lentMinute'[k] = lentMinute[k] /\ minute'[k] = minute[k]
        BY <1>1, <1>3, <1>6, <3>2, CountersAdd
      <4>2. /\ Cardinality(ToMinute(k)') <= Cardinality(ToMinute(k))
            /\ Cardinality(ToMinute(k)) \in Nat /\ Cardinality(ToMinute(k)') \in Nat
            /\ Cardinality(Asker) \in Nat
        BY <2>1, WaitingTypes, WaitingNumbers
      <4> QED
        BY <1>1, <3>0, <4>1, <4>2 DEF Within
    <3>3. CASE RPM > 0 /\ k = key /\ ~Passed(a)
      <4>1. lentMinute'[k] = lentMinute[k] /\ minute'[k] = minute[k] + 1
        BY <1>1, <1>3, <1>6, <3>3, CountersAdd
      <4>2. /\ Cardinality(ToMinute(k)') <= Cardinality(ToMinute(k))
            /\ Cardinality(ToMinute(k)) \in Nat /\ Cardinality(ToMinute(k)') \in Nat
            /\ Cardinality(Asker) \in Nat
        BY <2>1, WaitingTypes, WaitingNumbers
      <4> QED
        BY <1>1, <3>0, <4>1, <4>2 DEF Within
    <3>4. CASE RPM > 0 /\ k = key /\ Passed(a)
      <4>1. lentMinute'[k] = lentMinute[k] + 1 /\ minute'[k] = minute[k] + 1
        BY <1>1, <1>3, <1>6, <3>4, CountersAdd
      <4>2. /\ a \in ToMinute(k) /\ ToMinute(k)' = ToMinute(k) \ {a}
            /\ ToMinute(k) \in SUBSET Asker
        BY <1>5, <2>1, <3>4, WaitingTypes
      <4>3. /\ Cardinality(ToMinute(k)') = Cardinality(ToMinute(k)) - 1
            /\ Cardinality(ToMinute(k)) \in Nat /\ Cardinality(Asker) \in Nat
        BY <4>2, WaitingNumbers
      <4> QED
        BY <1>1, <3>0, <4>1, <4>3 DEF Within
    <3> QED
      BY <1>1, <3>1, <3>2, <3>3, <3>4
  <2> QED
    BY <1>1, <1>4, <1>6, <2>1, <2>2, <2>3 DEF RateInv, Within
<1>7. CASE /\ ledgerFaults' = ledgerFaults + 1 /\ AskGoes(a, Idle) /\ UNCHANGED minute
           /\ lentDay' = IF Passed(a) THEN Add(lentDay, key) ELSE lentDay
  <2> HIDE DEF key, next
  <2>1. /\ ask' \in [Asker -> Request]
        /\ \A b \in Asker : ask'[b].at \in {"day", "minute+", "day+"} => ask'[b].key \in LimitedKey
        /\ \A k \in LimitedKey : ToMinute(k)' = ToMinute(k) \ {a} /\ ToDay(k)' = ToDay(k) \ {a}
    BY <1>1, <1>2, <1>7, OnlyItsPlace DEF RateInv
  <2>2. RateShape'
    <3>1. lentMinute' \in Counters /\ lentDay' \in Counters
      BY <1>1, <1>3, <1>7, CountersAdd
    <3> QED
      BY <1>1, <1>7, <2>1, <3>1 DEF RateShape
  <2>3. ASSUME NEW k \in LimitedKey
        PROVE  /\ Within(RPM, ledgerFaults + 1, lentMinute'[k], minute[k], ToMinute(k)')
               /\ Within(RPD, ledgerFaults + 1, lentDay'[k], day[k], ToDay(k)')
    <3>0. /\ minute[k] \in Nat /\ day[k] \in Nat /\ lentMinute[k] \in Nat /\ lentDay[k] \in Nat
         /\ Within(RPM, ledgerFaults, lentMinute[k], minute[k], ToMinute(k))
         /\ Within(RPD, ledgerFaults, lentDay[k], day[k], ToDay(k))
      BY <1>4
    <3>1. CASE k = key /\ Passed(a)
      <4>1. lentMinute'[k] = lentMinute[k] + 1 /\ lentDay'[k] = lentDay[k] + 1
        BY <1>1, <1>3, <1>7, <3>1, CountersAdd
      <4>2. /\ a \in ToMinute(k) /\ ToMinute(k)' = ToMinute(k) \ {a}
            /\ a \in ToDay(k) /\ ToDay(k)' = ToDay(k) \ {a}
            /\ ToMinute(k) \in SUBSET Asker /\ ToDay(k) \in SUBSET Asker
        BY <1>5, <2>1, <3>1, WaitingTypes
      <4>3. /\ Cardinality(ToMinute(k)') = Cardinality(ToMinute(k)) - 1
            /\ Cardinality(ToMinute(k)) \in Nat /\ Cardinality(Asker) \in Nat
        BY <4>2, WaitingNumbers
      <4>4. /\ Cardinality(ToDay(k)') = Cardinality(ToDay(k)) - 1
            /\ Cardinality(ToDay(k)) \in Nat
        BY <4>2, WaitingNumbers
      <4>5. Within(RPM, ledgerFaults + 1, lentMinute[k] + 1, minute[k], ToMinute(k)')
        BY <1>1, <3>0, <4>3 DEF Within
      <4>6. Within(RPD, ledgerFaults + 1, lentDay[k] + 1, day[k], ToDay(k)')
        BY <1>1, <3>0, <4>3, <4>4 DEF Within
      <4> QED
        BY <4>1, <4>5, <4>6
    <3>2. CASE ~(k = key /\ Passed(a))
      <4>1. lentMinute'[k] = lentMinute[k] /\ lentDay'[k] = lentDay[k]
        BY <1>1, <1>3, <1>7, <3>2, CountersAdd
      <4>2. /\ ToMinute(k)' \in SUBSET ToMinute(k) /\ ToDay(k)' \in SUBSET ToDay(k)
            /\ ToMinute(k) \in SUBSET Asker /\ ToDay(k) \in SUBSET Asker
        BY <2>1, WaitingTypes
      <4>3. /\ Cardinality(ToMinute(k)') <= Cardinality(ToMinute(k))
            /\ Cardinality(ToMinute(k)) \in Nat /\ Cardinality(ToMinute(k)') \in Nat
            /\ Cardinality(Asker) \in Nat
        BY <4>2, WaitingNumbers
      <4>4. /\ Cardinality(ToDay(k)') <= Cardinality(ToDay(k))
            /\ Cardinality(ToDay(k)) \in Nat /\ Cardinality(ToDay(k)') \in Nat
        BY <4>2, WaitingNumbers
      <4>5. Within(RPM, ledgerFaults + 1, lentMinute[k], minute[k], ToMinute(k)')
        BY <1>1, <3>0, <4>3 DEF Within
      <4>6. Within(RPD, ledgerFaults + 1, lentDay[k], day[k], ToDay(k)')
        BY <1>1, <3>0, <4>3, <4>4 DEF Within
      <4> QED
        BY <4>1, <4>5, <4>6
    <3> QED
      BY <3>1, <3>2
  <2> QED
    BY <1>1, <1>7, <2>2, <2>3 DEF RateInv, Within
<1> QED
  BY <1>6, <1>7 DEF RecordsMinute, LedgerFault

LEMMA RecordsDayKeeps ==
  ASSUME RateInv, NEW a \in Asker, RecordsDay(a)
  PROVE  RateInv'
<1> DEFINE key == ask[a].key
<1>1. /\ ask[a] \in Request /\ ask[a].at = "day+" /\ key \in LimitedKey
      /\ minute \in Counters /\ day \in Counters /\ lentMinute \in Counters /\ lentDay \in Counters
      /\ ledgerFaults \in Nat /\ RPM \in Nat /\ RPD \in Nat /\ UNCHANGED <<minute, lentMinute>>
      /\ AskGoes(a, Idle)
  BY RateLedgerAssumption DEF RateInv, RateShape, RecordsDay
<1>2. lentDay' = IF Passed(a) THEN Add(lentDay, key) ELSE lentDay
  BY DEF RecordsDay
<1>3. \/ day' = (IF RPD > 0 THEN Add(day, key) ELSE day) /\ UNCHANGED ledgerFaults
      \/ ledgerFaults' = ledgerFaults + 1 /\ UNCHANGED day
  BY DEF RecordsDay, LedgerFault
<1>4. \A k \in LimitedKey :
        /\ minute[k] \in Nat /\ day[k] \in Nat /\ lentMinute[k] \in Nat /\ lentDay[k] \in Nat
        /\ Within(RPM, ledgerFaults, lentMinute[k], minute[k], ToMinute(k))
        /\ Within(RPD, ledgerFaults, lentDay[k], day[k], ToDay(k))
  BY <1>1 DEF RateInv, Counters
<1>5. \A k \in LimitedKey : a \in ToDay(k) <=> k = key /\ Passed(a)
  BY <1>1 DEF ToDay, Passed
<1> HIDE DEF key
<1>6. /\ ask' \in [Asker -> Request]
      /\ \A b \in Asker : ask'[b].at \in {"day", "minute+", "day+"} => ask'[b].key \in LimitedKey
      /\ \A k \in LimitedKey : ToMinute(k)' = ToMinute(k) \ {a} /\ ToDay(k)' = ToDay(k) \ {a}
  <2>1. Idle \in Request /\ Idle.at = "idle"
    BY DEF Idle, Request
  <2> QED
    BY <1>1, <2>1, OnlyItsPlace DEF RateInv
<1>7. RateShape'
  <2>1. day' \in Counters /\ lentDay' \in Counters
    BY <1>1, <1>2, <1>3, CountersAdd
  <2> QED
    BY <1>1, <1>3, <1>6, <2>1 DEF RateShape
<1>8. ASSUME NEW k \in LimitedKey
      PROVE  Within(RPM, ledgerFaults', lentMinute[k], minute[k], ToMinute(k)')
  <2>1. ToMinute(k)' \in SUBSET ToMinute(k) /\ ToMinute(k) \in SUBSET Asker
    BY <1>6, WaitingTypes
  <2>2. /\ Cardinality(ToMinute(k)') <= Cardinality(ToMinute(k))
        /\ Cardinality(ToMinute(k)) \in Nat /\ Cardinality(ToMinute(k)') \in Nat
        /\ Cardinality(Asker) \in Nat
    BY <2>1, WaitingNumbers
  <2>3. ledgerFaults' \in Nat /\ ledgerFaults <= ledgerFaults'
    BY <1>1, <1>3
  <2>4. /\ minute[k] \in Nat /\ lentMinute[k] \in Nat
        /\ Within(RPM, ledgerFaults, lentMinute[k], minute[k], ToMinute(k))
    BY <1>4
  <2> QED
    BY <1>1, <2>2, <2>3, <2>4 DEF Within
<1>9. ASSUME NEW k \in LimitedKey, RPD > 0
      PROVE  Within(RPD, ledgerFaults', lentDay'[k], day'[k], ToDay(k)')
  <2>0. /\ minute[k] \in Nat /\ day[k] \in Nat /\ lentMinute[k] \in Nat /\ lentDay[k] \in Nat
         /\ Within(RPM, ledgerFaults, lentMinute[k], minute[k], ToMinute(k))
         /\ Within(RPD, ledgerFaults, lentDay[k], day[k], ToDay(k))
    BY <1>4
  <2>1. CASE k = key /\ Passed(a)
    <3>1. lentDay'[k] = lentDay[k] + 1 /\ a \in ToDay(k) /\ ToDay(k)' = ToDay(k) \ {a}
      BY <1>1, <1>2, <1>5, <1>6, <2>1, CountersAdd
    <3>2. \/ day'[k] = day[k] + 1 /\ ledgerFaults' = ledgerFaults
          \/ day'[k] = day[k] /\ ledgerFaults' = ledgerFaults + 1
      BY <1>1, <1>3, <1>9, <2>1, CountersAdd
    <3>3. day'[k] \in Nat /\ ledgerFaults' \in Nat /\ ToDay(k) \in SUBSET Asker
      BY <1>1, <2>0, <3>2, WaitingTypes
    <3>4. /\ Cardinality(ToDay(k)') = Cardinality(ToDay(k)) - 1
          /\ Cardinality(ToDay(k)) \in Nat /\ Cardinality(Asker) \in Nat
      BY <3>1, <3>3, WaitingNumbers
    <3> QED
      BY <1>1, <2>0, <3>1, <3>2, <3>3, <3>4 DEF Within
  <2>2. CASE ~(k = key /\ Passed(a))
    <3>1. lentDay'[k] = lentDay[k] /\ ToDay(k)' \in SUBSET ToDay(k)
          /\ ToDay(k) \in SUBSET Asker
      BY <1>1, <1>2, <1>6, <2>2, CountersAdd, WaitingTypes
    <3>2. \/ day'[k] \in {day[k], day[k] + 1} /\ ledgerFaults' = ledgerFaults
          \/ day'[k] = day[k] /\ ledgerFaults' = ledgerFaults + 1
      BY <1>1, <1>3, CountersAdd
    <3>3. /\ day'[k] \in Nat /\ ledgerFaults' \in Nat
          /\ day[k] <= day'[k] /\ ledgerFaults <= ledgerFaults'
      BY <1>1, <1>4, <3>2
    <3>4. /\ Cardinality(ToDay(k)') <= Cardinality(ToDay(k))
          /\ Cardinality(ToDay(k)) \in Nat /\ Cardinality(ToDay(k)') \in Nat
          /\ Cardinality(Asker) \in Nat
      BY <3>1, WaitingNumbers
    <3> QED
      BY <1>1, <2>0, <3>1, <3>3, <3>4 DEF Within
  <2> QED
    BY <2>1, <2>2
<1>10. ASSUME NEW k \in LimitedKey
       PROVE  Within(RPD, ledgerFaults', lentDay'[k], day'[k], ToDay(k)')
  BY <1>9, <1>10 DEF Within
<1> QED
  BY <1>1, <1>7, <1>8, <1>10 DEF RateInv, Within

LEMMA MinutePassesKeeps ==
  ASSUME RateInv, MinutePasses
  PROVE  RateInv'
<1>1. /\ minute' = [k \in LimitedKey |-> 0] /\ lentMinute' = [k \in LimitedKey |-> 0]
      /\ \/ UNCHANGED <<day, lentDay>>
         \/ day' = [k \in LimitedKey |-> 0] /\ lentDay' = [k \in LimitedKey |-> 0]
      /\ UNCHANGED <<ask, ledgerFaults>>
  BY DEF MinutePasses
<1>2. RateShape'
  BY <1>1 DEF RateInv, RateShape, Counters
<1>3. ASSUME NEW k \in LimitedKey
      PROVE  /\ Within(RPM, ledgerFaults, lentMinute'[k], minute'[k], ToMinute(k))
             /\ Within(RPD, ledgerFaults, lentDay'[k], day'[k], ToDay(k))
  <2>1. \A limit \in Nat, W \in SUBSET Asker : Within(limit, ledgerFaults, 0, 0, W)
    <3> SUFFICES ASSUME NEW limit \in Nat, NEW W \in SUBSET Asker, limit > 0
                 PROVE  0 + Cardinality(W) <= limit + Cardinality(Asker) - 1 + ledgerFaults
                        /\ 0 <= 0 + ledgerFaults
      BY DEF Within
    <3>1. /\ Cardinality(W) \in Nat /\ Cardinality(Asker) \in Nat
          /\ Cardinality(W) <= Cardinality(Asker) /\ ledgerFaults \in Nat
      BY RateLedgerAssumption, FS_Subset, FS_CardinalityType DEF RateInv, RateShape
    <3> QED
      BY <3>1
  <2>2. /\ lentMinute'[k] = 0 /\ minute'[k] = 0
        /\ \/ lentDay'[k] = 0 /\ day'[k] = 0
           \/ lentDay'[k] = lentDay[k] /\ day'[k] = day[k]
    BY <1>1
  <2> QED
    BY <2>1, <2>2, WaitingTypes, RateLedgerAssumption DEF RateInv
<1>4. \A k \in LimitedKey : ToMinute(k)' = ToMinute(k) /\ ToDay(k)' = ToDay(k)
  BY <1>1 DEF ToMinute, ToDay, Passed
<1> QED
  BY <1>1, <1>2, <1>3, <1>4 DEF RateInv, Within

LEMMA RateStep == RateInv /\ [RateNext]_rateVars => RateInv'
<1> SUFFICES ASSUME RateInv, [RateNext]_rateVars PROVE RateInv'
  OBVIOUS
<1>1. ASSUME NEW a \in Asker, \/ Asks(a) \/ Rotates(a) \/ ReadsDay(a) \/ Exhausted(a)
                              \/ RecordsMinute(a) \/ RecordsDay(a)
      PROVE  RateInv'
  BY <1>1, LookingSteps, RecordsMinuteKeeps, RecordsDayKeeps
<1>2. CASE (\E k \in LimitedKey : CoolDownChanges(k)) \/ UNCHANGED rateVars
  <2>1. UNCHANGED <<minute, day, lentMinute, lentDay, ask, ledgerFaults>>
    BY <1>2 DEF CoolDownChanges, rateVars
  <2>2. \A k \in LimitedKey : ToMinute(k)' = ToMinute(k) /\ ToDay(k)' = ToDay(k)
    BY <2>1 DEF ToMinute, ToDay, Passed
  <2> QED
    BY <2>1, <2>2 DEF RateInv, RateShape, Within
<1> QED
  BY <1>1, <1>2, MinutePassesKeeps DEF RateNext

\* However many requests look at the same time at whatever limits, a key is lent beyond its
\* limit at most by the others under way and the calls that failed (Allow, Record).
THEOREM OvershootBoundedCorrect == Spec => []OvershootBounded
<1>1. ServicesInit => RateInv
  BY RateInitial DEF ServicesInit
<1>2. RateInv /\ [ServicesNext]_vars => RateInv'
  BY RateStep, RatePart
<1>3. RateInv => OvershootBounded
  <2> SUFFICES ASSUME RateInv, NEW k \in LimitedKey
               PROVE  /\ RPM > 0 => lentMinute[k] <= RPM + Cardinality(Asker) - 1 + ledgerFaults
                      /\ RPD > 0 => lentDay[k] <= RPD + Cardinality(Asker) - 1 + ledgerFaults
    BY DEF OvershootBounded
  <2>1. /\ Cardinality(ToMinute(k)) \in Nat /\ Cardinality(ToDay(k)) \in Nat
        /\ Cardinality(Asker) \in Nat
    BY WaitingTypes, RateLedgerAssumption, FS_Subset, FS_CardinalityType
  <2>2. lentMinute[k] \in Nat /\ lentDay[k] \in Nat /\ ledgerFaults \in Nat
        /\ RPM \in Nat /\ RPD \in Nat
    BY RateLedgerAssumption DEF RateInv, RateShape, Counters
  <2> QED
    BY <2>1, <2>2 DEF RateInv, Within
<1> QED
  BY <1>1, <1>2, <1>3, PTL DEF Spec

--------------------------------------------------------------------------
(* The periodic check of invalid keys *)

\* Only a key that is out of use and would work waits; it waits no longer than since its last
\* failed probe, nor longer than a backoff and the time since the last check; and the next
\* tick is allowed for.
CronInv ==
    /\ CronTypeOK /\ cronFaults \in Nat
    /\ \A k \in CronKey :
         /\ ready[k] # 0 => broken[k] /\ works[k]
         /\ failedProbes[k] # 0 => ready[k] <= sinceProbe[k]
         /\ ready[k] < 16 * Hour + sinceCheck
         /\ ready[k] <= 16 * Hour + Interval + cronFaults
         /\ ~due => ready[k] < 16 * Hour + Interval + cronFaults

\* The delay of shouldSkipByBackoff stops growing at sixteen hours.
LEMMA BackoffBounded == ASSUME NEW n \in Nat, n >= Grace PROVE Backoff(n) \in 0 .. 16 * Hour
<1> DEFINE e == IF n - Grace > 4 THEN 4 ELSE n - Grace
<1>1. e \in 0 .. 4
  BY DEF Grace
<1>2. 2 ^ e \in 1 .. 16
  <2>1. e \in {0, 1, 2, 3, 4}
    BY <1>1
  <2>2. 2 ^ 0 = 1 /\ 2 ^ 1 = 2 /\ 2 ^ 2 = 4 /\ 2 ^ 3 = 8 /\ 2 ^ 4 = 16
    OBVIOUS
  <2>3. e = 0 \/ e = 1 \/ e = 2 \/ e = 3 \/ e = 4
    BY <2>1
  <2> HIDE DEF e
  <2>4. 2 ^ e = 1 \/ 2 ^ e = 2 \/ 2 ^ e = 4 \/ 2 ^ e = 8 \/ 2 ^ e = 16
    BY <2>2, <2>3, Zenon
  <2> QED
    BY <2>4
<1> DEFINE p == 2 ^ e
<1>3. Backoff(n) = IF p * Hour > 24 * Hour THEN 24 * Hour ELSE p * Hour
  BY DEF Backoff
<1>4. p \in 1 .. 16 /\ Hour \in Nat
  BY <1>2, CronAssumption
<1> HIDE DEF p
<1>5. p * Hour <= 16 * Hour /\ p * Hour \in Nat
  <2>1. p \in {1, 2, 3, 4, 5, 6, 7, 8, 9, 10, 11, 12, 13, 14, 15, 16}
    BY <1>4
  <2> QED
    BY <2>1, <1>4
<1> QED
  BY <1>3, <1>4, <1>5

LEMMA Clocks ==
  /\ Longest \in Nat
  /\ \A n \in 0 .. Longest : Later(n) \in 0 .. Longest /\ Later(n) >= n /\ (n < Longest => Later(n) = n + 1)
  /\ \A m, k \in 0 .. Longest : m <= k => Later(m) <= Later(k)
<1>1. Longest \in Nat
  BY CronAssumption DEF Longest
<1> QED
  BY <1>1 DEF Later

LEMMA CronInitial == CronInit => CronInv
<1> SUFFICES ASSUME CronInit PROVE CronInv
  OBVIOUS
<1>1. Longest \in Nat /\ MostProbes \in Nat
  BY Clocks DEF MostProbes, Grace
<1>2. CronTypeOK /\ cronFaults \in Nat
  BY <1>1 DEF CronInit, CronTypeOK
<1> QED
  BY <1>1, <1>2, CronAssumption DEF CronInit, CronInv

\* What the invariant says of one key.
LEMMA CronOfKey ==
  ASSUME CronInv, NEW k \in CronKey
  PROVE  /\ broken[k] \in BOOLEAN /\ works[k] \in BOOLEAN /\ due \in BOOLEAN
         /\ failedProbes[k] \in 0 .. MostProbes
         /\ sinceProbe[k] \in 0 .. Longest /\ ready[k] \in 0 .. Longest /\ Longest \in Nat
         /\ sinceCheck \in 0 .. Longest /\ cronFaults \in Nat /\ Hour \in Nat \ {0}
         /\ Interval \in Nat
  BY CronAssumption, Clocks DEF CronInv, CronTypeOK

LEMMA TimePassesKeeps == CronInv /\ TimePasses => CronInv'
<1> SUFFICES ASSUME CronInv, TimePasses PROVE CronInv'
  OBVIOUS
<1>1. /\ ~due /\ due' = TRUE /\ sinceCheck' = Later(sinceCheck)
      /\ sinceProbe' = [k \in CronKey |-> Later(sinceProbe[k])]
      /\ ready' = [k \in CronKey |-> IF broken[k] /\ works[k] THEN Later(ready[k]) ELSE 0]
      /\ UNCHANGED <<broken, works, failedProbes, cronFaults>>
  BY DEF TimePasses
<1>2. CronTypeOK' /\ cronFaults' \in Nat
  BY <1>1, Clocks DEF CronInv, CronTypeOK
<1>3. ASSUME NEW k \in CronKey
      PROVE  /\ ready'[k] # 0 => broken'[k] /\ works'[k]
             /\ failedProbes'[k] # 0 => ready'[k] <= sinceProbe'[k]
             /\ ready'[k] < 16 * Hour + sinceCheck'
             /\ ready'[k] <= 16 * Hour + Interval + cronFaults'
  <2> USE CronOfKey
  <2>1. /\ sinceProbe'[k] = Later(sinceProbe[k])
        /\ ready'[k] = IF broken[k] /\ works[k] THEN Later(ready[k]) ELSE 0
    BY <1>1
  <2>2. failedProbes[k] # 0 => ready[k] <= sinceProbe[k]
    BY DEF CronInv
  <2>3. failedProbes'[k] # 0 => ready'[k] <= sinceProbe'[k]
    BY <1>1, <2>1, <2>2, Clocks
  <2>4. ready[k] < 16 * Hour + sinceCheck /\ ready[k] < 16 * Hour + Interval + cronFaults
    BY <1>1 DEF CronInv
  <2>5. ready'[k] <= ready[k] + 1 /\ ready'[k] \in 0 .. Longest
    BY <2>1, Clocks DEF Later
  <2>6. ready'[k] < 16 * Hour + sinceCheck'
    <3>1. sinceCheck' = sinceCheck + 1 \/ sinceCheck' = Longest
      BY <1>1, Clocks DEF Later
    <3> QED
      BY <2>4, <2>5, <3>1
  <2> QED
    BY <1>1, <2>1, <2>3, <2>4, <2>5, <2>6
<1> QED
  BY <1>1, <1>2, <1>3 DEF CronInv

LEMMA ValidatesKeeps == CronInv /\ Validates => CronInv'
<1> SUFFICES ASSUME CronInv, Validates PROVE CronInv'
  OBVIOUS
<1>1. /\ due' = FALSE /\ sinceCheck' = 0 /\ UNCHANGED <<works, cronFaults>>
      /\ \A k \in CronKey :
           /\ broken'[k] = (broken[k] /\ ~(k \in Candidates /\ works[k]))
           /\ failedProbes'[k] = IF k \notin Candidates THEN failedProbes[k]
                                 ELSE IF works[k] THEN 0
                                 ELSE IF failedProbes[k] < MostProbes THEN failedProbes[k] + 1
                                 ELSE MostProbes
           /\ sinceProbe'[k] = IF k \in Candidates THEN 0 ELSE sinceProbe[k]
           /\ ready'[k] = IF broken'[k] THEN ready[k] ELSE 0
  BY DEF Validates
<1>2. MostProbes \in Nat /\ Longest \in Nat
  BY Clocks DEF MostProbes, Grace
<1>3. CronTypeOK' /\ cronFaults' \in Nat
  <2>1. cronFaults' \in Nat /\ works' \in [CronKey -> BOOLEAN] /\ sinceCheck' \in 0 .. Longest
    BY <1>2 DEF Validates, CronInv, CronTypeOK
  <2>6. due' \in BOOLEAN
    BY Zenon DEF Validates
  <2>2. broken' \in [CronKey -> BOOLEAN]
    BY DEF Validates
  <2>3. failedProbes' \in [CronKey -> 0 .. MostProbes]
    BY <1>2, CronOfKey DEF Validates
  <2>4. sinceProbe' \in [CronKey -> 0 .. Longest]
    BY <1>2, CronOfKey DEF Validates
  <2>5. ready' \in [CronKey -> 0 .. Longest]
    BY <1>2, CronOfKey DEF Validates
  <2> QED
    BY <2>1, <2>2, <2>3, <2>4, <2>5, <2>6, Zenon DEF CronTypeOK
<1>4. ASSUME NEW k \in CronKey
      PROVE  /\ ready'[k] # 0 => broken'[k] /\ works'[k]
             /\ failedProbes'[k] # 0 => ready'[k] <= sinceProbe'[k]
             /\ ready'[k] < 16 * Hour + sinceCheck'
             /\ ready'[k] < 16 * Hour + Interval + cronFaults'
  <2> USE CronOfKey
  <2>1. /\ ready[k] # 0 => broken[k] /\ works[k]
        /\ failedProbes[k] # 0 => ready[k] <= sinceProbe[k]
    BY DEF CronInv
  <2>2. CASE k \in Candidates
    <3>1. ready'[k] = 0
      BY <1>1, <2>1, <2>2
    <3>2. sinceProbe'[k] = 0
      BY <1>1, <2>2
    <3> QED
      BY <1>1, <3>1, <3>2
  <2>3. CASE k \notin Candidates
    <3>1. ready'[k] < 16 * Hour
      <4>1. CASE ~broken[k]
        BY <1>1, <4>1
      <4>2. CASE broken[k]
        <5>1. failedProbes[k] >= Grace /\ sinceProbe[k] < Backoff(failedProbes[k])
          BY <2>3, <4>2 DEF Candidates, Skipped
        <5>2. failedProbes[k] \in Nat /\ failedProbes[k] # 0
          BY <1>2, <5>1 DEF Grace
        <5>3. sinceProbe[k] < 16 * Hour
          <6>1. Backoff(failedProbes[k]) \in 0 .. 16 * Hour
            BY <5>1, <5>2, BackoffBounded
          <6> QED
            BY <5>1, <6>1
        <5>4. ready[k] <= sinceProbe[k]
          BY <2>1, <5>2
        <5> QED
          BY <1>1, <5>3, <5>4
      <4> QED
        BY <4>1, <4>2
    <3>2. ready'[k] # 0 => ready'[k] = ready[k] /\ broken'[k]
      BY <1>1
    <3>3. failedProbes'[k] = failedProbes[k] /\ sinceProbe'[k] = sinceProbe[k]
      BY <1>1, <2>3
    <3> QED
      BY <1>1, <2>1, <3>1, <3>2, <3>3
  <2> QED
    BY <2>2, <2>3
<1>5. ASSUME NEW k \in CronKey PROVE ready'[k] <= 16 * Hour + Interval + cronFaults'
  BY <1>1, <1>3, <1>4, CronOfKey DEF CronTypeOK
<1> QED
  BY <1>1, <1>3, <1>4, <1>5 DEF CronInv

\* A tick without a check, or one that fails, uses the tick that was allowed for.
LEMMA TickWithoutCheck == CronInv /\ (NothingDue \/ QueryFails) => CronInv'
<1> SUFFICES ASSUME CronInv, NothingDue \/ QueryFails PROVE CronInv'
  OBVIOUS
<1>1. /\ due' = FALSE
      /\ UNCHANGED <<broken, works, failedProbes, sinceProbe, sinceCheck, ready>>
      /\ \/ sinceCheck <= Interval /\ cronFaults' = cronFaults
         \/ cronFaults' = cronFaults + 1
  <2>1. sinceCheck \in Int /\ Interval \in Int
    BY CronAssumption, Clocks DEF CronInv, CronTypeOK
  <2>2. CASE NothingDue
    BY <2>1, <2>2 DEF NothingDue, CheckDue
  <2>3. CASE QueryFails
    BY <2>3 DEF QueryFails
  <2> QED
    BY <2>2, <2>3
<1>2. CronTypeOK' /\ cronFaults' \in Nat
  <2>1. due' \in BOOLEAN
    BY <1>1, Zenon
  <2>2. cronFaults' \in Nat
    BY <1>1 DEF CronInv
  <2> QED
    BY <1>1, <2>1, <2>2 DEF CronInv, CronTypeOK
<1>3. ASSUME NEW k \in CronKey
      PROVE  /\ ready[k] < 16 * Hour + Interval + cronFaults'
             /\ ready[k] <= 16 * Hour + Interval + cronFaults'
  <2>1. ready[k] < 16 * Hour + sinceCheck /\ ready[k] <= 16 * Hour + Interval + cronFaults
    BY DEF CronInv
  <2> QED
    BY <1>1, <2>1, CronOfKey
<1> QED
  BY <1>1, <1>2, <1>3 DEF CronInv

LEMMA KeyChanges ==
  ASSUME CronInv, NEW k \in CronKey, UpstreamChanges(k) \/ KeyBreaks(k) \/ RestoredByHand(k)
  PROVE  CronInv'
<1>1. /\ UNCHANGED <<failedProbes, sinceProbe, sinceCheck, due, cronFaults>>
      /\ \A j \in CronKey \ {k} :
           broken'[j] = broken[j] /\ works'[j] = works[j] /\ ready'[j] = ready[j]
      /\ ready'[k] = 0
  <2>1. CASE UpstreamChanges(k)
    BY <2>1 DEF UpstreamChanges, CronInv, CronTypeOK
  <2>2. CASE KeyBreaks(k)
    BY <2>2 DEF KeyBreaks, CronInv, CronTypeOK
  <2>3. CASE RestoredByHand(k)
    BY <2>3 DEF RestoredByHand, CronInv, CronTypeOK
  <2> QED
    BY <2>1, <2>2, <2>3
<1>2. CronTypeOK' /\ cronFaults' \in Nat
  <2>1. CASE UpstreamChanges(k)
    BY <2>1, Clocks DEF UpstreamChanges, CronInv, CronTypeOK
  <2>2. CASE KeyBreaks(k)
    BY <2>2, Clocks DEF KeyBreaks, CronInv, CronTypeOK
  <2>3. CASE RestoredByHand(k)
    BY <2>3, Clocks DEF RestoredByHand, CronInv, CronTypeOK
  <2> QED
    BY <2>1, <2>2, <2>3
<1>3. ASSUME NEW j \in CronKey
      PROVE  /\ ready'[j] # 0 => broken'[j] /\ works'[j]
             /\ failedProbes'[j] # 0 => ready'[j] <= sinceProbe'[j]
             /\ ready'[j] < 16 * Hour + sinceCheck'
             /\ ready'[j] <= 16 * Hour + Interval + cronFaults'
             /\ ~due' => ready'[j] < 16 * Hour + Interval + cronFaults'
  <2>1. CASE j = k
    BY <1>1, <2>1, CronOfKey
  <2>2. CASE j # k
    BY <1>1, <2>2 DEF CronInv
  <2> QED
    BY <2>1, <2>2
<1> QED
  BY <1>2, <1>3 DEF CronInv

LEMMA CronStep == CronInv /\ [CronNext]_cronVars => CronInv'
<1> SUFFICES ASSUME CronInv, [CronNext]_cronVars PROVE CronInv'
  OBVIOUS
<1>1. CASE CheckerRestarts
  BY <1>1, CronAssumption DEF CheckerRestarts, CronInv, CronTypeOK, MostProbes, Grace
<1>2. CASE UNCHANGED cronVars
  BY <1>2 DEF cronVars, CronInv, CronTypeOK
<1> QED
  BY <1>1, <1>2, TimePassesKeeps, ValidatesKeeps, TickWithoutCheck, KeyChanges DEF CronNext

\* However many keys there are and however long the hour and the interval: a key that would
\* work is out of use for sixteen hours and an interval at most, and a tick for every query
\* that failed (shouldSkipByBackoff, recordBackoffResult).
THEOREM WorkingKeyReturnsCorrect == Spec => []WorkingKeyReturns
<1>1. ServicesInit => CronInv
  BY CronInitial DEF ServicesInit
<1>2. CronInv /\ [ServicesNext]_vars => CronInv'
  BY CronStep, CronPart
<1>3. CronInv => WorkingKeyReturns
  BY DEF CronInv, WorkingKeyReturns
<1> QED
  BY <1>1, <1>2, <1>3, PTL DEF Spec

--------------------------------------------------------------------------
(* The caches: what a process has yet to do *)

\* The names of the steps, of which the provers only need that they differ.
LoadG == "load groups"
StoreG == "store groups"
RebuildG == "rebuild"
TellG == "publish groups"
LoadS == "load settings"
StoreS == "store settings"
TellS == "publish settings"

\* The listener of the groups reloads them.
Refresh3 == <<LoadG, StoreG, RebuildG>>
Refresh2 == <<StoreG, RebuildG>>
Refresh1 == <<RebuildG>>
\* Invalidate of the groups reloads and tells the others.
Tell4 == <<LoadG, StoreG, RebuildG, TellG>>
Tell3 == <<StoreG, RebuildG, TellG>>
Tell2 == <<RebuildG, TellG>>
Tell1 == <<TellG>>
\* Invalidate of the settings at the master, with its hook.
Full7 == <<LoadS, StoreS, LoadG, StoreG, RebuildG,
           TellG, TellS>>
Full6 == <<StoreS, LoadG, StoreG, RebuildG, TellG,
           TellS>>
Full5 == <<LoadG, StoreG, RebuildG, TellG, TellS>>
Full4 == <<StoreG, RebuildG, TellG, TellS>>
Full3 == <<RebuildG, TellG, TellS>>
Full2 == <<TellG, TellS>>
Full1 == <<TellS>>
\* Invalidate of the settings elsewhere.
Plain3 == <<LoadS, StoreS, TellS>>
Plain2 == <<StoreS, TellS>>
\* The listener of the settings, at the master and elsewhere.
Hook6 == <<LoadS, StoreS, LoadG, StoreG, RebuildG,
           TellG>>
Hook5 == <<StoreS, LoadG, StoreG, RebuildG, TellG>>
Only2 == <<LoadS, StoreS>>
Only1 == <<StoreS>>

LEMMA Tails ==
  ASSUME NEW a, NEW b, NEW c, NEW d, NEW e, NEW f, NEW g
  PROVE  /\ Tail(<<a>>) = <<>> /\ Tail(<<a, b>>) = <<b>> /\ Tail(<<a, b, c>>) = <<b, c>>
         /\ Tail(<<a, b, c, d>>) = <<b, c, d>> /\ Tail(<<a, b, c, d, e>>) = <<b, c, d, e>>
         /\ Tail(<<a, b, c, d, e, f>>) = <<b, c, d, e, f>>
         /\ Tail(<<a, b, c, d, e, f, g>>) = <<b, c, d, e, f, g>>
<1>1. Tail(<<a>>) = <<>> /\ Tail(<<a, b>>) = <<b>> /\ Tail(<<a, b, c>>) = <<b, c>>
  OBVIOUS
<1>2. Tail(<<a, b, c, d>>) = <<b, c, d>>
  OBVIOUS
<1>3. Tail(<<a, b, c, d, e>>) = <<b, c, d, e>>
  OBVIOUS
<1>4. Tail(<<a, b, c, d, e, f>>) = <<b, c, d, e, f>>
  OBVIOUS
<1>5. Tail(<<a, b, c, d, e, f, g>>) = <<b, c, d, e, f, g>>
  OBVIOUS
<1> QED
  BY <1>1, <1>2, <1>3, <1>4, <1>5

LEMMA GroupTable ==
      /\ Refresh3 # <<>> /\ Head(Refresh3) = LoadG /\ Tail(Refresh3) = Refresh2
      /\ Refresh2 # <<>> /\ Head(Refresh2) = StoreG /\ Tail(Refresh2) = Refresh1
      /\ Refresh1 # <<>> /\ Head(Refresh1) = RebuildG /\ Tail(Refresh1) = <<>>
  BY Tails DEF Refresh3, Refresh2, Refresh1

LEMMA TellTable ==
      /\ Tell4 # <<>> /\ Head(Tell4) = LoadG /\ Tail(Tell4) = Tell3
      /\ Tell3 # <<>> /\ Head(Tell3) = StoreG /\ Tail(Tell3) = Tell2
      /\ Tell2 # <<>> /\ Head(Tell2) = RebuildG /\ Tail(Tell2) = Tell1
      /\ Tell1 # <<>> /\ Head(Tell1) = TellG /\ Tail(Tell1) = <<>>
  BY Tails DEF Tell4, Tell3, Tell2, Tell1

LEMMA FullTable ==
      /\ Full7 # <<>> /\ Head(Full7) = LoadS /\ Tail(Full7) = Full6
      /\ Full6 # <<>> /\ Head(Full6) = StoreS /\ Tail(Full6) = Full5
      /\ Full5 # <<>> /\ Head(Full5) = LoadG /\ Tail(Full5) = Full4
      /\ Full4 # <<>> /\ Head(Full4) = StoreG /\ Tail(Full4) = Full3
      /\ Full3 # <<>> /\ Head(Full3) = RebuildG /\ Tail(Full3) = Full2
      /\ Full2 # <<>> /\ Head(Full2) = TellG /\ Tail(Full2) = Full1
      /\ Full1 # <<>> /\ Head(Full1) = TellS /\ Tail(Full1) = <<>>
<1>1. Full7 # <<>> /\ Head(Full7) = LoadS /\ Tail(Full7) = Full6
  BY Tails DEF Full7, Full6
<1>2. Full6 # <<>> /\ Head(Full6) = StoreS /\ Tail(Full6) = Full5
  BY Tails DEF Full6, Full5
<1>3. Full5 # <<>> /\ Head(Full5) = LoadG /\ Tail(Full5) = Full4
  BY Tails DEF Full5, Full4
<1>4. Full4 # <<>> /\ Head(Full4) = StoreG /\ Tail(Full4) = Full3
  BY Tails DEF Full4, Full3
<1>5. Full3 # <<>> /\ Head(Full3) = RebuildG /\ Tail(Full3) = Full2
  BY Tails DEF Full3, Full2
<1>6. Full2 # <<>> /\ Head(Full2) = TellG /\ Tail(Full2) = Full1
      /\ Full1 # <<>> /\ Head(Full1) = TellS /\ Tail(Full1) = <<>>
  BY Tails DEF Full2, Full1
<1> QED
  BY <1>1, <1>2, <1>3, <1>4, <1>5, <1>6

LEMMA SettingsTable ==
      /\ Plain3 # <<>> /\ Head(Plain3) = LoadS /\ Tail(Plain3) = Plain2
      /\ Plain2 # <<>> /\ Head(Plain2) = StoreS /\ Tail(Plain2) = Full1
      /\ Hook6 # <<>> /\ Head(Hook6) = LoadS /\ Tail(Hook6) = Hook5
      /\ Hook5 # <<>> /\ Head(Hook5) = StoreS /\ Tail(Hook5) = Tell4
      /\ Only2 # <<>> /\ Head(Only2) = LoadS /\ Tail(Only2) = Only1
      /\ Only1 # <<>> /\ Head(Only1) = StoreS /\ Tail(Only1) = <<>>
<1>1. /\ Plain3 # <<>> /\ Head(Plain3) = LoadS /\ Tail(Plain3) = Plain2
      /\ Plain2 # <<>> /\ Head(Plain2) = StoreS /\ Tail(Plain2) = Full1
  BY Tails DEF Plain3, Plain2, Full1
<1>2. Hook6 # <<>> /\ Head(Hook6) = LoadS /\ Tail(Hook6) = Hook5
  BY Tails DEF Hook6, Hook5
<1>3. Hook5 # <<>> /\ Head(Hook5) = StoreS /\ Tail(Hook5) = Tell4
  BY Tails DEF Hook5, Tell4
<1>4. /\ Only2 # <<>> /\ Head(Only2) = LoadS /\ Tail(Only2) = Only1
      /\ Only1 # <<>> /\ Head(Only1) = StoreS /\ Tail(Only1) = <<>>
  BY Tails DEF Only2, Only1
<1> QED
  BY <1>1, <1>2, <1>3, <1>4

\* The names differ.
LEMMA StepNames ==
  /\ LoadG # StoreG /\ LoadG # RebuildG /\ LoadG # TellG /\ LoadG # LoadS /\ LoadG # StoreS /\ LoadG # TellS
  /\ StoreG # RebuildG /\ StoreG # TellG /\ StoreG # LoadS /\ StoreG # StoreS /\ StoreG # TellS
  /\ RebuildG # TellG /\ RebuildG # LoadS /\ RebuildG # StoreS /\ RebuildG # TellS
  /\ TellG # LoadS /\ TellG # StoreS /\ TellG # TellS /\ LoadS # StoreS /\ LoadS # TellS /\ StoreS # TellS
  BY DEF LoadG, StoreG, RebuildG, TellG, LoadS, StoreS, TellS

\* What is left when a load fails.
LEMMA FaultTable ==
      /\ AfterLoadFault(Refresh3) = <<>> /\ AfterLoadFault(Tell4) = Tell1
      /\ AfterLoadFault(Full5) = Full2 /\ AfterLoadFault(Full7) = Full1
      /\ AfterLoadFault(Plain3) = Full1
      /\ AfterLoadFault(Hook6) = <<>> /\ AfterLoadFault(Only2) = <<>>
<1>1. ASSUME NEW s, Head(s) = LoadG PROVE AfterLoadFault(s) = Tail(Tail(Tail(s)))
  BY <1>1, Zenon DEF AfterLoadFault, LoadG
<1>2. AfterLoadFault(Refresh3) = <<>> /\ AfterLoadFault(Tell4) = Tell1 /\ AfterLoadFault(Full5) = Full2
  BY <1>1, GroupTable, TellTable, FullTable
<1>3. ASSUME NEW s, Head(s) = LoadS
      PROVE  AfterLoadFault(s) = IF s[Len(s)] = TellS THEN Full1 ELSE <<>>
  <2>1. Head(s) # LoadG
    BY <1>3, StepNames
  <2> QED
    BY <1>3, <2>1, Zenon DEF AfterLoadFault, LoadG, TellS, Full1
<1>4. Head(Full7) = LoadS /\ Head(Plain3) = LoadS /\ Head(Hook6) = LoadS /\ Head(Only2) = LoadS
  BY FullTable, SettingsTable
<1>5. Full7[Len(Full7)] = TellS
  BY DEF Full7
<1>6. Plain3[Len(Plain3)] = TellS
  BY DEF Plain3
<1>7. Hook6[Len(Hook6)] = TellG
  BY DEF Hook6
<1>8. Only2[Len(Only2)] = StoreS
  BY DEF Only2
<1> QED
  BY <1>2, <1>3, <1>4, <1>5, <1>6, <1>7, <1>8, StepNames

\* A concatenation, element by element.
LEMMA ConcatIs ==
  ASSUME NEW S, NEW s \in Seq(S), NEW t \in Seq(S), NEW u \in Seq(S),
         Len(u) = Len(s) + Len(t), \A i \in 1 .. Len(s) : u[i] = s[i],
         \A i \in 1 .. Len(t) : u[Len(s) + i] = t[i]
  PROVE  s \o t = u
<1>1. /\ s \o t \in Seq(S) /\ Len(s \o t) = Len(s) + Len(t)
      /\ \A i \in 1 .. Len(s) + Len(t) : (s \o t)[i] = IF i <= Len(s) THEN s[i] ELSE t[i - Len(s)]
  BY ConcatProperties
<1>2. Len(s) \in Nat /\ Len(t) \in Nat
  OBVIOUS
<1>3. ASSUME NEW i \in 1 .. Len(u) PROVE (s \o t)[i] = u[i]
  <2>1. CASE i <= Len(s)
    BY <1>1, <1>2, <2>1
  <2>2. CASE i > Len(s)
    <3>1. i - Len(s) \in 1 .. Len(t) /\ i = Len(s) + (i - Len(s))
      BY <1>2, <2>2
    <3>2. (s \o t)[i] = t[i - Len(s)]
      BY <1>1, <1>2, <2>2
    <3>3. u[Len(s) + (i - Len(s))] = t[i - Len(s)]
      BY <3>1
    <3> QED
      BY <3>1, <3>2, <3>3
  <2> QED
    BY <1>2, <2>1, <2>2
<1> QED
  BY <1>1, <1>3, SeqEqual

LEMMA Concats ==
  /\ Refresh3 \o <<TellG>> = Tell4 /\ Only2 \o <<>> = Only2 /\ Only2 \o <<TellS>> = Plain3
  /\ Only2 \o Tell4 = Hook6 /\ Hook6 \o <<TellS>> = Full7
<1> DEFINE S == {LoadG, StoreG, RebuildG, TellG, LoadS, StoreS, TellS}
<1>1. Refresh3 \o <<TellG>> = Tell4
  <2>1. Refresh3 \in Seq(S) /\ <<TellG>> \in Seq(S) /\ Tell4 \in Seq(S) /\ Len(Tell4) = Len(Refresh3) + Len(<<TellG>>)
    BY DEF Refresh3, Tell4
  <2>2. /\ \A i \in 1 .. Len(Refresh3) : Tell4[i] = Refresh3[i]
        /\ \A i \in 1 .. Len(<<TellG>>) : Tell4[Len(Refresh3) + i] = <<TellG>>[i]
    BY DEF Refresh3, Tell4
  <2> HIDE DEF S
  <2> QED
    BY <2>1, <2>2, ConcatIs
<1>2. Only2 \o Tell4 = Hook6
  <2>1. Only2 \in Seq(S) /\ Tell4 \in Seq(S) /\ Hook6 \in Seq(S) /\ Len(Hook6) = Len(Only2) + Len(Tell4)
    BY DEF Only2, Tell4, Hook6
  <2>2. /\ \A i \in 1 .. Len(Only2) : Hook6[i] = Only2[i]
        /\ \A i \in 1 .. Len(Tell4) : Hook6[Len(Only2) + i] = Tell4[i]
    BY DEF Only2, Tell4, Hook6
  <2> HIDE DEF S
  <2> QED
    BY <2>1, <2>2, ConcatIs
<1>3. Only2 \o <<TellS>> = Plain3
  <2>1. Only2 \in Seq(S) /\ <<TellS>> \in Seq(S) /\ Plain3 \in Seq(S) /\ Len(Plain3) = Len(Only2) + Len(<<TellS>>)
    BY DEF Only2, Plain3
  <2>2. /\ \A i \in 1 .. Len(Only2) : Plain3[i] = Only2[i]
        /\ \A i \in 1 .. Len(<<TellS>>) : Plain3[Len(Only2) + i] = <<TellS>>[i]
    BY DEF Only2, Plain3
  <2> HIDE DEF S
  <2> QED
    BY <2>1, <2>2, ConcatIs
<1>4. Hook6 \o <<TellS>> = Full7
  <2>1. Hook6 \in Seq(S) /\ <<TellS>> \in Seq(S) /\ Full7 \in Seq(S) /\ Len(Full7) = Len(Hook6) + Len(<<TellS>>)
    BY DEF Hook6, Full7
  <2>2. /\ \A i \in 1 .. Len(Hook6) : Full7[i] = Hook6[i]
        /\ \A i \in 1 .. Len(<<TellS>>) : Full7[Len(Hook6) + i] = <<TellS>>[i]
    BY DEF Hook6, Full7
  <2> HIDE DEF S
  <2> QED
    BY <2>1, <2>2, ConcatIs
<1>5. Only2 \o <<>> = Only2
  <2>1. Only2 \in Seq(S)
    BY DEF Only2
  <2> HIDE DEF S
  <2> QED
    BY <2>1, ConcatEmptySeq
<1> QED
  BY <1>1, <1>2, <1>3, <1>4, <1>5

\* What Invalidate and the listeners begin with.
LEMMA BeginTable ==
  ASSUME NEW i
  PROVE  /\ Reload("groups", i) = Refresh3 /\ Invalidate("groups", i) = Tell4
         /\ Reload("settings", i) = IF i = MasterInstance THEN Hook6 ELSE Only2
         /\ Invalidate("settings", i) = IF i = MasterInstance THEN Full7 ELSE Plain3
<1>1. GroupReload = Refresh3
  BY DEF GroupReload, Refresh3, LoadG, StoreG, RebuildG
<1>2. GroupInvalidate = Tell4
  BY <1>1, Concats DEF GroupInvalidate, TellG
<1>3. SettingsReload(i) = IF i = MasterInstance THEN Hook6 ELSE Only2
  <2>1. SettingsReload(i) = Only2 \o (IF i = MasterInstance THEN Tell4 ELSE <<>>)
    BY <1>2 DEF SettingsReload, SettingsHook, LoadS, StoreS, Only2
  <2> QED
    BY <2>1, Concats
<1>4. SettingsInvalidate(i) = IF i = MasterInstance THEN Full7 ELSE Plain3
  <2>1. SettingsInvalidate(i) = (IF i = MasterInstance THEN Hook6 ELSE Only2) \o <<TellS>>
    BY <1>3 DEF SettingsInvalidate, TellS
  <2> QED
    BY <2>1, Concats
<1> QED
  BY <1>1, <1>2, <1>3, <1>4 DEF Reload, Invalidate

HandlerProgram == {<<>>, Tell4, Tell3, Tell2, Tell1, Full7, Full6, Full5, Full4, Full3, Full2, Full1,
                   Plain3, Plain2}
RefreshProgram == {<<>>, Refresh3, Refresh2, Refresh1}
HookProgram == {<<>>, Hook6, Hook5, Tell4, Tell3, Tell2, Tell1}
OnlyProgram == {<<>>, Only2, Only1}
CacheProgram == HandlerProgram \cup RefreshProgram \cup HookProgram \cup OnlyProgram

\* What is bound to be published, even if a load fails.
TellsSettings(s) == s \in {Full7, Full6, Full5, Full4, Full3, Full2, Full1, Plain3, Plain2}
TellsGroups(s) == s \in {Tell4, Tell3, Tell2, Tell1, Full6, Full5, Full4, Full3, Full2, Hook5}
\* At the master, the groups are published unless the settings cannot be loaded.
MeansToTell(s) == TellsGroups(s) \/ s \in {Full7, Hook6}

ProgramsShaped ==
    /\ DOMAIN program = CacheProcess
    /\ \A h \in Handler :
        /\ program[h] \in HandlerProgram
        /\ place[h] = "nowhere" => program[h] = <<>>
        /\ place[h] = MasterInstance => program[h] \notin {Plain3, Plain2}
    /\ \A i \in Instance :
        /\ program[<<i, "groups">>] \in RefreshProgram
        /\ program[<<i, "settings">>] \in IF i = MasterInstance THEN HookProgram ELSE OnlyProgram

CachesTyped ==
    /\ running \in Running
    /\ dbVersion \in [Channel -> Version]
    /\ settingsAt \in [Instance -> Version]
    /\ groupsAt \in [Instance -> GroupCache] /\ selectors \in [Instance -> GroupCache]
    /\ loadedAt \in [CacheProcess -> GroupCache]
    /\ place \in [Handler -> Instance \cup {"nowhere"}]
    /\ inbox \in [Listener -> 0 .. Buffer]
    /\ subscribed \in [Listener -> BOOLEAN]
    /\ unheard \in [Listener -> BOOLEAN]

\* A reload of the settings at i is still due, or none is needed.
SettingsDue(i) == \/ unheard[<<i, "settings">>] \/ inbox[<<i, "settings">>] > 0
                  \/ \E h \in Handler : TellsSettings(program[h])
GroupsDue(i) == \/ unheard[<<i, "groups">>] \/ inbox[<<i, "groups">>] > 0
                \/ \E p \in CacheProcess : TellsGroups(program[p])
ConfigDue == \/ GroupsDue(MasterInstance)
             \/ \E p \in CacheProcess : At(p) = MasterInstance /\ MeansToTell(program[p])

SettingsFollow(i) ==
    LET l == <<i, "settings">> IN
    SettingsDue(i) \/ Step(l, LoadS)
    \/ IF Step(l, StoreS) THEN loadedAt[l].settings = dbVersion["settings"]
       ELSE settingsAt[i] = dbVersion["settings"]

GroupsFollow(i) ==
    LET l == <<i, "groups">> IN
    GroupsDue(i) \/ Step(l, LoadG)
    \/ /\ Step(l, StoreG) \/ Step(l, RebuildG) => loadedAt[l].groups = dbVersion["groups"]
       /\ ~Step(l, StoreG) => groupsAt[i].groups = dbVersion["groups"]
       /\ ~Step(l, StoreG) /\ ~Step(l, RebuildG) => selectors[i].groups = dbVersion["groups"]

ConfigFollows ==
    LET l == <<MasterInstance, "groups">> IN
    ConfigDue \/ Step(l, LoadG)
    \/ IF Step(l, StoreG) THEN loadedAt[l].settings = settingsAt[MasterInstance]
       ELSE groupsAt[MasterInstance].settings = settingsAt[MasterInstance]

CacheInv ==
    /\ CachesTyped /\ ProgramsShaped
    /\ \A i \in Instance : SettingsFollow(i) /\ GroupsFollow(i)
    /\ ConfigFollows

\* A program stays one of its process.
LEMMA TailsShaped ==
  ASSUME NEW s, s # <<>>
  PROVE  /\ s \in HandlerProgram => Tail(s) \in HandlerProgram
         /\ s \in HandlerProgram /\ s \notin {Plain3, Plain2} => Tail(s) \notin {Plain3, Plain2}
         /\ s \in RefreshProgram => Tail(s) \in RefreshProgram
         /\ s \in HookProgram => Tail(s) \in HookProgram
         /\ s \in OnlyProgram => Tail(s) \in OnlyProgram
<1>1. s \in HandlerProgram => Tail(s) \in HandlerProgram
  BY TellTable, FullTable, SettingsTable DEF HandlerProgram
<1>2. s \in RefreshProgram => Tail(s) \in RefreshProgram
  BY GroupTable DEF RefreshProgram
<1>3. s \in HookProgram => Tail(s) \in HookProgram
  BY SettingsTable, TellTable DEF HookProgram
<1>4. s \in OnlyProgram => Tail(s) \in OnlyProgram
  BY SettingsTable DEF OnlyProgram
<1>5. ASSUME s \in HandlerProgram, s \notin {Plain3, Plain2} PROVE Tail(s) \notin {Plain3, Plain2}
  <2>1. s \in {Tell4, Tell3, Tell2, Tell1, Full7, Full6, Full5, Full4, Full3, Full2, Full1}
    BY <1>5 DEF HandlerProgram
  <2>2. \/ Tail(s) = <<>> \/ Tail(s) = Full6
        \/ Tail(s) # <<>> /\ Head(Tail(s)) \in {StoreG, RebuildG, TellG, LoadG, TellS}
    BY <2>1, TellTable, FullTable
  <2>3. Plain3 # <<>> /\ Head(Plain3) = LoadS /\ Plain2 # <<>> /\ Head(Plain2) = StoreS /\ Tail(Plain2) = Full1
    BY SettingsTable
  <2>4. Full6 # Plain3 /\ Full6 # Plain2
    <3>1. Head(Full6) = StoreS /\ Head(Tail(Full6)) = LoadG /\ Head(Full1) = TellS
      BY FullTable
    <3> QED
      BY <2>3, <3>1, StepNames
  <2> QED
    BY <2>2, <2>3, <2>4, StepNames
<1> QED
  BY <1>1, <1>2, <1>3, <1>4, <1>5

LEMMA FaultsShaped ==
  ASSUME NEW s, s # <<>>, Head(s) = LoadG \/ Head(s) = LoadS
  PROVE  /\ s \in HandlerProgram => AfterLoadFault(s) \in {<<>>, Tell1, Full2, Full1}
         /\ s \in RefreshProgram => AfterLoadFault(s) = <<>>
         /\ s \in HookProgram => AfterLoadFault(s) \in {<<>>, Tell1}
         /\ s \in OnlyProgram => AfterLoadFault(s) = <<>>
         /\ TellsSettings(s) => TellsSettings(AfterLoadFault(s))
         /\ TellsGroups(s) => TellsGroups(AfterLoadFault(s))
<1>1. s \in HandlerProgram => s \in {Tell4, Full7, Full5, Plain3}
  <2>1. s \notin {Full6, Full4, Full3, Full2, Full1}
    BY StepNames, FullTable
  <2>2. s \notin {Tell3, Tell2, Tell1, Plain2}
    BY StepNames, TellTable, SettingsTable
  <2> QED
    BY <2>1, <2>2 DEF HandlerProgram
<1>2. s \in RefreshProgram => s = Refresh3
  <2>1. s # Refresh2 /\ s # Refresh1
    BY StepNames, GroupTable
  <2> QED
    BY <2>1 DEF RefreshProgram
<1>3. s \in HookProgram => s \in {Hook6, Tell4}
  BY StepNames, TellTable, SettingsTable DEF HookProgram
<1>4. s \in OnlyProgram => s = Only2
  BY StepNames, SettingsTable DEF OnlyProgram
<1>5. TellsSettings(s) => s \in {Full7, Full5, Plain3}
  <2>1. s \notin {Full6, Full4, Full3, Full2, Full1}
    BY StepNames, FullTable
  <2>2. s # Plain2
    BY StepNames, SettingsTable
  <2> QED
    BY <2>1, <2>2 DEF TellsSettings
<1>6. TellsGroups(s) => s \in {Tell4, Full5}
  <2>1. s \notin {Full6, Full4, Full3, Full2}
    BY StepNames, FullTable
  <2>2. s \notin {Tell3, Tell2, Tell1, Hook5}
    BY StepNames, TellTable, SettingsTable
  <2> QED
    BY <2>1, <2>2 DEF TellsGroups
<1>7. TellsSettings(Full1) /\ TellsSettings(Full2) /\ TellsGroups(Tell1) /\ TellsGroups(Full2)
  BY DEF TellsSettings, TellsGroups
<1> QED
  BY <1>1, <1>2, <1>3, <1>4, <1>5, <1>6, <1>7, FaultTable

\* What is bound to be published stays so until it is.
LEMMA TailsTell ==
  ASSUME NEW s, s # <<>>
  PROVE  /\ TellsSettings(s) /\ Head(s) # TellS => TellsSettings(Tail(s))
         /\ TellsGroups(s) /\ Head(s) # TellG => TellsGroups(Tail(s))
         /\ MeansToTell(s) /\ Head(s) # TellG => MeansToTell(Tail(s))
<1>1. TellsSettings(s) /\ Head(s) # TellS => TellsSettings(Tail(s))
  BY StepNames, FullTable, SettingsTable DEF TellsSettings
<1>2. TellsGroups(s) /\ Head(s) # TellG => TellsGroups(Tail(s))
  BY StepNames, TellTable, FullTable, SettingsTable DEF TellsGroups
<1>3. s \in {Full7, Hook6} => MeansToTell(Tail(s))
  BY FullTable, SettingsTable DEF MeansToTell, TellsGroups
<1> QED
  BY <1>1, <1>2, <1>3 DEF MeansToTell

\* Who stores goes on to publish what it has stored.
LEMMA StoresTell ==
  ASSUME NEW s, s # <<>>
  PROVE  /\ s \in HandlerProgram /\ Head(s) = StoreS => TellsSettings(Tail(s))
         /\ s \in HandlerProgram /\ s \notin {Plain3, Plain2} /\ Head(s) = StoreS => MeansToTell(Tail(s))
         /\ s \in HookProgram /\ Head(s) = StoreS => TellsGroups(Tail(s))
         /\ s \in HandlerProgram \cup HookProgram /\ Head(s) \in {StoreG, RebuildG} => TellsGroups(Tail(s))
<1>1. s \in HandlerProgram /\ Head(s) = StoreS => s \in {Full6, Plain2}
  <2>1. Head(s) = StoreS => s \notin {Full7, Full5, Full4, Full3, Full2, Full1}
    BY StepNames, FullTable
  <2>2. Head(s) = StoreS => s \notin {Tell4, Tell3, Tell2, Tell1, Plain3}
    BY StepNames, TellTable, SettingsTable
  <2> QED
    BY <2>1, <2>2 DEF HandlerProgram
<1>2. s \in HookProgram /\ Head(s) = StoreS => s = Hook5
  BY StepNames, TellTable, SettingsTable DEF HookProgram
<1>3. s \in HandlerProgram /\ Head(s) \in {StoreG, RebuildG} => s \in {Tell3, Tell2, Full4, Full3}
  <2>1. Head(s) \in {StoreG, RebuildG} => s \notin {Full7, Full6, Full5, Full2, Full1}
    BY StepNames, FullTable
  <2>2. Head(s) \in {StoreG, RebuildG} => s \notin {Tell4, Tell1, Plain3, Plain2}
    BY StepNames, TellTable, SettingsTable
  <2> QED
    BY <2>1, <2>2 DEF HandlerProgram
<1>4. s \in HookProgram /\ Head(s) \in {StoreG, RebuildG} => s \in {Tell3, Tell2}
  BY StepNames, TellTable, SettingsTable DEF HookProgram
<1>5. /\ TellsSettings(Full5) /\ TellsSettings(Full1) /\ MeansToTell(Full5)
      /\ TellsGroups(Tell4) /\ TellsGroups(Tell2) /\ TellsGroups(Tell1) /\ TellsGroups(Full3) /\ TellsGroups(Full2)
  BY DEF TellsSettings, MeansToTell, TellsGroups
<1> QED
  BY <1>1, <1>2, <1>3, <1>4, <1>5, TellTable, FullTable, SettingsTable

\* What the listeners do, step by step.
LEMMA ListenersStep ==
  ASSUME NEW s, s # <<>>
  PROVE  /\ s \in RefreshProgram /\ Head(s) = LoadG => Tail(s) # <<>> /\ Head(Tail(s)) = StoreG
         /\ s \in RefreshProgram /\ Head(s) = StoreG => Tail(s) # <<>> /\ Head(Tail(s)) = RebuildG
         /\ s \in RefreshProgram /\ Head(s) = RebuildG => Tail(s) = <<>>
         /\ s \in RefreshProgram => Head(s) \in {LoadG, StoreG, RebuildG}
         /\ s \in HookProgram \cup OnlyProgram /\ Head(s) = LoadS => Tail(s) # <<>> /\ Head(Tail(s)) = StoreS
         /\ s \in HookProgram \cup OnlyProgram /\ Head(s) # LoadS /\ Tail(s) # <<>> =>
              Head(Tail(s)) # LoadS /\ Head(Tail(s)) # StoreS
<1>1. s \in RefreshProgram => s \in {Refresh3, Refresh2, Refresh1}
  BY DEF RefreshProgram
<1>2. s \in HookProgram => s \in {Hook6, Hook5, Tell4, Tell3, Tell2, Tell1}
  BY DEF HookProgram
<1>3. s \in OnlyProgram => s \in {Only2, Only1}
  BY DEF OnlyProgram
<1>4. s \in RefreshProgram =>
        /\ Head(s) = LoadG => Tail(s) # <<>> /\ Head(Tail(s)) = StoreG
        /\ Head(s) = StoreG => Tail(s) # <<>> /\ Head(Tail(s)) = RebuildG
        /\ Head(s) = RebuildG => Tail(s) = <<>>
        /\ Head(s) \in {LoadG, StoreG, RebuildG}
  BY <1>1, StepNames, GroupTable
<1>5. s \in HookProgram =>
        /\ Head(s) = LoadS => Tail(s) # <<>> /\ Head(Tail(s)) = StoreS
        /\ Head(s) # LoadS /\ Tail(s) # <<>> => Head(Tail(s)) # LoadS /\ Head(Tail(s)) # StoreS
  BY <1>2, StepNames, TellTable, SettingsTable
<1>6. s \in OnlyProgram =>
        /\ Head(s) = LoadS => Tail(s) # <<>> /\ Head(Tail(s)) = StoreS
        /\ Head(s) # LoadS /\ Tail(s) # <<>> => Head(Tail(s)) # LoadS /\ Head(Tail(s)) # StoreS
  BY <1>3, StepNames, SettingsTable
<1> QED
  BY <1>4, <1>5, <1>6

\* Which process this is, and what it may have to do.
LEMMA WhoActs ==
  ASSUME ProgramsShaped, CachesTyped, NEW p \in CacheProcess, program[p] # <<>>
  PROVE  /\ At(p) \in Instance
         /\ p \in Handler => /\ program[p] \in HandlerProgram /\ At(p) = place[p] /\ p \notin Listener
                             /\ At(p) = MasterInstance => program[p] \notin {Plain3, Plain2}
         /\ p \notin Handler => /\ p = <<At(p), "groups">> \/ p = <<At(p), "settings">>
                                /\ p \in Listener
         /\ p = <<At(p), "groups">> => program[p] \in RefreshProgram
         /\ p = <<At(p), "settings">> =>
              program[p] \in IF At(p) = MasterInstance THEN HookProgram ELSE OnlyProgram
<1>1. CASE p \in Handler
  <2>1. At(p) = place[p] /\ place[p] # "nowhere" /\ p \notin Listener /\ program[p] \in HandlerProgram
        /\ (place[p] = MasterInstance => program[p] \notin {Plain3, Plain2})
    BY <1>1, CacheSyncAssumption DEF ProgramsShaped, At, Listener
  <2>2. place[p] \in Instance
    BY <1>1, <2>1 DEF CachesTyped
  <2>3. \A c \in Channel : p # <<At(p), c>>
    BY <2>1, <2>2 DEF Listener
  <2> QED
    BY <1>1, <2>1, <2>2, <2>3 DEF Channel
<1>2. CASE p \notin Handler
  <2>1. PICK i \in Instance, c \in Channel : p = <<i, c>>
    BY <1>2 DEF CacheProcess, Listener
  <2>2. At(p) = i /\ p \in Listener
    BY <1>2, <2>1 DEF At, Listener
  <2>3. c = "groups" \/ c = "settings"
    BY DEF Channel
  <2>4. p = <<i, "groups">> => program[p] \in RefreshProgram
    BY DEF ProgramsShaped
  <2>5. p = <<i, "settings">> => program[p] \in IF i = MasterInstance THEN HookProgram ELSE OnlyProgram
    BY DEF ProgramsShaped
  <2> QED
    BY <1>2, <2>1, <2>2, <2>3, <2>4, <2>5
<1> QED
  BY <1>1, <1>2

LEMMA ListenersAre ==
  ASSUME NEW i \in Instance, NEW c \in Channel
  PROVE  <<i, c>> \in Listener /\ <<i, c>> \in CacheProcess /\ <<i, c>> \notin Handler /\ At(<<i, c>>) = i
  BY CacheSyncAssumption DEF Listener, CacheProcess, At

LEMMA ProceedsShaped ==
  ASSUME ProgramsShaped, CachesTyped, NEW p \in CacheProcess, program[p] # <<>>, Proceeds(p), place' = place
  PROVE  ProgramsShaped'
<1>1. DOMAIN program' = CacheProcess /\ \A q \in CacheProcess : program'[q] = IF q = p THEN Tail(program[p]) ELSE program[q]
  BY DEF Proceeds, ProgramsShaped
<1>2. ASSUME NEW h \in Handler
      PROVE  /\ program'[h] \in HandlerProgram
             /\ place'[h] = "nowhere" => program'[h] = <<>>
             /\ place'[h] = MasterInstance => program'[h] \notin {Plain3, Plain2}
  <2>1. h \in CacheProcess
    BY DEF CacheProcess
  <2> QED
    BY <1>1, <2>1, TailsShaped DEF ProgramsShaped
<1>3. ASSUME NEW i \in Instance
      PROVE  /\ program'[<<i, "groups">>] \in RefreshProgram
             /\ program'[<<i, "settings">>] \in IF i = MasterInstance THEN HookProgram ELSE OnlyProgram
  <2>1. <<i, "groups">> \in CacheProcess /\ <<i, "settings">> \in CacheProcess
    BY ListenersAre DEF Channel
  <2>2. program'[<<i, "groups">>] \in RefreshProgram
    BY <1>1, <2>1, TailsShaped DEF ProgramsShaped
  <2>3. program'[<<i, "settings">>] \in IF i = MasterInstance THEN HookProgram ELSE OnlyProgram
    BY <1>1, <2>1, TailsShaped DEF ProgramsShaped
  <2> QED
    BY <2>2, <2>3
<1> QED
  BY <1>1, <1>2, <1>3 DEF ProgramsShaped

\* What is due stays due while a process takes a step other than its publication.
LEMMA ProceedsDue ==
  ASSUME ProgramsShaped, CachesTyped, NEW p \in CacheProcess, program[p] # <<>>, Proceeds(p),
         Head(program[p]) # TellG, Head(program[p]) # TellS, UNCHANGED <<place, inbox, unheard>>
  PROVE  /\ \A i \in Instance : SettingsDue(i) => SettingsDue(i)'
         /\ \A i \in Instance : GroupsDue(i) => GroupsDue(i)'
         /\ ConfigDue => ConfigDue'
<1>1. \A q \in CacheProcess : program'[q] = IF q = p THEN Tail(program[p]) ELSE program[q]
  BY DEF Proceeds, ProgramsShaped
<1>2. \A q \in CacheProcess : /\ TellsSettings(program[q]) => TellsSettings(program'[q])
                              /\ TellsGroups(program[q]) => TellsGroups(program'[q])
                              /\ MeansToTell(program[q]) => MeansToTell(program'[q])
  BY <1>1, TailsTell
<1>3. \A q \in CacheProcess : At(q)' = At(q)
  BY DEF At
<1>4. ASSUME NEW i \in Instance PROVE SettingsDue(i) => SettingsDue(i)'
  BY <1>2 DEF SettingsDue, CacheProcess
<1>5. ASSUME NEW i \in Instance PROVE GroupsDue(i) => GroupsDue(i)'
  BY <1>2 DEF GroupsDue
<1>6. ConfigDue => ConfigDue'
  <2>1. GroupsDue(MasterInstance) => GroupsDue(MasterInstance)'
    BY <1>5, CacheSyncAssumption
  <2> QED
    BY <1>2, <1>3, <2>1 DEF ConfigDue
<1> QED
  BY <1>4, <1>5, <1>6

\* Another process's step leaves the next step of a listener alone.
LEMMA OthersStep ==
  ASSUME ProgramsShaped, NEW p \in CacheProcess, NEW l \in CacheProcess, l # p, Proceeds(p)
  PROVE  \A n : Step(l, n)' <=> Step(l, n)
  BY DEF Step, Proceeds, ProgramsShaped

--------------------------------------------------------------------------
(* One lemma per action: it keeps the invariant of the caches *)

LEMMA LoadsKeeps ==
  ASSUME CacheInv, NEW p \in CacheProcess, Loads(p)
  PROVE  CacheInv'
<1> USE DEF CacheInv
<1>1. /\ program[p] # <<>> /\ Head(program[p]) \in {LoadG, LoadS} /\ Proceeds(p)
      /\ UNCHANGED <<running, dbVersion, settingsAt, groupsAt, selectors, place, inbox, subscribed, unheard>>
      /\ loadedAt' = [loadedAt EXCEPT ![p] = IF Head(program[p]) = LoadG
                        THEN [groups |-> dbVersion["groups"], settings |-> settingsAt[At(p)]]
                        ELSE [@ EXCEPT !.settings = dbVersion["settings"]]]
  BY DEF Loads, Step, LoadG, LoadS
<1>2. At(p) \in Instance
  BY <1>1, WhoActs
<1>3. CachesTyped'
  <2>1. loadedAt' \in [CacheProcess -> GroupCache]
    BY <1>1, <1>2 DEF CachesTyped, GroupCache, Channel
  <2> QED
    BY <1>1, <2>1 DEF CachesTyped
<1>4. ProgramsShaped'
  BY <1>1, ProceedsShaped
<1>5. /\ \A i \in Instance : SettingsDue(i) => SettingsDue(i)'
      /\ \A i \in Instance : GroupsDue(i) => GroupsDue(i)'
      /\ ConfigDue => ConfigDue'
  BY <1>1, ProceedsDue, StepNames
<1>6. /\ program' = [program EXCEPT ![p] = Tail(program[p])] /\ program'[p] = Tail(program[p])
      /\ loadedAt'[p] = IF Head(program[p]) = LoadG
                        THEN [groups |-> dbVersion["groups"], settings |-> settingsAt[At(p)]]
                        ELSE [loadedAt[p] EXCEPT !.settings = dbVersion["settings"]]
      /\ \A q \in CacheProcess : q # p => loadedAt'[q] = loadedAt[q]
  BY <1>1 DEF Proceeds, ProgramsShaped, CachesTyped
<1>7. ASSUME NEW i \in Instance PROVE SettingsFollow(i)'
  <2> DEFINE l == <<i, "settings">>
  <2>1. l \in CacheProcess /\ At(l) = i
    BY ListenersAre DEF Channel
  <2>2. CASE l # p
    <3>1. \A n : Step(l, n)' <=> Step(l, n)
      BY <1>1, <2>1, <2>2, OthersStep
    <3>2. SettingsFollow(i)
      OBVIOUS
    <3> QED
      BY <1>1, <1>5, <1>6, <2>1, <2>2, <3>1, <3>2 DEF SettingsFollow
  <2>3. CASE l = p /\ Head(program[p]) = LoadS
    <3>1. program[p] \in HookProgram \cup OnlyProgram
      BY <1>1, <2>1, <2>3, WhoActs
    <3>2. Step(l, StoreS)'
      BY <1>1, <1>6, <2>3, <3>1, ListenersStep DEF Step
    <3>3. loadedAt'[p].settings = dbVersion'["settings"]
      BY <1>1, <1>6, <2>3, StepNames DEF CachesTyped, GroupCache
    <3> QED
      BY <2>3, <3>2, <3>3 DEF SettingsFollow
  <2>4. CASE l = p /\ Head(program[p]) = LoadG
    <3>1. program[p] \in HookProgram \cup OnlyProgram
      BY <1>1, <2>1, <2>4, WhoActs
    <3>2. ~Step(l, LoadS)' /\ ~Step(l, StoreS)'
      BY <1>1, <1>6, <2>4, <3>1, StepNames, ListenersStep DEF Step
    <3>3. ~Step(l, LoadS) /\ ~Step(l, StoreS)
      BY <2>4, StepNames DEF Step
    <3>4. SettingsFollow(i)
      OBVIOUS
    <3> QED
      BY <1>1, <1>5, <3>2, <3>3, <3>4 DEF SettingsFollow
  <2> QED
    BY <1>1, <2>2, <2>3, <2>4
<1>8. ASSUME NEW i \in Instance, <<i, "groups">> = p
      PROVE  /\ Step(<<i, "groups">>, StoreG)' /\ ~Step(<<i, "groups">>, RebuildG)'
             /\ loadedAt'[<<i, "groups">>].groups = dbVersion["groups"]
             /\ loadedAt'[<<i, "groups">>].settings = settingsAt[i]
  <2>1. At(p) = i
    BY <1>8, ListenersAre DEF Channel
  <2>2. program[p] \in RefreshProgram
    BY <1>1, <1>8, <2>1, WhoActs
  <2>3. Head(program[p]) = LoadG
    BY <1>1, <2>2, ListenersStep, StepNames
  <2>4. Step(<<i, "groups">>, StoreG)' /\ ~Step(<<i, "groups">>, RebuildG)'
    BY <1>1, <1>6, <1>8, <2>2, <2>3, StepNames, ListenersStep DEF Step
  <2>5. loadedAt'[<<i, "groups">>] = [groups |-> dbVersion["groups"], settings |-> settingsAt[i]]
    BY <1>6, <1>8, <2>1, <2>3
  <2> QED
    BY <2>4, <2>5
<1>9. ASSUME NEW i \in Instance PROVE GroupsFollow(i)'
  <2> DEFINE l == <<i, "groups">>
  <2>1. l \in CacheProcess
    BY ListenersAre DEF Channel
  <2>2. CASE l # p
    <3>1. \A n : Step(l, n)' <=> Step(l, n)
      BY <1>1, <2>1, <2>2, OthersStep
    <3>2. GroupsFollow(i)
      OBVIOUS
    <3> QED
      BY <1>1, <1>5, <1>6, <2>1, <2>2, <3>1, <3>2 DEF GroupsFollow
  <2>3. CASE l = p
    <3>1. /\ Step(l, StoreG)' /\ ~Step(l, RebuildG)'
          /\ loadedAt'[l].groups = dbVersion["groups"]
      BY <1>8, <2>3
    <3> QED
      BY <1>1, <3>1 DEF GroupsFollow
  <2> QED
    BY <2>2, <2>3
<1>10. ConfigFollows'
  <2> DEFINE l == <<MasterInstance, "groups">>
  <2>1. l \in CacheProcess /\ MasterInstance \in Instance
    BY ListenersAre, CacheSyncAssumption DEF Channel
  <2>2. CASE l # p
    <3>1. \A n : Step(l, n)' <=> Step(l, n)
      BY <1>1, <2>1, <2>2, OthersStep
    <3>2. ConfigFollows
      OBVIOUS
    <3> QED
      BY <1>1, <1>5, <1>6, <2>1, <2>2, <3>1, <3>2 DEF ConfigFollows
  <2>3. CASE l = p
    <3>1. Step(l, StoreG)' /\ loadedAt'[l].settings = settingsAt[MasterInstance]
      BY <1>8, <2>1, <2>3
    <3> QED
      BY <1>1, <3>1 DEF ConfigFollows
  <2> QED
    BY <2>2, <2>3
<1> QED
  BY <1>3, <1>4, <1>7, <1>9, <1>10

LEMMA LoadFailsKeeps ==
  ASSUME CacheInv, NEW p \in CacheProcess, LoadFails(p)
  PROVE  CacheInv'
<1> USE DEF CacheInv
<1>1. /\ program[p] # <<>> /\ (Head(program[p]) = LoadG \/ Head(program[p]) = LoadS)
      /\ UNCHANGED <<running, dbVersion, settingsAt, groupsAt, selectors, loadedAt, place, inbox, subscribed>>
      /\ program' = [program EXCEPT ![p] = AfterLoadFault(program[p])]
      /\ unheard' = [l \in Listener |-> unheard[l] \/ l[1] = At(p)]
  BY DEF LoadFails, Step, LoadG, LoadS
<1>2. At(p) \in Instance /\ \A q \in CacheProcess : At(q)' = At(q)
  BY <1>1, WhoActs DEF At
<1>3. CachesTyped'
  <2>1. unheard' \in [Listener -> BOOLEAN]
    BY <1>1, Zenon DEF CachesTyped
  <2> QED
    BY <1>1, <2>1 DEF CachesTyped
<1>4. /\ DOMAIN program' = CacheProcess /\ program'[p] = AfterLoadFault(program[p])
      /\ \A q \in CacheProcess : q # p => program'[q] = program[q]
  BY <1>1 DEF ProgramsShaped
<1>5. /\ {<<>>, Tell1, Full2, Full1} \subseteq HandlerProgram /\ <<>> \in RefreshProgram
      /\ {<<>>, Tell1} \subseteq HookProgram /\ <<>> \in OnlyProgram
  BY DEF HandlerProgram, RefreshProgram, HookProgram, OnlyProgram
<1>6. Plain3 \notin {<<>>, Tell1, Full2, Full1} /\ Plain2 \notin {<<>>, Tell1, Full2, Full1}
  BY SettingsTable, TellTable, FullTable, StepNames
<1>7. ProgramsShaped'
  <2>1. ASSUME NEW h \in Handler
        PROVE  /\ program'[h] \in HandlerProgram
               /\ place'[h] = "nowhere" => program'[h] = <<>>
               /\ place'[h] = MasterInstance => program'[h] \notin {Plain3, Plain2}
    <3>1. h \in CacheProcess
      BY DEF CacheProcess
    <3>2. CASE h # p
      BY <1>1, <1>4, <3>1, <3>2 DEF ProgramsShaped
    <3>3. CASE h = p
      <4>1. program'[h] \in {<<>>, Tell1, Full2, Full1}
        BY <1>1, <1>4, <3>3, FaultsShaped DEF ProgramsShaped
      <4> QED
        BY <1>1, <1>5, <1>6, <3>3, <4>1 DEF ProgramsShaped
    <3> QED
      BY <3>2, <3>3
  <2>2. ASSUME NEW i \in Instance
        PROVE  /\ program'[<<i, "groups">>] \in RefreshProgram
               /\ program'[<<i, "settings">>] \in IF i = MasterInstance THEN HookProgram ELSE OnlyProgram
    <3>1. <<i, "groups">> \in CacheProcess /\ <<i, "settings">> \in CacheProcess
      BY ListenersAre DEF Channel
    <3>2. program'[<<i, "groups">>] \in RefreshProgram
      BY <1>1, <1>4, <1>5, <3>1, FaultsShaped DEF ProgramsShaped
    <3>3. program'[<<i, "settings">>] \in IF i = MasterInstance THEN HookProgram ELSE OnlyProgram
      BY <1>1, <1>4, <1>5, <3>1, FaultsShaped DEF ProgramsShaped
    <3> QED
      BY <3>2, <3>3
  <2> QED
    BY <1>4, <2>1, <2>2 DEF ProgramsShaped
<1>8. \A q \in CacheProcess : /\ TellsSettings(program[q]) => TellsSettings(program'[q])
                              /\ TellsGroups(program[q]) => TellsGroups(program'[q])
  BY <1>1, <1>4, FaultsShaped
<1>9. ASSUME NEW i \in Instance
      PROVE  /\ SettingsDue(i) => SettingsDue(i)'
             /\ GroupsDue(i) => GroupsDue(i)'
             /\ i = At(p) => SettingsDue(i)' /\ GroupsDue(i)'
  <2>1. \A c \in Channel : <<i, c>> \in Listener
    BY DEF Listener
  <2>2. \A c \in Channel : /\ unheard[<<i, c>>] => unheard'[<<i, c>>]
                           /\ i = At(p) => unheard'[<<i, c>>]
    BY <1>1, <2>1
  <2>3. "groups" \in Channel /\ "settings" \in Channel
    BY DEF Channel
  <2>4. SettingsDue(i) => SettingsDue(i)'
    BY <1>1, <1>8, <2>2, <2>3 DEF SettingsDue, CacheProcess
  <2>5. GroupsDue(i) => GroupsDue(i)'
    BY <1>1, <1>8, <2>2, <2>3 DEF GroupsDue
  <2>6. i = At(p) => SettingsDue(i)' /\ GroupsDue(i)'
    BY <2>2, <2>3 DEF SettingsDue, GroupsDue
  <2> QED
    BY <2>4, <2>5, <2>6
<1>10. ASSUME NEW i \in Instance, NEW c \in Channel, i # At(p)
       PROVE  \A n : Step(<<i, c>>, n)' <=> Step(<<i, c>>, n)
  <2>1. <<i, c>> \in CacheProcess /\ At(<<i, c>>) = i
    BY ListenersAre
  <2> QED
    BY <1>4, <1>10, <2>1 DEF Step
<1>11. ASSUME NEW i \in Instance PROVE SettingsFollow(i)' /\ GroupsFollow(i)'
  <2>1. CASE i = At(p)
    BY <1>9, <2>1 DEF SettingsFollow, GroupsFollow
  <2>2. CASE i # At(p)
    <3>1. \A n : /\ Step(<<i, "groups">>, n)' <=> Step(<<i, "groups">>, n)
                 /\ Step(<<i, "settings">>, n)' <=> Step(<<i, "settings">>, n)
      BY <1>10, <2>2 DEF Channel
    <3>2. SettingsFollow(i)
      OBVIOUS
    <3>3. GroupsFollow(i)
      OBVIOUS
    <3>4. SettingsFollow(i)'
      BY <1>1, <1>9, <3>1, <3>2 DEF SettingsFollow
    <3>5. GroupsFollow(i)'
      BY <1>1, <1>9, <3>1, <3>3 DEF GroupsFollow
    <3> QED
      BY <3>4, <3>5
  <2> QED
    BY <2>1, <2>2
<1>12. ConfigFollows'
  <2>1. MasterInstance \in Instance
    BY CacheSyncAssumption
  <2>2. CASE MasterInstance = At(p)
    BY <1>9, <2>1, <2>2 DEF ConfigFollows, ConfigDue
  <2>3. CASE MasterInstance # At(p)
    <3>1. \A n : Step(<<MasterInstance, "groups">>, n)' <=> Step(<<MasterInstance, "groups">>, n)
      BY <1>10, <2>1, <2>3 DEF Channel
    <3>2. ConfigDue => ConfigDue'
      <4>1. GroupsDue(MasterInstance) => GroupsDue(MasterInstance)'
        BY <1>9, <2>1
      <4>2. \A q \in CacheProcess : At(q) = MasterInstance => program'[q] = program[q]
        BY <1>4, <2>3
      <4> QED
        BY <1>2, <4>1, <4>2 DEF ConfigDue
    <3>3. ConfigFollows
      OBVIOUS
    <3> QED
      BY <1>1, <3>1, <3>2, <3>3 DEF ConfigFollows
  <2> QED
    BY <2>2, <2>3
<1> QED
  BY <1>3, <1>7, <1>11, <1>12

LEMMA StoresSettingsKeeps ==
  ASSUME CacheInv, NEW p \in CacheProcess, StoresSettings(p)
  PROVE  CacheInv'
<1> USE DEF CacheInv
<1>1. /\ program[p] # <<>> /\ Head(program[p]) = StoreS /\ Proceeds(p)
      /\ UNCHANGED <<running, dbVersion, groupsAt, selectors, loadedAt, place, inbox, subscribed, unheard>>
      /\ settingsAt' = [settingsAt EXCEPT ![At(p)] = loadedAt[p].settings]
  BY DEF StoresSettings, Step, StoreS
<1>2. At(p) \in Instance /\ loadedAt[p] \in GroupCache
  BY <1>1, WhoActs DEF CachesTyped
<1>3. CachesTyped'
  <2>1. settingsAt' \in [Instance -> Version]
    BY <1>1, <1>2 DEF CachesTyped, GroupCache
  <2> QED
    BY <1>1, <2>1 DEF CachesTyped
<1>4. ProgramsShaped'
  BY <1>1, ProceedsShaped
<1>5. /\ \A i \in Instance : SettingsDue(i) => SettingsDue(i)'
      /\ \A i \in Instance : GroupsDue(i) => GroupsDue(i)'
      /\ ConfigDue => ConfigDue'
  BY <1>1, ProceedsDue, StepNames
<1>6. /\ program'[p] = Tail(program[p])
      /\ settingsAt'[At(p)] = loadedAt[p].settings
      /\ \A i \in Instance : i # At(p) => settingsAt'[i] = settingsAt[i]
  BY <1>1, <1>2 DEF Proceeds, ProgramsShaped, CachesTyped
<1>7. p \in Handler => TellsSettings(program'[p])
  BY <1>1, <1>6, WhoActs, StoresTell
<1>8. At(p) = MasterInstance => MeansToTell(program'[p])
  <2>1. p # <<At(p), "groups">>
    BY <1>1, WhoActs, ListenersStep, StepNames
  <2>2. CASE p \in Handler
    BY <1>1, <1>6, <2>2, WhoActs, StoresTell
  <2>3. CASE p \notin Handler
    BY <1>1, <1>6, <2>1, <2>3, WhoActs, StoresTell DEF MeansToTell
  <2> QED
    BY <2>2, <2>3
<1>9. ASSUME NEW i \in Instance PROVE SettingsFollow(i)'
  <2> DEFINE l == <<i, "settings">>
  <2>1. l \in CacheProcess /\ At(l) = i
    BY ListenersAre DEF Channel
  <2>2. CASE l # p
    <3>1. \A n : Step(l, n)' <=> Step(l, n)
      BY <1>1, <2>1, <2>2, OthersStep
    <3>2. SettingsFollow(i)
      OBVIOUS
    <3>3. CASE p \in Handler
      BY <1>7, <3>3 DEF SettingsFollow, SettingsDue
    <3>4. CASE p \notin Handler
      <4>1. i # At(p)
        <5>1. p # <<At(p), "groups">>
          BY <1>1, WhoActs, ListenersStep, StepNames
        <5> QED
          BY <1>1, <2>2, <3>4, <5>1, WhoActs
      <4> QED
        BY <1>1, <1>5, <1>6, <3>1, <3>2, <4>1 DEF SettingsFollow
    <3> QED
      BY <3>3, <3>4
  <2>3. CASE l = p
    <3>1. program[p] \in HookProgram \cup OnlyProgram
      BY <1>1, <2>1, <2>3, WhoActs
    <3>2. ~Step(l, LoadS)' /\ ~Step(l, StoreS)'
      BY <1>1, <1>6, <2>3, <3>1, StepNames, ListenersStep DEF Step
    <3>3. ~Step(l, LoadS) /\ Step(l, StoreS)
      BY <1>1, <2>3, StepNames DEF Step
    <3>4. SettingsFollow(i)
      OBVIOUS
    <3> QED
      BY <1>1, <1>5, <1>6, <2>1, <2>3, <3>2, <3>3, <3>4 DEF SettingsFollow
  <2> QED
    BY <2>2, <2>3
<1>10. ASSUME NEW i \in Instance PROVE <<i, "groups">> # p
  BY <1>1, <1>10, ListenersStep, StepNames DEF ProgramsShaped
<1>11. ASSUME NEW i \in Instance
       PROVE  \A n : Step(<<i, "groups">>, n)' <=> Step(<<i, "groups">>, n)
  <2>1. <<i, "groups">> \in CacheProcess
    BY ListenersAre DEF Channel
  <2> QED
    BY <1>1, <1>10, <2>1, OthersStep
<1>12. ASSUME NEW i \in Instance PROVE GroupsFollow(i)'
  <2>1. GroupsFollow(i)
    OBVIOUS
  <2>2. \A n : Step(<<i, "groups">>, n)' <=> Step(<<i, "groups">>, n)
    BY <1>11
  <2> QED
    BY <1>1, <1>5, <2>1, <2>2 DEF GroupsFollow
<1>13. ConfigFollows'
  <2>1. MasterInstance \in Instance
    BY CacheSyncAssumption
  <2>2. CASE At(p) = MasterInstance
    <3>1. At(p)' = MasterInstance
      BY <1>1, <2>2 DEF At
    <3> QED
      BY <1>8, <2>2, <3>1 DEF ConfigFollows, ConfigDue
  <2>3. CASE At(p) # MasterInstance
    <3>1. \A n : Step(<<MasterInstance, "groups">>, n)' <=> Step(<<MasterInstance, "groups">>, n)
      BY <1>11, <2>1
    <3>2. ConfigFollows
      OBVIOUS
    <3> QED
      BY <1>1, <1>5, <1>6, <2>1, <2>3, <3>1, <3>2 DEF ConfigFollows
  <2> QED
    BY <2>2, <2>3
<1> QED
  BY <1>3, <1>4, <1>9, <1>12, <1>13

\* A store or a rebuild that is not the listener's own goes with a publication to come.
LEMMA GroupsToTell ==
  ASSUME ProgramsShaped, CachesTyped, NEW p \in CacheProcess, program[p] # <<>>, Proceeds(p),
         Head(program[p]) \in {StoreG, RebuildG}, p # <<At(p), "groups">>
  PROVE  \A i \in Instance : GroupsDue(i)'
<1>1. program[p] \in HandlerProgram \cup HookProgram
  <2>1. CASE p \in Handler
    BY <2>1, WhoActs
  <2>2. CASE p \notin Handler
    <3>1. program[p] \in HookProgram \cup OnlyProgram
      BY <2>2, WhoActs
    <3>2. program[p] \notin OnlyProgram
      BY SettingsTable, StepNames DEF OnlyProgram
    <3> QED
      BY <3>1, <3>2
  <2> QED
    BY <2>1, <2>2
<1>2. program'[p] = Tail(program[p])
  BY DEF Proceeds, ProgramsShaped
<1>3. TellsGroups(program'[p])
  BY <1>1, <1>2, StoresTell
<1> QED
  BY <1>3 DEF GroupsDue

LEMMA StoresGroupsKeeps ==
  ASSUME CacheInv, NEW p \in CacheProcess, StoresGroups(p)
  PROVE  CacheInv'
<1> USE DEF CacheInv
<1>1. /\ program[p] # <<>> /\ Head(program[p]) = StoreG /\ Proceeds(p)
      /\ UNCHANGED <<running, dbVersion, settingsAt, selectors, loadedAt, place, inbox, subscribed, unheard>>
      /\ groupsAt' = [groupsAt EXCEPT ![At(p)] = loadedAt[p]]
  BY DEF StoresGroups, Step, StoreG
<1>2. At(p) \in Instance /\ loadedAt[p] \in GroupCache
  BY <1>1, WhoActs DEF CachesTyped
<1>3. CachesTyped'
  <2>1. groupsAt' \in [Instance -> GroupCache]
    BY <1>1, <1>2 DEF CachesTyped
  <2> QED
    BY <1>1, <2>1 DEF CachesTyped
<1>4. ProgramsShaped'
  BY <1>1, ProceedsShaped
<1>5. /\ \A i \in Instance : SettingsDue(i) => SettingsDue(i)'
      /\ \A i \in Instance : GroupsDue(i) => GroupsDue(i)'
      /\ ConfigDue => ConfigDue'
  BY <1>1, ProceedsDue, StepNames
<1>6. /\ program'[p] = Tail(program[p])
      /\ groupsAt'[At(p)] = loadedAt[p]
      /\ \A i \in Instance : i # At(p) => groupsAt'[i] = groupsAt[i]
  BY <1>1, <1>2 DEF Proceeds, ProgramsShaped, CachesTyped
<1>7. p # <<At(p), "groups">> => \A i \in Instance : GroupsDue(i)'
  BY <1>1, GroupsToTell
<1>8. ASSUME NEW i \in Instance PROVE SettingsFollow(i)'
  <2> DEFINE l == <<i, "settings">>
  <2>1. l \in CacheProcess /\ At(l) = i
    BY ListenersAre DEF Channel
  <2>2. SettingsFollow(i)
    OBVIOUS
  <2>3. CASE l # p
    <3>1. \A n : Step(l, n)' <=> Step(l, n)
      BY <1>1, <2>1, <2>3, OthersStep
    <3> QED
      BY <1>1, <1>5, <2>2, <3>1 DEF SettingsFollow
  <2>4. CASE l = p
    <3>1. program[p] \in HookProgram \cup OnlyProgram
      BY <1>1, <2>1, <2>4, WhoActs
    <3>2. ~Step(l, LoadS)' /\ ~Step(l, StoreS)'
      BY <1>1, <1>6, <2>4, <3>1, StepNames, ListenersStep DEF Step
    <3>3. ~Step(l, LoadS) /\ ~Step(l, StoreS)
      BY <1>1, <2>4, StepNames DEF Step
    <3> QED
      BY <1>1, <1>5, <2>2, <3>2, <3>3 DEF SettingsFollow
  <2> QED
    BY <2>3, <2>4
<1>9. ASSUME NEW i \in Instance, <<i, "groups">> = p
      PROVE  /\ Step(<<i, "groups">>, RebuildG)' /\ ~Step(<<i, "groups">>, StoreG)' /\ At(p) = i
             /\ Step(<<i, "groups">>, StoreG) /\ ~Step(<<i, "groups">>, LoadG)
             /\ groupsAt'[i] = loadedAt[<<i, "groups">>]
  <2>1. At(p) = i
    BY <1>9, ListenersAre DEF Channel
  <2>2. program[p] \in RefreshProgram
    BY <1>1, <1>9, <2>1, WhoActs
  <2>3. Step(<<i, "groups">>, RebuildG)' /\ ~Step(<<i, "groups">>, StoreG)'
    BY <1>1, <1>6, <1>9, <2>2, StepNames, ListenersStep DEF Step
  <2>4. Step(<<i, "groups">>, StoreG) /\ ~Step(<<i, "groups">>, LoadG)
    BY <1>1, <1>9, StepNames DEF Step
  <2>5. groupsAt'[i] = loadedAt[<<i, "groups">>]
    BY <1>6, <1>9, <2>1
  <2> QED
    BY <2>1, <2>3, <2>4, <2>5
<1>10. ASSUME NEW i \in Instance, i # At(p)
       PROVE  \A n : Step(<<i, "groups">>, n)' <=> Step(<<i, "groups">>, n)
  <2>1. <<i, "groups">> \in CacheProcess /\ At(<<i, "groups">>) = i
    BY ListenersAre DEF Channel
  <2> QED
    BY <1>1, <1>10, <2>1, OthersStep
<1>11. ASSUME NEW i \in Instance PROVE GroupsFollow(i)'
  <2>1. GroupsFollow(i)
    OBVIOUS
  <2>2. CASE p # <<At(p), "groups">>
    BY <1>7, <2>2 DEF GroupsFollow
  <2>3. CASE p = <<At(p), "groups">> /\ i # At(p)
    <3>1. \A n : Step(<<i, "groups">>, n)' <=> Step(<<i, "groups">>, n)
      BY <1>10, <2>3
    <3> QED
      BY <1>1, <1>5, <1>6, <2>1, <2>3, <3>1 DEF GroupsFollow
  <2>4. CASE p = <<At(p), "groups">> /\ i = At(p)
    <3>1. /\ Step(<<i, "groups">>, RebuildG)' /\ ~Step(<<i, "groups">>, StoreG)'
          /\ Step(<<i, "groups">>, StoreG) /\ ~Step(<<i, "groups">>, LoadG)
          /\ groupsAt'[i] = loadedAt[<<i, "groups">>]
      BY <1>9, <2>4
    <3> QED
      BY <1>1, <1>5, <2>1, <3>1 DEF GroupsFollow
  <2> QED
    BY <2>2, <2>3, <2>4
<1>12. ConfigFollows'
  <2> DEFINE m == MasterInstance
  <2>1. m \in Instance /\ ConfigFollows
    BY CacheSyncAssumption
  <2>2. CASE p # <<At(p), "groups">>
    BY <1>7, <2>1, <2>2 DEF ConfigFollows, ConfigDue
  <2>3. CASE p = <<At(p), "groups">> /\ m # At(p)
    <3>1. \A n : Step(<<m, "groups">>, n)' <=> Step(<<m, "groups">>, n)
      BY <1>10, <2>1, <2>3
    <3> QED
      BY <1>1, <1>5, <1>6, <2>1, <2>3, <3>1 DEF ConfigFollows
  <2>4. CASE p = <<At(p), "groups">> /\ m = At(p)
    <3>1. /\ Step(<<m, "groups">>, RebuildG)' /\ ~Step(<<m, "groups">>, StoreG)'
          /\ Step(<<m, "groups">>, StoreG) /\ ~Step(<<m, "groups">>, LoadG)
          /\ groupsAt'[m] = loadedAt[<<m, "groups">>]
      BY <1>9, <2>1, <2>4
    <3> QED
      BY <1>1, <1>5, <2>1, <3>1 DEF ConfigFollows
  <2> QED
    BY <2>2, <2>3, <2>4
<1> QED
  BY <1>3, <1>4, <1>8, <1>11, <1>12

LEMMA RebuildsKeeps ==
  ASSUME CacheInv, NEW p \in CacheProcess, Rebuilds(p)
  PROVE  CacheInv'
<1> USE DEF CacheInv
<1>1. /\ program[p] # <<>> /\ Head(program[p]) = RebuildG /\ Proceeds(p)
      /\ UNCHANGED <<running, dbVersion, settingsAt, groupsAt, loadedAt, place, inbox, subscribed, unheard>>
      /\ selectors' = [selectors EXCEPT ![At(p)] = loadedAt[p]]
  BY DEF Rebuilds, Step, RebuildG
<1>2. At(p) \in Instance /\ loadedAt[p] \in GroupCache
  BY <1>1, WhoActs DEF CachesTyped
<1>3. CachesTyped'
  <2>1. selectors' \in [Instance -> GroupCache]
    BY <1>1, <1>2 DEF CachesTyped
  <2> QED
    BY <1>1, <2>1 DEF CachesTyped
<1>4. ProgramsShaped'
  BY <1>1, ProceedsShaped
<1>5. /\ \A i \in Instance : SettingsDue(i) => SettingsDue(i)'
      /\ \A i \in Instance : GroupsDue(i) => GroupsDue(i)'
      /\ ConfigDue => ConfigDue'
  BY <1>1, ProceedsDue, StepNames
<1>6. /\ program'[p] = Tail(program[p])
      /\ selectors'[At(p)] = loadedAt[p]
      /\ \A i \in Instance : i # At(p) => selectors'[i] = selectors[i]
  BY <1>1, <1>2 DEF Proceeds, ProgramsShaped, CachesTyped
<1>7. p # <<At(p), "groups">> => \A i \in Instance : GroupsDue(i)'
  BY <1>1, GroupsToTell
<1>8. ASSUME NEW i \in Instance PROVE SettingsFollow(i)'
  <2> DEFINE l == <<i, "settings">>
  <2>1. l \in CacheProcess /\ At(l) = i
    BY ListenersAre DEF Channel
  <2>2. SettingsFollow(i)
    OBVIOUS
  <2>3. CASE l # p
    <3>1. \A n : Step(l, n)' <=> Step(l, n)
      BY <1>1, <2>1, <2>3, OthersStep
    <3> QED
      BY <1>1, <1>5, <2>2, <3>1 DEF SettingsFollow
  <2>4. CASE l = p
    <3>1. program[p] \in HookProgram \cup OnlyProgram
      BY <1>1, <2>1, <2>4, WhoActs
    <3>2. ~Step(l, LoadS)' /\ ~Step(l, StoreS)'
      BY <1>1, <1>6, <2>4, <3>1, StepNames, ListenersStep DEF Step
    <3>3. ~Step(l, LoadS) /\ ~Step(l, StoreS)
      BY <1>1, <2>4, StepNames DEF Step
    <3> QED
      BY <1>1, <1>5, <2>2, <3>2, <3>3 DEF SettingsFollow
  <2> QED
    BY <2>3, <2>4
<1>9. ASSUME NEW i \in Instance, <<i, "groups">> = p
      PROVE  /\ \A n : ~Step(<<i, "groups">>, n)'
             /\ Step(<<i, "groups">>, RebuildG) /\ ~Step(<<i, "groups">>, LoadG) /\ ~Step(<<i, "groups">>, StoreG)
             /\ selectors'[i] = loadedAt[<<i, "groups">>]
  <2>1. At(p) = i
    BY <1>9, ListenersAre DEF Channel
  <2>2. program[p] \in RefreshProgram
    BY <1>1, <1>9, <2>1, WhoActs
  <2>3. \A n : ~Step(<<i, "groups">>, n)'
    BY <1>1, <1>6, <1>9, <2>2, ListenersStep DEF Step
  <2>4. Step(<<i, "groups">>, RebuildG) /\ ~Step(<<i, "groups">>, LoadG) /\ ~Step(<<i, "groups">>, StoreG)
    BY <1>1, <1>9, StepNames DEF Step
  <2>5. selectors'[i] = loadedAt[<<i, "groups">>]
    BY <1>6, <1>9, <2>1
  <2> QED
    BY <2>3, <2>4, <2>5
<1>10. ASSUME NEW i \in Instance, i # At(p)
       PROVE  \A n : Step(<<i, "groups">>, n)' <=> Step(<<i, "groups">>, n)
  <2>1. <<i, "groups">> \in CacheProcess /\ At(<<i, "groups">>) = i
    BY ListenersAre DEF Channel
  <2> QED
    BY <1>1, <1>10, <2>1, OthersStep
<1>11. ASSUME NEW i \in Instance PROVE GroupsFollow(i)'
  <2>1. GroupsFollow(i)
    OBVIOUS
  <2>2. CASE p # <<At(p), "groups">>
    BY <1>7, <2>2 DEF GroupsFollow
  <2>3. CASE p = <<At(p), "groups">> /\ i # At(p)
    <3>1. \A n : Step(<<i, "groups">>, n)' <=> Step(<<i, "groups">>, n)
      BY <1>10, <2>3
    <3> QED
      BY <1>1, <1>5, <1>6, <2>1, <2>3, <3>1 DEF GroupsFollow
  <2>4. CASE p = <<At(p), "groups">> /\ i = At(p)
    <3>1. /\ \A n : ~Step(<<i, "groups">>, n)'
          /\ Step(<<i, "groups">>, RebuildG) /\ ~Step(<<i, "groups">>, LoadG) /\ ~Step(<<i, "groups">>, StoreG)
          /\ selectors'[i] = loadedAt[<<i, "groups">>]
      BY <1>9, <2>4
    <3> QED
      BY <1>1, <1>5, <2>1, <3>1 DEF GroupsFollow
  <2> QED
    BY <2>2, <2>3, <2>4
<1>12. ConfigFollows'
  <2> DEFINE m == MasterInstance
  <2>1. m \in Instance /\ ConfigFollows
    BY CacheSyncAssumption
  <2>2. CASE p # <<At(p), "groups">>
    BY <1>7, <2>1, <2>2 DEF ConfigFollows, ConfigDue
  <2>3. CASE p = <<At(p), "groups">> /\ m # At(p)
    <3>1. \A n : Step(<<m, "groups">>, n)' <=> Step(<<m, "groups">>, n)
      BY <1>10, <2>1, <2>3
    <3> QED
      BY <1>1, <1>5, <2>1, <3>1 DEF ConfigFollows
  <2>4. CASE p = <<At(p), "groups">> /\ m = At(p)
    <3>1. /\ \A n : ~Step(<<m, "groups">>, n)'
          /\ Step(<<m, "groups">>, RebuildG) /\ ~Step(<<m, "groups">>, LoadG) /\ ~Step(<<m, "groups">>, StoreG)
      BY <1>9, <2>1, <2>4
    <3> QED
      BY <1>1, <1>5, <2>1, <3>1 DEF ConfigFollows
  <2> QED
    BY <2>2, <2>3, <2>4
<1> QED
  BY <1>3, <1>4, <1>8, <1>11, <1>12

\* What a publication leaves in an inbox, taken by the store or not.
LEMMA Published ==
  ASSUME CachesTyped, NEW c \in Channel, NEW l \in Listener,
         \/ /\ inbox' = [k \in Listener |-> IF k[2] = c /\ subscribed[k] /\ inbox[k] < Buffer
                                            THEN inbox[k] + 1 ELSE inbox[k]]
            /\ unheard' = [k \in Listener |-> IF k[2] = c THEN ~subscribed[k] ELSE unheard[k]]
         \/ /\ inbox' = inbox
            /\ unheard' = [k \in Listener |-> unheard[k] \/ k[2] = c]
  PROVE  /\ inbox'[l] \in 0 .. Buffer /\ unheard'[l] \in BOOLEAN
         /\ l[2] = c => unheard'[l] \/ inbox'[l] > 0
         /\ l[2] # c => unheard'[l] = unheard[l] /\ inbox'[l] = inbox[l]
<1>1. inbox[l] \in 0 .. Buffer /\ Buffer \in Nat \ {0}
      /\ (subscribed[l] = TRUE \/ subscribed[l] = FALSE) /\ (unheard[l] = TRUE \/ unheard[l] = FALSE)
  BY CacheSyncAssumption DEF CachesTyped
<1>2. CASE /\ inbox' = [k \in Listener |-> IF k[2] = c /\ subscribed[k] /\ inbox[k] < Buffer
                                           THEN inbox[k] + 1 ELSE inbox[k]]
           /\ unheard' = [k \in Listener |-> IF k[2] = c THEN ~subscribed[k] ELSE unheard[k]]
  <2>1. /\ unheard'[l] = IF l[2] = c THEN ~subscribed[l] ELSE unheard[l]
        /\ inbox'[l] = IF l[2] = c /\ subscribed[l] /\ inbox[l] < Buffer THEN inbox[l] + 1 ELSE inbox[l]
    BY <1>2
  <2>2. unheard'[l] \in BOOLEAN
    BY <1>1, <2>1, Zenon
  <2>3. CASE subscribed[l] = TRUE
    BY <1>1, <2>1, <2>2, <2>3
  <2>4. CASE subscribed[l] = FALSE
    BY <1>1, <2>1, <2>2, <2>4
  <2> QED
    BY <1>1, <2>3, <2>4
<1>3. CASE inbox' = inbox /\ unheard' = [k \in Listener |-> unheard[k] \/ k[2] = c]
  <2>1. inbox'[l] = inbox[l] /\ unheard'[l] = (unheard[l] \/ l[2] = c)
    BY <1>3
  <2>2. unheard'[l] \in BOOLEAN
    BY <2>1, Zenon
  <2>3. l[2] # c => unheard'[l] = unheard[l]
    BY <1>1, <2>1
  <2> QED
    BY <1>1, <2>1, <2>2, <2>3
<1> QED
  BY <1>2, <1>3

LEMMA PublishesKeeps ==
  ASSUME CacheInv, NEW p \in CacheProcess, NEW c \in Channel, Publishes(p, c) \/ PublishFails(p, c)
  PROVE  CacheInv'
<1> USE DEF CacheInv
<1>1. /\ program[p] # <<>> /\ Proceeds(p)
      /\ Head(program[p]) = IF c = "groups" THEN TellG ELSE TellS
      /\ UNCHANGED <<running, dbVersion, settingsAt, groupsAt, selectors, loadedAt, place, subscribed>>
  <2>1. Step(p, IF c = "groups" THEN "publish groups" ELSE "publish settings") /\ Proceeds(p)
    BY DEF Publishes, PublishFails, Publishing
  <2>2. UNCHANGED <<running, dbVersion, settingsAt, groupsAt, selectors, loadedAt, place, subscribed>>
    BY DEF Publishes, PublishFails
  <2> QED
    BY <2>1, <2>2 DEF Step, TellG, TellS
<1>2. CachesTyped'
  <2>1. \/ /\ inbox' = [l \in Listener |-> IF l[2] = c /\ subscribed[l] /\ inbox[l] < Buffer
                                            THEN inbox[l] + 1 ELSE inbox[l]]
           /\ unheard' = [l \in Listener |-> IF l[2] = c THEN ~subscribed[l] ELSE unheard[l]]
        \/ /\ inbox' = inbox
           /\ unheard' = [l \in Listener |-> unheard[l] \/ l[2] = c]
    BY DEF Publishes, PublishFails
  <2>2. \A l \in Listener : inbox'[l] \in 0 .. Buffer /\ unheard'[l] \in BOOLEAN
    BY <2>1, Published
  <2>3. DOMAIN inbox' = Listener /\ DOMAIN unheard' = Listener
        /\ inbox' = [l \in Listener |-> inbox'[l]] /\ unheard' = [l \in Listener |-> unheard'[l]]
    BY <2>1 DEF CachesTyped
  <2>4. inbox' \in [Listener -> 0 .. Buffer] /\ unheard' \in [Listener -> BOOLEAN]
    BY <2>2, <2>3
  <2> QED
    BY <1>1, <2>4 DEF CachesTyped
<1>3. ProgramsShaped'
  BY <1>1, ProceedsShaped
<1>4. program'[p] = Tail(program[p]) /\ \A q \in CacheProcess : q # p => program'[q] = program[q]
  BY <1>1 DEF Proceeds, ProgramsShaped
<1>5. ASSUME NEW i \in Instance
      PROVE  /\ unheard'[<<i, c>>] \/ inbox'[<<i, c>>] > 0
             /\ \A d \in Channel \ {c} : unheard'[<<i, d>>] = unheard[<<i, d>>] /\ inbox'[<<i, d>>] = inbox[<<i, d>>]
  <2>1. \A d \in Channel : <<i, d>> \in Listener /\ <<i, d>>[2] = d
    BY DEF Listener
  <2>2. \/ /\ inbox' = [l \in Listener |-> IF l[2] = c /\ subscribed[l] /\ inbox[l] < Buffer
                                            THEN inbox[l] + 1 ELSE inbox[l]]
           /\ unheard' = [l \in Listener |-> IF l[2] = c THEN ~subscribed[l] ELSE unheard[l]]
        \/ /\ inbox' = inbox
           /\ unheard' = [l \in Listener |-> unheard[l] \/ l[2] = c]
    BY DEF Publishes, PublishFails
  <2> QED
    BY <2>1, <2>2, Published
<1>6. \A q \in CacheProcess :
         /\ c = "groups" /\ TellsSettings(program[q]) => TellsSettings(program'[q])
         /\ c = "settings" /\ TellsGroups(program[q]) => TellsGroups(program'[q])
         /\ c = "settings" /\ MeansToTell(program[q]) => MeansToTell(program'[q])
  <2>1. c = "groups" => Head(program[p]) # TellS
    BY <1>1, StepNames
  <2>2. c = "settings" => Head(program[p]) # TellG
    BY <1>1, StepNames
  <2> QED
    BY <1>1, <1>4, <2>1, <2>2, TailsTell
<1>7. ASSUME NEW i \in Instance
      PROVE  /\ SettingsDue(i) => SettingsDue(i)'
             /\ GroupsDue(i) => GroupsDue(i)'
             /\ c = "settings" => SettingsDue(i)'
             /\ c = "groups" => GroupsDue(i)'
  <2>1. CASE c = "settings"
    <3>1. SettingsDue(i)'
      BY <1>5, <2>1 DEF SettingsDue
    <3>2. "groups" \in Channel \ {c}
      BY <2>1 DEF Channel
    <3>3. unheard'[<<i, "groups">>] = unheard[<<i, "groups">>] /\ inbox'[<<i, "groups">>] = inbox[<<i, "groups">>]
      BY <1>5, <3>2
    <3>4. GroupsDue(i) => GroupsDue(i)'
      BY <1>6, <2>1, <3>3 DEF GroupsDue
    <3> QED
      BY <2>1, <3>1, <3>4
  <2>2. CASE c = "groups"
    <3>1. GroupsDue(i)'
      BY <1>5, <2>2 DEF GroupsDue
    <3>2. "settings" \in Channel \ {c}
      BY <2>2 DEF Channel
    <3>3. unheard'[<<i, "settings">>] = unheard[<<i, "settings">>] /\ inbox'[<<i, "settings">>] = inbox[<<i, "settings">>]
      BY <1>5, <3>2
    <3>4. SettingsDue(i) => SettingsDue(i)'
      BY <1>6, <2>2, <3>3 DEF SettingsDue, CacheProcess
    <3> QED
      BY <2>2, <3>1, <3>4
  <2> QED
    BY <2>1, <2>2 DEF Channel
<1>8. ConfigDue => ConfigDue'
  <2>1. MasterInstance \in Instance
    BY CacheSyncAssumption
  <2>2. CASE c = "groups"
    BY <1>7, <2>1, <2>2 DEF ConfigDue
  <2>3. CASE c = "settings"
    <3>1. \A q \in CacheProcess : At(q)' = At(q)
      BY <1>1 DEF At
    <3>2. GroupsDue(MasterInstance) => GroupsDue(MasterInstance)'
      BY <1>7, <2>1
    <3> QED
      BY <1>6, <2>3, <3>1, <3>2 DEF ConfigDue
  <2> QED
    BY <2>2, <2>3 DEF Channel
<1>9. ASSUME NEW i \in Instance PROVE SettingsFollow(i)'
  <2> DEFINE l == <<i, "settings">>
  <2>1. l \in CacheProcess /\ At(l) = i
    BY ListenersAre DEF Channel
  <2>2. SettingsFollow(i)
    OBVIOUS
  <2>3. CASE l # p
    <3>1. \A n : Step(l, n)' <=> Step(l, n)
      BY <1>1, <2>1, <2>3, OthersStep
    <3> QED
      BY <1>1, <1>7, <2>2, <3>1 DEF SettingsFollow
  <2>4. CASE l = p
    <3>1. program[p] \in HookProgram \cup OnlyProgram
      BY <1>1, <2>1, <2>4, WhoActs
    <3>2. Head(program[p]) # LoadS /\ Head(program[p]) # StoreS
      BY <1>1, StepNames
    <3>3. ~Step(l, LoadS)' /\ ~Step(l, StoreS)'
      BY <1>1, <1>4, <2>4, <3>1, <3>2, ListenersStep DEF Step
    <3>4. ~Step(l, LoadS) /\ ~Step(l, StoreS)
      BY <1>1, <2>4, <3>2 DEF Step
    <3> QED
      BY <1>1, <1>7, <2>2, <3>3, <3>4 DEF SettingsFollow
  <2> QED
    BY <2>3, <2>4
<1>10. ASSUME NEW i \in Instance
       PROVE  \A n : Step(<<i, "groups">>, n)' <=> Step(<<i, "groups">>, n)
  <2>1. <<i, "groups">> \in CacheProcess
    BY ListenersAre DEF Channel
  <2>2. <<i, "groups">> # p
    <3>1. Head(program[p]) \notin {LoadG, StoreG, RebuildG}
      BY <1>1, StepNames
    <3> QED
      BY <1>1, <3>1, ListenersStep DEF ProgramsShaped
  <2> QED
    BY <1>1, <2>1, <2>2, OthersStep
<1>11. ASSUME NEW i \in Instance PROVE GroupsFollow(i)'
  <2>1. GroupsFollow(i)
    OBVIOUS
  <2>2. \A n : Step(<<i, "groups">>, n)' <=> Step(<<i, "groups">>, n)
    BY <1>10
  <2>3. GroupsDue(i) => GroupsDue(i)'
    BY <1>7
  <2> QED
    BY <1>1, <2>1, <2>2, <2>3 DEF GroupsFollow
<1>12. ConfigFollows'
  <2>1. MasterInstance \in Instance /\ ConfigFollows
    BY CacheSyncAssumption
  <2>2. \A n : Step(<<MasterInstance, "groups">>, n)' <=> Step(<<MasterInstance, "groups">>, n)
    BY <1>10, <2>1
  <2> QED
    BY <1>1, <1>8, <2>1, <2>2 DEF ConfigFollows
<1> QED
  BY <1>2, <1>3, <1>9, <1>11, <1>12

\* Only who is subscribed changes.
LEMMA SubscriptionsKeep ==
  ASSUME CacheInv, NEW l \in Listener, Subscribes(l) \/ Disconnects(l)
  PROVE  CacheInv'
<1>1. /\ UNCHANGED <<running, dbVersion, settingsAt, groupsAt, selectors, program, loadedAt, place, inbox, unheard>>
      /\ subscribed' = [subscribed EXCEPT ![l] = TRUE] \/ subscribed' = [subscribed EXCEPT ![l] = FALSE]
  BY DEF Subscribes, Disconnects
<1>2. CachesTyped'
  <2>1. subscribed' \in [Listener -> BOOLEAN]
    BY <1>1, Zenon DEF CacheInv, CachesTyped
  <2> QED
    BY <1>1, <2>1 DEF CacheInv, CachesTyped
<1>3. ProgramsShaped'
  BY <1>1 DEF CacheInv, ProgramsShaped
<1>4. ASSUME NEW i \in Instance PROVE SettingsFollow(i)' /\ GroupsFollow(i)'
  <2>1. SettingsFollow(i)
    BY DEF CacheInv
  <2>2. GroupsFollow(i)
    BY DEF CacheInv
  <2>3. SettingsFollow(i)'
    BY <1>1, <2>1 DEF SettingsFollow, SettingsDue, Step
  <2>4. GroupsFollow(i)'
    BY <1>1, <2>2 DEF GroupsFollow, GroupsDue, Step
  <2> QED
    BY <2>3, <2>4
<1>5. ConfigFollows'
  <2>1. ConfigFollows
    BY DEF CacheInv
  <2>2. ConfigDue' <=> ConfigDue
    BY <1>1 DEF ConfigDue, GroupsDue, At
  <2> QED
    BY <1>1, <2>1, <2>2 DEF ConfigFollows, Step
<1> QED
  BY <1>2, <1>3, <1>4, <1>5 DEF CacheInv

LEMMA NothingToTell ==
  ~TellsSettings(<<>>) /\ ~TellsGroups(<<>>) /\ ~MeansToTell(<<>>)
  BY TellTable, FullTable, SettingsTable DEF TellsSettings, TellsGroups, MeansToTell

LEMMA HearsKeeps ==
  ASSUME CacheInv, NEW i \in Instance, NEW c \in Channel, Hears(<<i, c>>)
  PROVE  CacheInv'
<1> DEFINE l == <<i, c>>
<1> USE DEF CacheInv
<1>1. /\ inbox[l] > 0 /\ program[l] = <<>> /\ inbox' = [inbox EXCEPT ![l] = @ - 1]
      /\ program' = [program EXCEPT ![l] = Reload(c, i)]
      /\ UNCHANGED <<running, dbVersion, settingsAt, groupsAt, selectors, loadedAt, place, subscribed, unheard>>
  BY DEF Hears
<1>2. l \in Listener /\ l \in CacheProcess /\ l \notin Handler
  BY ListenersAre
<1>3. /\ DOMAIN program' = CacheProcess /\ program'[l] = Reload(c, i)
      /\ \A q \in CacheProcess : q # l => program'[q] = program[q]
      /\ \A k \in Listener : k # l => inbox'[k] = inbox[k]
  BY <1>1, <1>2 DEF ProgramsShaped, CachesTyped
<1>4. CachesTyped'
  <2>1. inbox[l] \in 0 .. Buffer /\ Buffer \in Nat
    BY <1>2, CacheSyncAssumption DEF CachesTyped
  <2>2. inbox[l] - 1 \in 0 .. Buffer
    BY <1>1, <2>1
  <2>3. inbox' \in [Listener -> 0 .. Buffer]
    BY <1>1, <1>2, <2>2 DEF CachesTyped
  <2> QED
    BY <1>1, <2>3 DEF CachesTyped
<1>5. /\ c = "groups" => program'[l] \in RefreshProgram /\ Step(l, LoadG)'
      /\ c = "settings" => /\ program'[l] \in IF i = MasterInstance THEN HookProgram ELSE OnlyProgram
                           /\ Step(l, LoadS)'
  <2>1. Refresh3 \in RefreshProgram /\ Hook6 \in HookProgram /\ Only2 \in OnlyProgram
    BY DEF RefreshProgram, HookProgram, OnlyProgram
  <2>2. CASE c = "groups"
    <3>1. program'[l] = Refresh3
      BY <1>3, <2>2, BeginTable
    <3> QED
      BY <2>1, <2>2, <3>1, GroupTable DEF Step
  <2>3. CASE c = "settings"
    <3>1. program'[l] = IF i = MasterInstance THEN Hook6 ELSE Only2
      BY <1>3, <2>3, BeginTable
    <3> QED
      BY <2>1, <2>3, <3>1, SettingsTable DEF Step
  <2> QED
    BY <2>2, <2>3 DEF Channel
<1>6. ProgramsShaped'
  <2>1. ASSUME NEW h \in Handler PROVE h \in CacheProcess /\ program'[h] = program[h]
    BY <1>2, <1>3 DEF CacheProcess
  <2>2. ASSUME NEW j \in Instance
        PROVE  /\ program'[<<j, "groups">>] \in RefreshProgram
               /\ program'[<<j, "settings">>] \in IF j = MasterInstance THEN HookProgram ELSE OnlyProgram
    <3>1. <<j, "groups">> \in CacheProcess /\ <<j, "settings">> \in CacheProcess
      BY ListenersAre DEF Channel
    <3>2. program'[<<j, "groups">>] \in RefreshProgram
      BY <1>3, <1>5, <3>1 DEF ProgramsShaped
    <3>3. program'[<<j, "settings">>] \in IF j = MasterInstance THEN HookProgram ELSE OnlyProgram
      BY <1>3, <1>5, <3>1 DEF ProgramsShaped
    <3> QED
      BY <3>2, <3>3
  <2> QED
    BY <1>1, <1>3, <2>1, <2>2 DEF ProgramsShaped
<1>7. \A q \in CacheProcess : /\ TellsSettings(program[q]) => TellsSettings(program'[q])
                              /\ TellsGroups(program[q]) => TellsGroups(program'[q])
                              /\ MeansToTell(program[q]) => MeansToTell(program'[q])
  BY <1>1, <1>3, NothingToTell
<1>8. ASSUME NEW j \in Instance PROVE <<j, "settings">> # l /\ SettingsDue(j) => SettingsDue(j)'
  <2>1. <<j, "settings">> \in Listener
    BY ListenersAre DEF Channel
  <2> QED
    BY <1>1, <1>3, <1>7, <2>1 DEF SettingsDue, CacheProcess
<1>9. ASSUME NEW j \in Instance PROVE <<j, "groups">> # l /\ GroupsDue(j) => GroupsDue(j)'
  <2>1. <<j, "groups">> \in Listener
    BY ListenersAre DEF Channel
  <2> QED
    BY <1>1, <1>3, <1>7, <2>1 DEF GroupsDue
<1>10. ASSUME NEW k \in CacheProcess, k # l PROVE \A n : Step(k, n)' <=> Step(k, n)
  BY <1>3, <1>10 DEF Step
<1>11. ASSUME NEW j \in Instance PROVE SettingsFollow(j)'
  <2>1. SettingsFollow(j) /\ <<j, "settings">> \in CacheProcess
    BY ListenersAre DEF Channel
  <2>2. CASE <<j, "settings">> # l
    <3>1. \A n : Step(<<j, "settings">>, n)' <=> Step(<<j, "settings">>, n)
      BY <1>10, <2>1, <2>2
    <3> QED
      BY <1>1, <1>8, <2>1, <2>2, <3>1 DEF SettingsFollow
  <2>3. CASE <<j, "settings">> = l
    <3>1. c = "settings" /\ j = i
      BY <2>3
    <3> QED
      BY <1>5, <3>1 DEF SettingsFollow
  <2> QED
    BY <2>2, <2>3
<1>12. ASSUME NEW j \in Instance PROVE GroupsFollow(j)'
  <2>1. GroupsFollow(j) /\ <<j, "groups">> \in CacheProcess
    BY ListenersAre DEF Channel
  <2>2. CASE <<j, "groups">> # l
    <3>1. \A n : Step(<<j, "groups">>, n)' <=> Step(<<j, "groups">>, n)
      BY <1>10, <2>1, <2>2
    <3> QED
      BY <1>1, <1>9, <2>1, <2>2, <3>1 DEF GroupsFollow
  <2>3. CASE <<j, "groups">> = l
    <3>1. c = "groups" /\ j = i
      BY <2>3
    <3> QED
      BY <1>5, <3>1 DEF GroupsFollow
  <2> QED
    BY <2>2, <2>3
<1>13. ConfigFollows'
  <2> DEFINE m == MasterInstance
  <2>1. m \in Instance /\ ConfigFollows /\ <<m, "groups">> \in CacheProcess
    BY ListenersAre, CacheSyncAssumption DEF Channel
  <2>2. CASE <<m, "groups">> # l
    <3>1. \A n : Step(<<m, "groups">>, n)' <=> Step(<<m, "groups">>, n)
      BY <1>10, <2>1, <2>2
    <3>2. \A q \in CacheProcess : At(q)' = At(q)
      BY <1>1 DEF At
    <3>3. GroupsDue(m) => GroupsDue(m)'
      BY <1>9, <2>1, <2>2
    <3>4. ConfigDue => ConfigDue'
      BY <1>7, <3>2, <3>3 DEF ConfigDue
    <3> QED
      BY <1>1, <2>1, <3>1, <3>4 DEF ConfigFollows
  <2>3. CASE <<m, "groups">> = l
    <3>1. c = "groups" /\ m = i
      BY <2>3
    <3> QED
      BY <1>5, <3>1 DEF ConfigFollows
  <2> QED
    BY <2>2, <2>3
<1> QED
  BY <1>4, <1>6, <1>11, <1>12, <1>13

LEMMA EditsKeeps ==
  ASSUME CacheInv, NEW h \in Handler, NEW i \in running, NEW c \in Channel, Edits(h, i, c)
  PROVE  CacheInv'
<1> USE DEF CacheInv
<1>1. /\ place[h] = "nowhere" /\ dbVersion[c] + 1 \in Version
      /\ dbVersion' = [dbVersion EXCEPT ![c] = @ + 1]
      /\ place' = [place EXCEPT ![h] = i] /\ program' = [program EXCEPT ![h] = Invalidate(c, i)]
      /\ UNCHANGED <<running, settingsAt, groupsAt, selectors, loadedAt, inbox, subscribed, unheard>>
  BY DEF Edits
<1>2. i \in Instance /\ h \in CacheProcess /\ program[h] = <<>> /\ "nowhere" \notin Instance
  BY <1>1, CacheSyncAssumption DEF CachesTyped, ProgramsShaped, CacheProcess
<1>3. /\ DOMAIN program' = CacheProcess /\ program'[h] = Invalidate(c, i)
      /\ \A q \in CacheProcess : q # h => program'[q] = program[q]
      /\ place'[h] = i /\ \A g \in Handler : g # h => place'[g] = place[g]
      /\ \A d \in Channel : d # c => dbVersion'[d] = dbVersion[d]
  BY <1>1, <1>2 DEF ProgramsShaped, CachesTyped
<1>4. CachesTyped'
  <2>1. dbVersion' \in [Channel -> Version]
    BY <1>1 DEF CachesTyped
  <2>2. place' \in [Handler -> Instance \cup {"nowhere"}]
    BY <1>1, <1>2 DEF CachesTyped
  <2> QED
    BY <1>1, <2>1, <2>2 DEF CachesTyped
<1>5. /\ program'[h] \in HandlerProgram
      /\ i = MasterInstance => program'[h] \notin {Plain3, Plain2}
      /\ c = "groups" => TellsGroups(program'[h])
      /\ c = "settings" => TellsSettings(program'[h])
  <2>1. /\ Tell4 \in HandlerProgram /\ Full7 \in HandlerProgram /\ Plain3 \in HandlerProgram
        /\ TellsGroups(Tell4) /\ TellsSettings(Full7) /\ TellsSettings(Plain3)
    BY DEF HandlerProgram, TellsGroups, TellsSettings
  <2>2. Tell4 \notin {Plain3, Plain2} /\ Full7 \notin {Plain3, Plain2}
    <3>1. Head(Tail(Full6)) = LoadG
      BY FullTable
    <3>2. Full7 # Plain3 /\ Full7 # Plain2
      BY <3>1, FullTable, SettingsTable, StepNames
    <3> QED
      BY <3>2, TellTable, SettingsTable, StepNames
  <2>3. CASE c = "groups"
    <3>1. program'[h] = Tell4
      BY <1>3, <2>3, BeginTable
    <3> QED
      BY <2>1, <2>2, <2>3, <3>1
  <2>4. CASE c = "settings"
    <3>1. program'[h] = IF i = MasterInstance THEN Full7 ELSE Plain3
      BY <1>3, <2>4, BeginTable
    <3> QED
      BY <2>1, <2>2, <2>4, <3>1
  <2> QED
    BY <2>3, <2>4 DEF Channel
<1>6. ProgramsShaped'
  <2>1. ASSUME NEW g \in Handler
        PROVE  /\ program'[g] \in HandlerProgram
               /\ place'[g] = "nowhere" => program'[g] = <<>>
               /\ place'[g] = MasterInstance => program'[g] \notin {Plain3, Plain2}
    <3>1. g \in CacheProcess
      BY DEF CacheProcess
    <3>2. CASE g = h
      BY <1>2, <1>3, <1>5, <3>2
    <3>3. CASE g # h
      BY <1>3, <3>1, <3>3 DEF ProgramsShaped
    <3> QED
      BY <3>2, <3>3
  <2>2. ASSUME NEW j \in Instance, NEW d \in Channel PROVE program'[<<j, d>>] = program[<<j, d>>]
    BY <1>3, ListenersAre
  <2>3. "groups" \in Channel /\ "settings" \in Channel
    BY DEF Channel
  <2> QED
    BY <1>3, <2>1, <2>2, <2>3 DEF ProgramsShaped
<1>7. \A q \in CacheProcess : /\ TellsSettings(program[q]) => TellsSettings(program'[q])
                              /\ TellsGroups(program[q]) => TellsGroups(program'[q])
                              /\ MeansToTell(program[q]) => MeansToTell(program'[q]) /\ At(q)' = At(q)
  <2>1. \A q \in CacheProcess : q # h => At(q)' = At(q)
    BY <1>3 DEF At
  <2> QED
    BY <1>2, <1>3, <2>1, NothingToTell
<1>8. ASSUME NEW j \in Instance
      PROVE  /\ SettingsDue(j) => SettingsDue(j)'
             /\ GroupsDue(j) => GroupsDue(j)'
             /\ c = "settings" => SettingsDue(j)'
             /\ c = "groups" => GroupsDue(j)'
  <2>1. SettingsDue(j) => SettingsDue(j)'
    BY <1>1, <1>7 DEF SettingsDue, CacheProcess
  <2>2. GroupsDue(j) => GroupsDue(j)'
    BY <1>1, <1>7 DEF GroupsDue
  <2>3. c = "settings" => SettingsDue(j)'
    BY <1>5 DEF SettingsDue
  <2>4. c = "groups" => GroupsDue(j)'
    BY <1>2, <1>5 DEF GroupsDue
  <2> QED
    BY <2>1, <2>2, <2>3, <2>4
<1>9. ASSUME NEW j \in Instance, NEW d \in Channel
      PROVE  \A n : Step(<<j, d>>, n)' <=> Step(<<j, d>>, n)
  <2>1. <<j, d>> \in CacheProcess /\ <<j, d>> # h
    BY ListenersAre
  <2> QED
    BY <1>3, <2>1 DEF Step
<1>10. "groups" \in Channel /\ "settings" \in Channel
  BY DEF Channel
<1>11. ASSUME NEW j \in Instance PROVE SettingsFollow(j)'
  <2>1. SettingsFollow(j)
    OBVIOUS
  <2>2. \A n : Step(<<j, "settings">>, n)' <=> Step(<<j, "settings">>, n)
    BY <1>9, <1>10
  <2>3. CASE c = "settings"
    BY <1>8, <2>3 DEF SettingsFollow
  <2>4. CASE c # "settings"
    <3>1. dbVersion'["settings"] = dbVersion["settings"]
      BY <1>3, <1>10, <2>4
    <3> QED
      BY <1>1, <1>8, <2>1, <2>2, <3>1 DEF SettingsFollow
  <2> QED
    BY <2>3, <2>4
<1>12. ASSUME NEW j \in Instance PROVE GroupsFollow(j)'
  <2>1. GroupsFollow(j)
    OBVIOUS
  <2>2. \A n : Step(<<j, "groups">>, n)' <=> Step(<<j, "groups">>, n)
    BY <1>9, <1>10
  <2>3. CASE c = "groups"
    BY <1>8, <2>3 DEF GroupsFollow
  <2>4. CASE c # "groups"
    <3>1. dbVersion'["groups"] = dbVersion["groups"]
      BY <1>3, <1>10, <2>4
    <3>2. GroupsDue(j) => GroupsDue(j)'
      BY <1>8
    <3> QED
      BY <1>1, <2>1, <2>2, <3>1, <3>2 DEF GroupsFollow
  <2> QED
    BY <2>3, <2>4
<1>13. ConfigFollows'
  <2>1. MasterInstance \in Instance /\ ConfigFollows
    BY CacheSyncAssumption
  <2>2. \A n : Step(<<MasterInstance, "groups">>, n)' <=> Step(<<MasterInstance, "groups">>, n)
    BY <1>9, <1>10, <2>1
  <2>3. GroupsDue(MasterInstance) => GroupsDue(MasterInstance)'
    BY <1>8, <2>1
  <2>4. ConfigDue => ConfigDue'
    <3>1. ASSUME NEW q \in CacheProcess, At(q) = MasterInstance, MeansToTell(program[q])
          PROVE  At(q)' = MasterInstance /\ MeansToTell(program'[q])
      BY <1>7, <3>1
    <3> QED
      BY <2>3, <3>1 DEF ConfigDue
  <2> QED
    BY <1>1, <2>1, <2>2, <2>4 DEF ConfigFollows
<1> QED
  BY <1>4, <1>6, <1>11, <1>12, <1>13

LEMMA CacheInitial == CacheInit => CacheInv
<1> SUFFICES ASSUME CacheInit PROVE CacheInv
  OBVIOUS
<1> USE DEF CacheInit
<1>1. Fresh \in GroupCache /\ 0 \in Version /\ 0 \in 0 .. Buffer
  BY CacheSyncAssumption DEF Fresh, GroupCache, Version
<1>2. CachesTyped
  BY <1>1 DEF CachesTyped
<1>3. \A p \in CacheProcess : program[p] = <<>>
  OBVIOUS
<1>4. ProgramsShaped
  <2>1. <<>> \in HandlerProgram /\ <<>> \in RefreshProgram /\ <<>> \in HookProgram /\ <<>> \in OnlyProgram
        /\ <<>> \notin {Plain3, Plain2}
    BY SettingsTable DEF HandlerProgram, RefreshProgram, HookProgram, OnlyProgram
  <2>2. \A h \in Handler : h \in CacheProcess
    BY DEF CacheProcess
  <2>3. \A i \in Instance : <<i, "groups">> \in CacheProcess /\ <<i, "settings">> \in CacheProcess
    BY ListenersAre DEF Channel
  <2> QED
    BY <1>3, <2>1, <2>2, <2>3 DEF ProgramsShaped
<1>5. ASSUME NEW i \in Instance
      PROVE  /\ settingsAt[i] = dbVersion["settings"] /\ groupsAt[i].groups = dbVersion["groups"]
             /\ selectors[i].groups = dbVersion["groups"] /\ groupsAt[i].settings = settingsAt[i]
  BY DEF Fresh, Channel
<1>6. ASSUME NEW i \in Instance, NEW c \in Channel PROVE \A n : ~Step(<<i, c>>, n)
  BY <1>3, ListenersAre DEF Step
<1>7. ASSUME NEW i \in Instance PROVE SettingsFollow(i) /\ GroupsFollow(i)
  <2>1. \A n : ~Step(<<i, "groups">>, n) /\ ~Step(<<i, "settings">>, n)
    BY <1>6 DEF Channel
  <2> QED
    BY <1>5, <2>1 DEF SettingsFollow, GroupsFollow
<1>8. ConfigFollows
  <2>1. \A n : ~Step(<<MasterInstance, "groups">>, n)
    BY <1>6, CacheSyncAssumption DEF Channel
  <2> QED
    BY <1>5, <2>1, CacheSyncAssumption DEF ConfigFollows
<1> QED
  BY <1>2, <1>4, <1>7, <1>8 DEF CacheInv

LEMMA CacheStep == CacheInv /\ [CacheNext]_cacheVars => CacheInv'
<1> SUFFICES ASSUME CacheInv, [CacheNext]_cacheVars PROVE CacheInv'
  OBVIOUS
<1>1. ASSUME NEW l \in running \X Channel, Subscribes(l) \/ Disconnects(l) \/ Hears(l) PROVE CacheInv'
  <2>1. PICK i \in running, c \in Channel : l = <<i, c>>
    OBVIOUS
  <2>2. i \in Instance /\ l \in Listener
    BY <2>1, CacheSyncAssumption DEF CacheInv, CachesTyped, Listener
  <2> QED
    BY <1>1, <2>1, <2>2, SubscriptionsKeep, HearsKeeps
<1>2. CASE UNCHANGED cacheVars
  <2>1. CachesTyped' /\ ProgramsShaped'
    BY <1>2 DEF cacheVars, CacheInv, CachesTyped, ProgramsShaped
  <2>2. ASSUME NEW i \in Instance PROVE SettingsFollow(i)'
    BY <1>2 DEF cacheVars, CacheInv, SettingsFollow, SettingsDue, Step
  <2>3. ASSUME NEW i \in Instance PROVE GroupsFollow(i)'
    BY <1>2 DEF cacheVars, CacheInv, GroupsFollow, GroupsDue, Step
  <2>4. ConfigFollows'
    BY <1>2 DEF cacheVars, CacheInv, ConfigFollows, ConfigDue, GroupsDue, At, Step
  <2> QED
    BY <2>1, <2>2, <2>3, <2>4 DEF CacheInv
<1> QED
  BY <1>1, <1>2, EditsKeeps, LoadsKeeps, LoadFailsKeeps, StoresSettingsKeeps, StoresGroupsKeeps,
     RebuildsKeeps, PublishesKeeps DEF CacheNext

\* Once all is handled nothing is due that is not done.
LEMMA CacheGoal == CacheInv => CachesSettle
<1> SUFFICES ASSUME CacheInv, Settled PROVE CachesSettle
  BY DEF CachesSettle, CachesFollow, MasterConfigSettles
<1>1. \A i \in running : i \in Instance
  BY CacheSyncAssumption DEF CacheInv, CachesTyped
<1>2. ASSUME NEW i \in Instance, NEW c \in Channel
      PROVE  inbox[<<i, c>>] = 0 /\ \A n : ~Step(<<i, c>>, n)
  BY ListenersAre DEF Settled, Step
<1>3. \A p \in CacheProcess :
        ~TellsSettings(program[p]) /\ ~TellsGroups(program[p]) /\ ~MeansToTell(program[p])
  BY NothingToTell DEF Settled
<1>4. ASSUME NEW i \in Instance, ~unheard[<<i, "settings">>]
      PROVE  settingsAt[i] = dbVersion["settings"]
  <2>1. inbox[<<i, "settings">>] = 0 /\ \A n : ~Step(<<i, "settings">>, n)
    BY <1>2 DEF Channel
  <2>2. ~SettingsDue(i)
    BY <1>3, <1>4, <2>1 DEF SettingsDue, CacheProcess
  <2> QED
    BY <2>1, <2>2 DEF CacheInv, SettingsFollow
<1>5. ASSUME NEW i \in Instance, ~unheard[<<i, "groups">>]
      PROVE  /\ groupsAt[i].groups = dbVersion["groups"] /\ selectors[i].groups = dbVersion["groups"]
             /\ ~GroupsDue(i)
  <2>1. inbox[<<i, "groups">>] = 0 /\ \A n : ~Step(<<i, "groups">>, n)
    BY <1>2 DEF Channel
  <2>2. ~GroupsDue(i)
    BY <1>3, <1>5, <2>1 DEF GroupsDue
  <2>3. GroupsFollow(i)
    BY DEF CacheInv
  <2> QED
    BY <2>1, <2>2, <2>3 DEF GroupsFollow
<1>6. CachesFollow
  BY <1>1, <1>4, <1>5 DEF CachesFollow
<1>7. MasterConfigSettles
  <2> SUFFICES ASSUME \A c \in Channel : ~unheard[<<MasterInstance, c>>]
               PROVE  groupsAt[MasterInstance].settings = dbVersion["settings"]
    BY DEF MasterConfigSettles
  <2> DEFINE m == MasterInstance
  <2>1. m \in Instance /\ ~unheard[<<m, "groups">>] /\ ~unheard[<<m, "settings">>]
    BY CacheSyncAssumption DEF Channel
  <2>2. settingsAt[m] = dbVersion["settings"] /\ ~GroupsDue(m)
    BY <1>4, <1>5, <2>1
  <2>3. ~ConfigDue
    BY <1>3, <2>2 DEF ConfigDue
  <2>4. \A n : ~Step(<<m, "groups">>, n)
    BY <1>2, <2>1 DEF Channel
  <2> QED
    BY <2>2, <2>3, <2>4 DEF CacheInv, ConfigFollows
<1> QED
  BY <1>6, <1>7 DEF CachesSettle

\* For any instances and faults, however reloads overlap and messages are lost: once nothing is
\* under way, an instance that was subscribed when the last message came serves the versions
\* of the database, and the master's groups hold its settings (Invalidate, reload,
\* listenForUpdates, RebuildSelectors).
THEOREM CachesSettleCorrect == Spec => []CachesSettle
<1>1. ServicesInit => CacheInv
  BY CacheInitial DEF ServicesInit
<1>2. CacheInv /\ [ServicesNext]_vars => CacheInv'
  BY CacheStep, CachePart
<1>3. CacheInv => CachesSettle
  BY CacheGoal
<1> QED
  BY <1>1, <1>2, <1>3, PTL DEF Spec

--------------------------------------------------------------------------
(* The types of these parts *)

\* Keys in use were made, and a child that has a master has one and follows it.
KeysMade ==
    /\ \A j \in joins : j.key \in Key
    /\ \A p \in Parent : \A r \in peerRow[p] : r.key \in Key
    /\ \A c \in Child : /\ master[c] = {} \/ \E m : master[c] = {m}
                        /\ master[c] # {} => c \in follower

LEMMA KeysMadeStep == JoinInv /\ KeysMade /\ [JoinNext]_joinVars => KeysMade'
<1>. SUFFICES ASSUME JoinInv, KeysMade, [JoinNext]_joinVars PROVE KeysMade'
  OBVIOUS
<1>. USE DEF KeysMade, Key
<1>0. /\ keyCount \in Nat /\ joins \subseteq JoinRequest /\ peerRow \in [Parent -> SUBSET ChildRow]
      /\ master \in [Child -> SUBSET MasterMark]
  BY DEF JoinInv, JoinShape
<1>1. ASSUME NEW t \in Token, TokenExpires(t) PROVE KeysMade'
  BY <1>1 DEF TokenExpires
<1>2. ASSUME NEW t \in Token, NEW c \in Child, NEW p \in Parent, JoinSent(c, p, t) PROVE KeysMade'
  <2>1. UNCHANGED <<peerRow, master, follower, keyCount>>
    BY <1>2 DEF JoinSent
  <2>2. \A j \in joins' : j.key = 0 \/ \E k \in joins : j.key = k.key
    <3>1. ASSUME NEW j \in joins'
          PROVE  j \in joins \/ j.key = 0 \/ \E k \in joins : j = [k EXCEPT !.alone = FALSE]
      BY <1>2, <3>1 DEF JoinSent
    <3>2. \A k \in joins : [k EXCEPT !.alone = FALSE].key = k.key
      BY <1>0 DEF JoinRequest
    <3>. QED  BY <3>1, <3>2
  <2>. QED  BY <1>0, <2>1, <2>2
<1>3. ASSUME NEW j \in joins, TokenConsumed(j) PROVE KeysMade'
  <2>1. UNCHANGED <<peerRow, master, follower>> /\ keyCount' \in {keyCount, keyCount + 1}
    BY <1>3 DEF TokenConsumed
  <2>2. \A k \in joins' : k \in joins \/ k.key = keyCount'
    <3>1. CASE joins' = joins \ {j}
      BY <3>1
    <3>2. CASE ~(joins' = joins \ {j})
      <4>1. /\ joins' = (joins \ {j}) \cup {[j EXCEPT !.at = "admitted", !.key = keyCount + 1]}
            /\ keyCount' = keyCount + 1
        BY <1>3, <3>2 DEF TokenConsumed
      <4>2. [j EXCEPT !.at = "admitted", !.key = keyCount + 1].key = keyCount + 1
        BY <1>0 DEF JoinRequest
      <4>. QED  BY <4>1, <4>2
    <3>. QED  BY <3>1, <3>2
  <2>3. \A n \in 0 .. keyCount : n \in 0 .. keyCount'
    BY <1>0, <2>1
  <2>4. keyCount' \in 0 .. keyCount'
    BY <1>0, <2>1
  <2>. QED  BY <2>1, <2>2, <2>3, <2>4
<1>4. ASSUME NEW j \in joins, PeerLookedUp(j) PROVE KeysMade'
  <2>1. UNCHANGED <<peerRow, master, follower, keyCount>>
    BY <1>4 DEF PeerLookedUp
  <2>2. \A k \in joins' : k \in joins \/ k.key = j.key
    BY <1>0, <1>4 DEF PeerLookedUp, JoinMoves, JoinRequest
  <2>. QED  BY <2>1, <2>2
<1>5. ASSUME NEW j \in joins, PeerStored(j) PROVE KeysMade'
  <2>1. UNCHANGED <<master, follower, keyCount>>
    BY <1>5 DEF PeerStored
  <2>2. \A k \in joins' : k \in joins \/ k.key = j.key
    BY <1>0, <1>5 DEF PeerStored, JoinMoves, JoinRequest
  <2>3. \A p \in Parent : \A r \in peerRow'[p] : r \in peerRow[p] \/ r.key = j.key
    BY <1>0, <1>5 DEF PeerStored, NewKey, JoinRequest, ChildRow
  <2>. QED  BY <2>1, <2>2, <2>3
<1>6. ASSUME NEW j \in joins, JoinFails(j) PROVE KeysMade'
  BY <1>6 DEF JoinFails
<1>7. ASSUME NEW j \in joins, JoinApplied(j) PROVE KeysMade'
  <2>1. UNCHANGED <<peerRow, keyCount>> /\ joins' \subseteq joins
    BY <1>7 DEF JoinApplied
  <2>2. \A c \in Child : /\ master'[c] = IF c = j.child THEN Masters(j) ELSE master[c]
                         /\ c \in follower' <=> c \in follower \/ c = j.child
    BY <1>0, <1>7 DEF JoinApplied, JoinRequest
  <2>3. \E m : Masters(j) = {m}
    BY DEF Masters
  <2>. QED  BY <2>1, <2>2, <2>3
<1>8. CASE UNCHANGED joinVars
  BY <1>8 DEF joinVars
<1>. QED  BY <1>1, <1>2, <1>3, <1>4, <1>5, <1>6, <1>7, <1>8 DEF JoinNext

LEMMA JoinTypes == JoinInv /\ KeysMade => JoinTypeOK
<1>. SUFFICES ASSUME JoinInv, KeysMade PROVE JoinTypeOK
  OBVIOUS
<1>1. \A c \in Child : Cardinality(master[c]) <= 1
  <2>1. Cardinality({}) <= 1
    BY FS_EmptySet
  <2>2. ASSUME NEW m PROVE Cardinality({m}) <= 1
    <3>1. Cardinality({m}) = 1
      BY FS_Singleton
    <3>. QED  BY <3>1
  <2>. QED  BY <2>1, <2>2 DEF KeysMade
<1>2. \A j \in joins : j.at \in {"sent", "admitted", "found", "fresh", "answered"}
  BY DEF JoinInv, JoinShape, JoinRequest
<1>3. \A p \in Parent : \A r \in peerRow[p] : r.child \in Child
  BY DEF JoinInv, JoinShape, ChildRow
<1>. QED  BY <1>1, <1>2, <1>3 DEF JoinInv, JoinShape, KeysMade, JoinTypeOK

LEMMA KeysMadeInitial == JoinInit => KeysMade
  BY DEF JoinInit, KeysMade

\* A key that is remembered as cooled was seen.
FallbackSeen ==
    /\ cooled \subseteq LimitedKey
    /\ \A a \in Asker : ask[a].fallback \in ask[a].seen \cup {NoKey}

LEMMA FallbackStep == RateInv /\ FallbackSeen /\ [RateNext]_rateVars => FallbackSeen'
<1>. SUFFICES ASSUME RateInv, FallbackSeen, [RateNext]_rateVars PROVE FallbackSeen'
  OBVIOUS
<1>0. ask \in [Asker -> Request]
  BY DEF RateInv, RateShape
<1>1. ASSUME NEW a \in Asker, NEW r, AskGoes(a, r), r.fallback \in r.seen \cup {NoKey}, cooled' = cooled
      PROVE  FallbackSeen'
  BY <1>0, <1>1 DEF AskGoes, FallbackSeen
<1>2. Idle.fallback \in Idle.seen \cup {NoKey}
  BY DEF Idle
<1>3. ASSUME NEW a \in Asker PROVE ask[a] \in Request /\ ask[a].fallback \in ask[a].seen \cup {NoKey}
  BY <1>0 DEF FallbackSeen
<1>4. ASSUME NEW a \in Asker, Asks(a) PROVE FallbackSeen'
  <2>. DEFINE r == [Idle EXCEPT !.at = "rotate"]
  <2>1. r.fallback \in r.seen \cup {NoKey}
    BY DEF Idle
  <2>2. AskGoes(a, r) /\ cooled' = cooled
    BY <1>4 DEF Asks
  <2>. HIDE DEF r
  <2>. QED  BY <1>1, <2>1, <2>2
<1>5. ASSUME NEW a \in Asker, Rotates(a) PROVE FallbackSeen'
  <2>1. cooled' = cooled
    BY <1>5 DEF Rotates
  <2>2. ASSUME NEW k \in LimitedKey, NEW r \in Request, AskGoes(a, r),
               r.seen = ask[a].seen \cup {k}, r.fallback \in {ask[a].fallback, k}
        PROVE  FallbackSeen'
    BY <1>1, <1>3, <2>1, <2>2
  <2>. DEFINE seen(k) == [ask[a] EXCEPT !.seen = ask[a].seen \cup {k}]
              cold(k) == [seen(k) EXCEPT !.fallback = IF seen(k).fallback = NoKey THEN k
                                                     ELSE seen(k).fallback]
              spent(k) == [seen(k) EXCEPT !.at = "day", !.key = k]
              blind(k) == [seen(k) EXCEPT !.at = "minute+", !.key = k]
  <2>3. PICK k \in LimitedKey : \/ AskGoes(a, cold(k))
                                \/ AskGoes(a, seen(k))
                                \/ AskGoes(a, spent(k))
                                \/ AskGoes(a, blind(k))
    BY <1>5 DEF Rotates
  <2>4. /\ seen(k) \in Request /\ seen(k).seen = ask[a].seen \cup {k}
        /\ seen(k).fallback = ask[a].fallback
    BY <1>3 DEF Request
  <2>. HIDE DEF seen
  <2>5. CASE AskGoes(a, cold(k))
    <3>. DEFINE f == IF seen(k).fallback = NoKey THEN k ELSE seen(k).fallback
    <3>1. f \in {ask[a].fallback, k} /\ f \in LimitedKey \cup {NoKey}
      BY <2>4 DEF Request
    <3>2. cold(k) = [seen(k) EXCEPT !.fallback = f]
      OBVIOUS
    <3>. HIDE DEF f, cold
    <3>3. cold(k) \in Request /\ cold(k).seen = ask[a].seen \cup {k} /\ cold(k).fallback = f
      BY <2>4, <3>1, <3>2 DEF Request
    <3>. QED  BY <2>2, <2>5, <3>1, <3>3
  <2>6. CASE AskGoes(a, seen(k))
    BY <2>2, <2>4, <2>6
  <2>7. spent(k) \in Request /\ spent(k).seen = ask[a].seen \cup {k} /\ spent(k).fallback = ask[a].fallback
    BY <2>4 DEF Request
  <2>8. blind(k) \in Request /\ blind(k).seen = ask[a].seen \cup {k} /\ blind(k).fallback = ask[a].fallback
    BY <2>4 DEF Request
  <2>. HIDE DEF cold, spent, blind
  <2>9. CASE AskGoes(a, spent(k))
    BY <2>2, <2>7, <2>9
  <2>10. CASE AskGoes(a, blind(k))
    BY <2>2, <2>8, <2>10
  <2>. QED  BY <2>3, <2>5, <2>6, <2>9, <2>10
<1>6. ASSUME NEW a \in Asker, ReadsDay(a) PROVE FallbackSeen'
  <2>1. cooled' = cooled
    BY <1>6 DEF ReadsDay
  <2>2. PICK r \in Request : AskGoes(a, r) /\ r.seen = ask[a].seen /\ r.fallback = ask[a].fallback
    BY <1>3, <1>6 DEF ReadsDay, Request
  <2>. QED  BY <1>1, <1>3, <2>1, <2>2
<1>7. ASSUME NEW a \in Asker, Exhausted(a) PROVE FallbackSeen'
  <2>1. cooled' = cooled
    BY <1>7 DEF Exhausted
  <2>2. \/ AskGoes(a, Idle)
        \/ AskGoes(a, [ask[a] EXCEPT !.at = "minute+", !.key = ask[a].fallback])
    BY <1>7 DEF Exhausted
  <2>3. ASSUME AskGoes(a, [ask[a] EXCEPT !.at = "minute+", !.key = ask[a].fallback]) PROVE FallbackSeen'
    <3>. DEFINE r == [ask[a] EXCEPT !.at = "minute+", !.key = ask[a].fallback]
    <3>1. r.seen = ask[a].seen /\ r.fallback = ask[a].fallback
      BY <1>3 DEF Request
    <3>2. AskGoes(a, r)
      BY <2>3
    <3>. HIDE DEF r
    <3>. QED  BY <1>1, <1>3, <2>1, <3>1, <3>2
  <2>. QED  BY <1>1, <1>2, <2>1, <2>2, <2>3
<1>8. ASSUME NEW a \in Asker, RecordsMinute(a) \/ RecordsDay(a) PROVE FallbackSeen'
  <2>1. cooled' = cooled
    BY <1>8 DEF RecordsMinute, RecordsDay
  <2>2. AskGoes(a, Idle) \/ AskGoes(a, [ask[a] EXCEPT !.at = "day+"])
    BY <1>8 DEF RecordsMinute, RecordsDay
  <2>3. ASSUME AskGoes(a, [ask[a] EXCEPT !.at = "day+"]) PROVE FallbackSeen'
    <3>1. PICK r : AskGoes(a, r) /\ r.seen = ask[a].seen /\ r.fallback = ask[a].fallback
      BY <1>3, <2>3 DEF Request
    <3>. QED  BY <1>1, <1>3, <2>1, <3>1
  <2>. QED  BY <1>1, <1>2, <2>1, <2>2, <2>3
<1>9. ASSUME MinutePasses \/ UNCHANGED rateVars PROVE FallbackSeen'
  BY <1>9 DEF MinutePasses, rateVars, FallbackSeen
<1>10. ASSUME NEW k \in LimitedKey, CoolDownChanges(k) PROVE FallbackSeen'
  BY <1>10 DEF CoolDownChanges, FallbackSeen
<1>. QED  BY <1>4, <1>5, <1>6, <1>7, <1>8, <1>9, <1>10 DEF RateNext

LEMMA FallbackInitial == RateInit => FallbackSeen
  BY DEF RateInit, FallbackSeen, Idle

LEMMA RateTypes == RateInv /\ FallbackSeen => RateTypeOK
  BY DEF RateInv, RateShape, Request, FallbackSeen, RateTypeOK

LEMMA ServiceTypes ==
  /\ LogInv => LogTypeOK
  /\ TaskInv => TaskTypeOK
  /\ CronInv => CronTypeOK
  BY DEF LogInv, TaskInv, CronInv

LEMMA CacheTypes == CacheInv => CacheTypeOK
<1>. SUFFICES ASSUME CacheInv PROVE CacheTypeOK
  OBVIOUS
<1>1. \A s \in CacheProgram : Len(s) <= 7
  <2>1. Len(<<>>) = 0
    OBVIOUS
  <2>2. /\ Len(Tell4) = 4
        /\ Len(Tell3) = 3
        /\ Len(Tell2) = 2
        /\ Len(Tell1) = 1
    BY DEF Tell4, Tell3, Tell2, Tell1
  <2>3. /\ Len(Full7) = 7
        /\ Len(Full6) = 6
        /\ Len(Full5) = 5
        /\ Len(Full4) = 4
        /\ Len(Full3) = 3
        /\ Len(Full2) = 2
        /\ Len(Full1) = 1
    BY DEF Full7, Full6, Full5, Full4, Full3, Full2, Full1
  <2>4. /\ Len(Plain3) = 3
        /\ Len(Plain2) = 2
        /\ Len(Refresh3) = 3
        /\ Len(Refresh2) = 2
        /\ Len(Refresh1) = 1
    BY DEF Plain3, Plain2, Refresh3, Refresh2, Refresh1
  <2>5. /\ Len(Hook6) = 6
        /\ Len(Hook5) = 5
        /\ Len(Only2) = 2
        /\ Len(Only1) = 1
    BY DEF Hook6, Hook5, Only2, Only1
  <2>6. \A n \in 0 .. 7 : n <= 7
    OBVIOUS
  <2>7. \A s \in HandlerProgram : Len(s) \in 0 .. 7
    BY <2>1, <2>2, <2>3, <2>4 DEF HandlerProgram
  <2>8. \A s \in RefreshProgram : Len(s) \in 0 .. 7
    BY <2>1, <2>4 DEF RefreshProgram
  <2>9. \A s \in HookProgram : Len(s) \in 0 .. 7
    BY <2>1, <2>2, <2>5 DEF HookProgram
  <2>10. \A s \in OnlyProgram : Len(s) \in 0 .. 7
    BY <2>1, <2>5 DEF OnlyProgram
  <2>. QED  BY <2>6, <2>7, <2>8, <2>9, <2>10 DEF CacheProgram
<1>2. \A p \in CacheProcess : program[p] \in CacheProgram
  <2>1. \A h \in Handler : program[h] \in CacheProgram
    BY DEF CacheInv, ProgramsShaped, CacheProgram
  <2>2. \A i \in Instance : /\ program[<<i, "groups">>] \in CacheProgram
                             /\ program[<<i, "settings">>] \in CacheProgram
    BY DEF CacheInv, ProgramsShaped, CacheProgram
  <2>3. \A l \in Listener : \E i \in Instance : l = <<i, "groups">> \/ l = <<i, "settings">>
    BY DEF Listener, Channel
  <2>. QED  BY <2>1, <2>2, <2>3 DEF CacheProcess
<1>. QED  BY <1>1, <1>2 DEF CacheInv, CachesTyped, CacheTypeOK, Listener
=============================================================================
