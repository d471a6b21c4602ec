------------------------------ MODULE MeshJoin ------------------------------
(* How a node joins a parent with an invitation (services/sync_invite.go,
   handler/sync_handler.go). The parent consumes the token, makes a key for the child,
   stores the child as a peer under its fingerprint and answers; the child makes the
   parent its master in one transaction. Joins of one child may overlap, answers may be
   lost, and the parent's statements are not one transaction. *)
EXTENDS Naturals, FiniteSets

CONSTANTS Child, Parent, Token,
          MaxJoins     \* bound: requests a child sends

VARIABLES token,     \* per token: "free", "used" or "expired"
          admitted,  \* per token: requests it admitted
          joins,     \* requests under way: child, parent, token, where, key, and whether
                     \* no other request of the child was under way with it
          peerRow,   \* per parent: rows of children, [child, key]
          master,    \* per child: its peers marked is_master, [parent, key]
          follower,  \* children that mirror someone
          disturbed, \* children whose joins overlapped or lost an answer, and no join since
          keyCount, sent

joinVars == <<token, admitted, joins, peerRow, master, follower, disturbed, keyCount, sent>>

Key == 0 .. keyCount   \* those made so far: keys are random, hence never repeated

JoinTypeOK ==
    /\ token \in [Token -> {"free", "used", "expired"}]
    /\ admitted \in [Token -> Nat]
    /\ \A j \in joins : j.at \in {"sent", "admitted", "found", "fresh", "answered"} /\ j.key \in Key
    /\ \A p \in Parent : \A r \in peerRow[p] : r.child \in Child /\ r.key \in Key
    /\ \A c \in Child : Cardinality(master[c]) <= 1 /\ (master[c] # {} => c \in follower)

JoinInit ==
    /\ token = [t \in Token |-> "free"]
    /\ admitted = [t \in Token |-> 0]
    /\ joins = {}
    /\ peerRow = [p \in Parent |-> {}]
    /\ master = [c \in Child |-> {}]
    /\ follower = {}
    /\ disturbed = {}
    /\ keyCount = 0 /\ sent = [c \in Child |-> 0]

JoinMoves(j, to) == joins' = (joins \ {j}) \cup {[j EXCEPT !.at = to]}

TokenExpires(t) ==
    /\ token[t] = "free"
    /\ token' = [token EXCEPT ![t] = "expired"]
    /\ UNCHANGED <<admitted, joins, peerRow, master, follower, disturbed, keyCount, sent>>

\* JoinParent sends a request; a user who was refused or got no answer tries again.
JoinSent(c, p, t) ==
    /\ sent[c] < MaxJoins
    /\ sent' = [sent EXCEPT ![c] = @ + 1]
    /\ LET others == {j \in joins : j.child = c} IN
         /\ joins' = (joins \ others) \cup {[j EXCEPT !.alone = FALSE] : j \in others}
                       \cup {[child |-> c, parent |-> p, tok |-> t, at |-> "sent", key |-> 0,
                              alone |-> others = {}, nr |-> sent[c]]}
         /\ disturbed' = IF others = {} THEN disturbed ELSE disturbed \cup {c}
    /\ UNCHANGED <<token, admitted, peerRow, master, follower, keyCount>>

\* Mutant: a token is checked, not taken.
Consumable_Checked(t) == token[t] # "expired"
Consumable(t) == token[t] = "free"

\* ConsumeInviteToken is one conditional UPDATE; then the key is made and encrypted.
TokenConsumed(j) ==
    /\ j.at = "sent"
    /\ IF Consumable(j.tok)
       THEN /\ token' = [token EXCEPT ![j.tok] = "used"]
            /\ admitted' = [admitted EXCEPT ![j.tok] = @ + 1]
            /\ keyCount' = keyCount + 1
            /\ joins' = (joins \ {j}) \cup {[j EXCEPT !.at = "admitted", !.key = keyCount + 1]}
       ELSE joins' = joins \ {j} /\ UNCHANGED <<token, admitted, keyCount>>
    /\ UNCHANGED <<peerRow, master, follower, disturbed, sent>>

\* The peer is looked up by its fingerprint, then created or updated by its id.
PeerLookedUp(j) ==
    /\ j.at = "admitted"
    /\ JoinMoves(j, IF \E r \in peerRow[j.parent] : r.child = j.child THEN "found" ELSE "fresh")
    /\ UNCHANGED <<token, admitted, peerRow, master, follower, disturbed, keyCount, sent>>

\* Mutant: a known child keeps the key that it was given first.
NewKey_Kept(r, j) == r
NewKey(r, j) == [r EXCEPT !.key = j.key]

PeerStored(j) ==
    /\ \/ /\ j.at = "fresh"
          /\ peerRow' = [peerRow EXCEPT ![j.parent] = @ \cup {[child |-> j.child, key |-> j.key]}]
       \/ /\ j.at = "found"
          /\ \E r \in peerRow[j.parent] :
               /\ r.child = j.child
               /\ peerRow' = [peerRow EXCEPT ![j.parent] = (@ \ {r}) \cup {NewKey(r, j)}]
    /\ JoinMoves(j, "answered")
    /\ UNCHANGED <<token, admitted, master, follower, disturbed, keyCount, sent>>

\* The request, a statement or the answer fails: the child learns nothing.
JoinFails(j) ==
    /\ joins' = joins \ {j}
    /\ disturbed' = disturbed \cup {j.child}
    /\ UNCHANGED <<token, admitted, peerRow, master, follower, keyCount, sent>>

\* Mutant: the peers that were masters before keep their mark.
Masters_Kept(j) == master[j.child] \cup {[parent |-> j.parent, key |-> j.key]}
Masters(j) == {[parent |-> j.parent, key |-> j.key]}

\* The child's transaction: the old master is dismissed, the parent stored, the role set.
JoinApplied(j) ==
    /\ j.at = "answered"
    /\ joins' = joins \ {j}
    /\ master' = [master EXCEPT ![j.child] = Masters(j)]
    /\ follower' = follower \cup {j.child}
    /\ disturbed' = IF j.alone THEN disturbed \ {j.child} ELSE disturbed
    /\ UNCHANGED <<token, admitted, peerRow, keyCount, sent>>

JoinNext ==
    \/ \E t \in Token : TokenExpires(t) \/ \E c \in Child, p \in Parent : JoinSent(c, p, t)
    \/ \E j \in joins : TokenConsumed(j) \/ PeerLookedUp(j) \/ PeerStored(j)
                        \/ JoinFails(j) \/ JoinApplied(j)

--------------------------------------------------------------------------
(* Properties *)

\* An invitation admits one child, once, however the requests that carry it interleave
\* (ConsumeInviteToken).
TokenAdmitsOne == \A t \in Token : admitted[t] <= 1

\* A join that nothing disturbs repairs what lost answers and overlapping joins left: the
\* child's key for its master is one that the master accepts from it (JoinEndpoint).
UndisturbedJoinAgrees ==
    \A c \in Child : \A m \in master[c] :
        (\A j \in joins : j.child # c) /\ c \notin disturbed =>
            [child |-> c, key |-> m.key] \in peerRow[m.parent]

JoinsSound == TokenAdmitsOne /\ UndisturbedJoinAgrees
=============================================================================
