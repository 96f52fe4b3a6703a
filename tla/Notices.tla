------------------------------ MODULE Notices --------------------------------
(* The notices of the users and the devices they are pushed to
   (notification/repo.py, usecase.py, router.py).  A request stores a notice, then
   prunes the box, and is committed later; others do the same meanwhile, and none
   sees what the others have not committed.                                       *)
EXTENDS Naturals, FiniteSets

CONSTANTS
    Users, Devices,
    Requests,    \* requests and workers that store a notice or a subscription
    MaxStored,         \* MAX_STORED_NOTIFICATIONS
    MaxNotices, None

VARIABLES
    box,         \* [Users -> SUBSET ids]: committed; a larger id is newer
    read,        \* ids that were read
    last,        \* the newest id
    subs,        \* committed PushSubscription nodes: [node, device, owner]
    tx,          \* [Requests -> None or its transaction]
    saved        \* ids committed, whose push is due

noticeVars == <<box, read, last, subs, tx, saved>>

MailAssumption == MaxStored \in Nat /\ IsFiniteSet(Requests) /\ Requests # {} /\ None \notin Nat

NInit ==
    /\ box = [u \in Users |-> {}] /\ read = {} /\ last = 0 /\ subs = {}
    /\ tx = [r \in Requests |-> None] /\ saved = {}

Newer(n, ids) == {m \in ids : m > n}
At(r, step) == tx[r] # None /\ tx[r].at = step
Step(r, t) == tx' = [tx EXCEPT ![r] = t]

\* create_notification, its first query.
Create(r) ==
    /\ tx[r] = None /\ last < MaxNotices /\ last' = last + 1
    /\ \E u \in Users : Step(r, [at |-> "prune", user |-> u, id |-> last + 1, gone |-> {}, sub |-> None])
    /\ UNCHANGED <<box, read, subs, saved>>
\* _prune_notifications: all but the newest it sees.
\* (Faulty variant: sorted the wrong way, the oldest are kept.)
SurplusNew(ids) == {n \in ids : Cardinality(ids \ Newer(n, ids)) > MaxStored}
Surplus(ids) == {n \in ids : Cardinality(Newer(n, ids)) >= MaxStored}
Prune(r) ==
    /\ At(r, "prune")
    /\ Step(r, [tx[r] EXCEPT !.at = "end", !.gone = Surplus(box[tx[r].user] \cup {tx[r].id})])
    /\ UNCHANGED <<box, read, last, subs, saved>>

\* A node that a transaction has matched stays locked until its end.
Locked(s) == \E r \in Requests : /\ tx[r] # None /\ tx[r].sub # None
                                 /\ s.device = tx[r].sub.device /\ s.node \in tx[r].sub.nodes
\* save_push_subscription: MERGE by endpoint, which no constraint guards, moves every
\* node of the device it sees to the user.
Subscribe(r) ==
    /\ tx[r] = None
    /\ \E u \in Users, d \in Devices :
          LET known == {s \in subs : s.device = d} IN
          /\ ~\E s \in known : Locked(s)
          /\ Step(r, [at |-> "end", user |-> u, id |-> None, gone |-> {},
                      sub |-> [device |-> d, nodes |-> IF known = {} THEN {r} ELSE {s.node : s \in known}]])
    /\ UNCHANGED <<box, read, last, subs, saved>>

CommitTx(r) ==
    /\ At(r, "end")
    /\ LET t == tx[r]  u == t.user IN
        /\ box' = [box EXCEPT ![u] = (@ \cup IF t.id = None THEN {} ELSE {t.id}) \ t.gone]
        /\ saved' = IF t.id = None THEN saved ELSE saved \cup {t.id}
        /\ subs' = IF t.sub = None THEN subs
                   ELSE {s \in subs : s.device # t.sub.device \/ s.node \notin t.sub.nodes}
                        \cup {[node |-> n, device |-> t.sub.device, owner |-> u] : n \in t.sub.nodes}
    /\ Step(r, None) /\ UNCHANGED <<read, last>>
Rollback(r) == tx[r] # None /\ Step(r, None) /\ UNCHANGED <<box, read, last, subs, saved>>

\* mark_notification_read and mark_all_notifications_read: one query each.
MarkRead(u) ==
    /\ \E ids \in {{n} : n \in box[u]} \cup {box[u]} : ~(ids \subseteq read) /\ read' = read \cup ids
    /\ UNCHANGED <<box, last, subs, tx, saved>>

\* dispatch_saved_notifications, after the commit: to all devices of the user as they
\* are now, with the number of unread notices; a device that is gone is taken out.
DevicesOf(u) == {s.device : s \in {x \in subs : x.owner = u}}
unread_count(u) == Cardinality(box[u] \ read)
Push ==
    /\ \E n \in saved, u \in Users : \E gone \in SUBSET DevicesOf(u) :
          /\ n \in box[u]            \* unread_count(u) is shown with it
          /\ saved' = saved \ {n}
          /\ \A s \in subs : s.owner = u /\ s.device \in gone => ~Locked(s)
          /\ subs' = {s \in subs : ~(s.owner = u /\ s.device \in gone)}
    /\ UNCHANGED <<box, read, last, tx>>
\* The user turns the device off.
Unsubscribe ==
    /\ \E s \in subs :
          LET off == {x \in subs : x.device = s.device /\ x.owner = s.owner}
          IN  (\A x \in off : ~Locked(x)) /\ subs' = subs \ off
    /\ UNCHANGED <<box, read, last, tx, saved>>

NNext == \/ \E r \in Requests : Create(r) \/ Prune(r) \/ Subscribe(r) \/ CommitTx(r) \/ Rollback(r)
         \/ \E u \in Users : MarkRead(u)
         \/ Push \/ Unsubscribe
NSpec == NInit /\ [][NNext]_noticeVars

---------------------------------------------------------------------------
\* A box may be over its limit by the requests that did not see each other, not by
\* more; a notice is in one box.
BoxBounded ==
    /\ \A u \in Users : Cardinality(box[u]) < MaxStored + Cardinality(Requests)
    /\ \A u, v \in Users : u # v => box[u] \cap box[v] = {}

\* Enough newer notices are stored when one goes.
GoesAsOld ==
    \A u \in Users : \A n \in box[u] \ box'[u] : Cardinality(Newer(n, box'[u])) >= MaxStored

(* A box is over its limit by concurrent requests only, and what is pruned is never
   among the newest, those of a request that was rolled back not counted.        *)
NewestKept == []BoxBounded /\ [][GoesAsOld]_noticeVars
=============================================================================
