---------------------------- MODULE Transactions -----------------------------
(* Who shares a database transaction with whom (config/transactions.py), when it
   is committed (api/middleware/transaction.py), and when what it saved may be
   pushed to the devices (config/after_commit.py, notification/usecase.py).

   A task runs in a transaction state.  The middleware of a request makes a shared
   one, which its handler uses; a worker makes its own, which the tasks it starts
   inherit but may not use.  The handler's task goes on as the request's background
   task when the response has been sent and the shared state has expired.         *)
EXTENDS Naturals, FiniteSets

CONSTANTS
    Requests,    \* HTTP requests: the task of the middleware
    Workers,     \* tasks with a transaction of their own (workers, the CLI)
    Children,    \* tasks started by one of these, with a copy of its context
    Parent,      \* Parent[c]: who started c
    Quota,       \* Quota[t]: writes of a task
    MaxDepth     \* atomic() blocks inside each other

(* Nobody is two things, and one task handles a request.                           *)
ASSUME TransactionsAssumption ==
    /\ Requests \cap Workers = {} /\ Requests \cap Children = {} /\ Workers \cap Children = {}
    /\ Parent \in [Children -> Requests \cup Workers]
    /\ \A c, d \in Children : Parent[c] = Parent[d] /\ Parent[c] \in Requests => c = d
    /\ MaxDepth \in Nat

Tasks == Requests \cup Workers \cup Children
Handlers == {c \in Children : Parent[c] \in Requests}
Writes == {w \in [by : Tasks, nr : Nat] : w.nr \in 1..Quota[w.by]}

VARIABLES
    at,          \* [Requests -> "new" | "handling" | "answered" | "over"]
    wraps,       \* [Requests -> BOOLEAN]: the middleware began a transaction for it
    reply,       \* [Requests -> "none" | "good" | "bad" | "lost"]
    open,        \* [Tasks -> BOOLEAN]: the state made by this task has a transaction
    rollback,    \* [Tasks -> BOOLEAN]: its rollback_only
    pending,     \* [Tasks -> SUBSET Writes]: what its transaction has written
    depth,       \* [Tasks -> 0..MaxDepth]: the atomic() blocks the task is in
    own,         \* [Tasks -> BOOLEAN]: the outermost of them began the transaction
    within,      \* [Tasks -> [1..MaxDepth -> SUBSET Writes]]: what was written in each
    count,       \* [Tasks -> Nat]
    db,          \* SUBSET Writes: committed
    failed,      \* SUBSET Writes: written in a block that ended with an exception
    mine,        \* [Requests -> SUBSET Writes]: written while it was handled
    hooks,       \* [Requests -> SUBSET Writes]: notices to push after the commit
    pushed       \* SUBSET Writes: notices pushed

txVars == <<at, wraps, reply, open, rollback, pending, depth, own, within, count,
            db, failed, mine, hooks, pushed>>

Nothing == [k \in 1..MaxDepth |-> {}]

TInit ==
    /\ at = [r \in Requests |-> "new"]
    /\ wraps = [r \in Requests |-> TRUE]
    /\ reply = [r \in Requests |-> "none"]
    /\ open = [t \in Tasks |-> FALSE]
    /\ rollback = [t \in Tasks |-> FALSE]
    /\ pending = [t \in Tasks |-> {}]
    /\ depth = [t \in Tasks |-> 0]
    /\ own = [t \in Tasks |-> FALSE]
    /\ within = [t \in Tasks |-> Nothing]
    /\ count = [t \in Tasks |-> 0]
    /\ db = {} /\ failed = {} /\ pushed = {}
    /\ mine = [r \in Requests |-> {}]
    /\ hooks = [r \in Requests |-> {}]

(* The state a task's queries go to: the one in its context, unless that has
   expired or belongs to another task that does not share it.                      *)
Usable(i, t) == i = t \/ (i \in Requests /\ at[i] # "over")
StateOf(t) == IF t \in Children /\ Usable(Parent[t], t) THEN Parent[t] ELSE t

\* A handler acts while its request is handled and, as a background task, when the
\* request is over; the middleware itself writes nothing.
Handling(t) == t \in Handlers /\ at[Parent[t]] = "handling"
Acts(t) == t \notin Requests /\ (t \in Handlers => at[Parent[t]] \in {"handling", "over"})

---------------------------------------------------------------------------
(* The middleware.                                                            *)

\* A request comes in; paths that need no transaction around them are skipped.
Arrive(r) ==
    /\ at[r] = "new"
    /\ at' = [at EXCEPT ![r] = "handling"]
    /\ \E wrap \in BOOLEAN :
          wraps' = [wraps EXCEPT ![r] = wrap] /\ open' = [open EXCEPT ![r] = wrap]
    /\ UNCHANGED <<reply, rollback, pending, depth, own, within, count, db, failed, mine, hooks, pushed>>

HandlerDone(r) == at[r] = "handling" /\ \A t \in Handlers : Parent[t] = r => depth[t] = 0

Settle(r, answer, saved) ==
    /\ at' = [at EXCEPT ![r] = "answered"]
    /\ reply' = [reply EXCEPT ![r] = answer]
    /\ db' = db \cup saved
    /\ open' = [open EXCEPT ![r] = FALSE]
    /\ pending' = [pending EXCEPT ![r] = {}]
    /\ UNCHANGED <<wraps, rollback, depth, own, within, count, failed, mine, hooks, pushed>>

\* A response of 200 to 299 commits, unless a block inside the request failed and
\* the failure was caught.
Succeed(r) == HandlerDone(r) /\ (wraps[r] => ~rollback[r]) /\ Settle(r, "good", pending[r])
\* Any other response, an exception, a cancellation, a timeout of the database, a
\* marked transaction: rolled back.
Refuse(r) == HandlerDone(r) /\ Settle(r, "bad", {})
\* The commit itself fails, and nobody knows whether the database has done it.
CommitLost(r) ==
    /\ HandlerDone(r) /\ wraps[r] /\ ~rollback[r]
    /\ \E saved \in {{}, pending[r]} : Settle(r, "lost", saved)

\* After a good response the hooks run; one that fails is logged and that is all.
Close(r) ==
    /\ at[r] = "answered"
    /\ at' = [at EXCEPT ![r] = "over"]
    /\ \E sent \in SUBSET hooks[r] : pushed' = pushed \cup IF reply[r] = "good" THEN sent ELSE {}
    /\ UNCHANGED <<wraps, reply, open, rollback, pending, depth, own, within, count, db, failed, mine, hooks>>

---------------------------------------------------------------------------
(* atomic().                                                                  *)

\* It joins the transaction of its state, or begins one.
Joins(t) == open[StateOf(t)]
Enter(t) ==
    /\ Acts(t) /\ depth[t] < MaxDepth
    /\ depth' = [depth EXCEPT ![t] = @ + 1]
    /\ IF Joins(t)
       THEN /\ own' = IF depth[t] = 0 THEN [own EXCEPT ![t] = FALSE] ELSE own
            /\ UNCHANGED <<open, rollback, pending>>
       ELSE /\ own' = [own EXCEPT ![t] = TRUE]
            /\ open' = [open EXCEPT ![StateOf(t)] = TRUE]
            /\ rollback' = [rollback EXCEPT ![StateOf(t)] = FALSE]
            /\ pending' = [pending EXCEPT ![StateOf(t)] = {}]
    /\ UNCHANGED <<at, wraps, reply, within, count, db, failed, mine, hooks, pushed>>

\* A query that writes; outside of any transaction it is committed by itself.
Write(t) ==
    /\ Acts(t) /\ count[t] < Quota[t]
    /\ LET w == [by |-> t, nr |-> count[t] + 1] IN
        /\ IF open[StateOf(t)]
           THEN pending' = [pending EXCEPT ![StateOf(t)] = @ \cup {w}] /\ db' = db
           ELSE db' = db \cup {w} /\ pending' = pending
        /\ within' = IF depth[t] = 0 THEN within ELSE [within EXCEPT ![t][depth[t]] = @ \cup {w}]
        /\ mine' = IF Handling(t) THEN [mine EXCEPT ![Parent[t]] = @ \cup {w}] ELSE mine
    /\ count' = [count EXCEPT ![t] = @ + 1]
    /\ UNCHANGED <<at, wraps, reply, open, rollback, depth, own, failed, hooks, pushed>>

Outermost(t) == depth[t] = 1 /\ own[t]

\* A block inside a transaction ends well: its writes count for the block around it.
LeaveInner(t) ==
    /\ Acts(t) /\ depth[t] > 0 /\ ~Outermost(t)
    /\ depth' = [depth EXCEPT ![t] = @ - 1]
    /\ within' = [within EXCEPT ![t] = [k \in 1..MaxDepth |->
          IF k = depth[t] - 1 THEN @[k] \cup @[depth[t]] ELSE IF k = depth[t] THEN {} ELSE @[k]]]
    /\ UNCHANGED <<at, wraps, reply, open, rollback, pending, own, count, db, failed, mine, hooks, pushed>>

\* Faulty: a block that ends with an exception leaves no mark.
FailUnmarked(t) ==
    /\ Acts(t) /\ depth[t] > 0 /\ ~Outermost(t)
    /\ depth' = [depth EXCEPT ![t] = @ - 1]
    /\ failed' = failed \cup within[t][depth[t]]
    /\ within' = [within EXCEPT ![t][depth[t]] = {}]
    /\ UNCHANGED <<at, wraps, reply, open, rollback, pending, own, count, db, mine, hooks, pushed>>
\* A block ends with an exception: it marks the transaction it joined.  Whether the
\* block around it catches the exception or ends with it too is the next step.
FailInner(t) ==
    /\ Acts(t) /\ depth[t] > 0 /\ ~Outermost(t)
    /\ depth' = [depth EXCEPT ![t] = @ - 1]
    /\ rollback' = [rollback EXCEPT ![StateOf(t)] = TRUE]
    /\ failed' = failed \cup within[t][depth[t]]
    /\ within' = [within EXCEPT ![t][depth[t]] = {}]
    /\ UNCHANGED <<at, wraps, reply, open, pending, own, count, db, mine, hooks, pushed>>

End(t, saved, lost) ==
    /\ Acts(t) /\ Outermost(t)
    /\ depth' = [depth EXCEPT ![t] = 0]
    /\ open' = [open EXCEPT ![StateOf(t)] = FALSE]
    /\ pending' = [pending EXCEPT ![StateOf(t)] = {}]
    /\ db' = db \cup saved
    /\ failed' = failed \cup lost
    /\ within' = [within EXCEPT ![t] = Nothing]
    /\ UNCHANGED <<at, wraps, reply, rollback, own, count, mine, hooks, pushed>>

\* The outermost block commits, if no block inside it has failed; a commit that
\* fails may have been done.
Commit(t) ==
    /\ ~rollback[StateOf(t)]
    /\ \E saved \in {{}, pending[StateOf(t)]} : End(t, saved, {})
\* It ends with an exception, or is marked and raises one itself.
Abandon(t) == End(t, {}, within[t][1])

---------------------------------------------------------------------------
(* dispatch_saved_notifications: called when the block that saved the notices has
   ended well.  Inside a request's transaction a hook is left; else they are sent. *)
Saved(t) == {w \in db \cup pending[StateOf(t)] : w.by = t /\ w \notin failed}
PushNow(w) == pushed' = pushed \cup {w} /\ hooks' = hooks
Dispatch(t) ==
    /\ Acts(t) /\ depth[t] = 0
    /\ \E w \in Saved(t) :
          IF open[StateOf(t)] /\ t \in Handlers
          THEN hooks' = [hooks EXCEPT ![Parent[t]] = @ \cup {w}] /\ pushed' = pushed
          ELSE PushNow(w)
    /\ UNCHANGED <<at, wraps, reply, open, rollback, pending, depth, own, within, count, db, failed, mine>>

TNext ==
    \/ \E r \in Requests : Arrive(r) \/ Succeed(r) \/ Refuse(r) \/ CommitLost(r) \/ Close(r)
    \/ \E t \in Tasks : \/ Enter(t) \/ Write(t) \/ LeaveInner(t) \/ FailInner(t)
                        \/ Commit(t) \/ Abandon(t) \/ Dispatch(t)
TSpec == TInit /\ [][TNext]_txVars

---------------------------------------------------------------------------
(* A transaction is open while somebody is in it and holds what nobody has saved;
   a request that was answered has none left.                                    *)
TxTypeOK ==
    /\ \A t \in Tasks : pending[t] \cap db = {} /\ (~open[t] => pending[t] = {})
    /\ \A r \in Requests : at[r] \in {"answered", "over"} => ~open[r]
    /\ \A t \in Tasks : depth[t] > 0 => open[StateOf(t)]

(* Nothing written in a block that failed is ever committed, whoever caught the
   failure (atomic's rollback_only).                                             *)
AllOrNothing == failed \cap db = {}

(* What a request wrote in its transaction is saved as a whole or not at all, and
   a good response means that it is saved.                                       *)
ReplyAsSaved ==
    \A r \in Requests : wraps[r] /\ at[r] \in {"answered", "over"} =>
        /\ reply[r] = "good" => mine[r] \subseteq db
        /\ reply[r] = "bad" => mine[r] \cap db = {}
        /\ mine[r] \subseteq db \/ mine[r] \cap db = {}

(* A notice reaches a device only when it is in the database.                     *)
PushedOnlySaved == pushed \subseteq db

(* To everyone outside, what a request or a worker does happens as a whole or not at
   all, its answer says which, and nobody hears of what did not happen.            *)
SavedAsWhole == TxTypeOK /\ AllOrNothing /\ ReplyAsSaved /\ PushedOnlySaved
=============================================================================
