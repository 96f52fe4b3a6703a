------------------------- MODULE TransactionsProofs --------------------------
(***************************************************************************)
(* Proofs about Transactions, and about GameSettings, whose requests run   *)
(* in a transaction each.                                                  *)
(* Transactions, for every set of requests, workers and tasks, every       *)
(* nesting of blocks and every number of writes: what a request or a       *)
(* worker saves is saved as a whole or not at all, the answer says which,  *)
(* and only saved notices are pushed.                                      *)
(* GameSettings, for every set of administrators, documents and edits: a   *)
(* catalogue that was saved is not lost to a migration, the bosses take    *)
(* the old factor in once, and a file is saved over the settings its       *)
(* administrator was shown.                                                *)
(***************************************************************************)
EXTENDS Transactions, GameSettings, TLAPS

USE TransactionsAssumption DEF Tasks, Handlers

Written == [by : Tasks, nr : Nat]

Shape ==
  /\ at \in [Requests -> {"new", "handling", "answered", "over"}]
  /\ wraps \in [Requests -> BOOLEAN]
  /\ reply \in [Requests -> {"none", "good", "bad", "lost"}]
  /\ open \in [Tasks -> BOOLEAN] /\ rollback \in [Tasks -> BOOLEAN]
  /\ own \in [Tasks -> BOOLEAN]
  /\ pending \in [Tasks -> SUBSET Written]
  /\ depth \in [Tasks -> 0..MaxDepth] /\ count \in [Tasks -> Nat]
  /\ within \in [Tasks -> [1..MaxDepth -> SUBSET Written]]
  /\ db \subseteq Written /\ failed \subseteq Written /\ pushed \subseteq Written
  /\ mine \in [Requests -> SUBSET Written] /\ hooks \in [Requests -> SUBSET Written]

(* The writes of a task are numbered: the next one is new everywhere.       *)
Old(S) == \A w \in S : w.nr <= count[w.by]
Fresh == /\ Old(db) /\ Old(failed)
         /\ \A t \in Tasks : Old(pending[t])
         /\ \A r \in Requests : Old(mine[r])

(* A write is in one transaction, or committed.                              *)
Apart == /\ \A s \in Tasks : pending[s] \cap db = {}
         /\ \A s, u \in Tasks : s # u => pending[s] \cap pending[u] = {}

(* The handler of a request around which the middleware has a transaction.   *)
Wrapped(t) == t \in Handlers /\ at[Parent[t]] = "handling" /\ wraps[Parent[t]]

(* Who has begun the open transactions.                                      *)
Empty == \A t \in Tasks : ~open[t] => pending[t] = {}
Idle == /\ \A r \in Requests : depth[r] = 0 /\ (at[r] # "handling" => ~open[r])
        /\ \A h \in Handlers : at[Parent[h]] \in {"new", "answered"} => depth[h] = 0
        /\ \A h \in Handlers : at[Parent[h]] # "over" => ~open[h]
Inside == \A t \in Tasks : depth[t] > 0 => open[StateOf(t)]
Begun == /\ \A t \in Tasks \ Requests : open[StateOf(t)] /\ ~Wrapped(t) => depth[t] > 0 /\ own[t]
         /\ \A t \in Tasks : Wrapped(t) /\ depth[t] > 0 => ~own[t]
         /\ \A r \in Requests : at[r] = "handling" /\ wraps[r] => open[r]
         /\ \A r \in Requests : open[r] /\ ~wraps[r] => \E h \in Handlers : Parent[h] = r

(* What was written in a block is in the transaction of the block.           *)
Blocks == \A t \in Tasks : \A k \in 1..MaxDepth :
            /\ k > depth[t] => within[t][k] = {}
            /\ within[t][k] \subseteq pending[StateOf(t)]

(* A transaction that holds a failed write is marked.                        *)
Marked == /\ failed \cap db = {}
          /\ \A s \in Tasks : failed \cap pending[s] # {} => rollback[s]

(* What a request wrote is in its transaction until it is answered.          *)
Answered(r) == at[r] \in {"answered", "over"}
Kept == \A r \in Requests :
          /\ at[r] = "new" => mine[r] = {}
          /\ wraps[r] /\ at[r] = "handling" => mine[r] \subseteq pending[r]
          /\ wraps[r] /\ Answered(r) =>
                /\ reply[r] = "good" => mine[r] \subseteq db
                /\ reply[r] = "bad" => mine[r] \cap db = {}
                /\ mine[r] \subseteq db \/ mine[r] \cap db = {}
                /\ \A s \in Tasks : mine[r] \cap pending[s] = {}

(* The notices a request leaves to push are in its transaction, or saved.    *)
Told == /\ pushed \subseteq db
        /\ \A r \in Requests :
             /\ at[r] = "new" \/ ~wraps[r] => hooks[r] = {}
             /\ at[r] = "handling" => hooks[r] \subseteq db \cup pending[r]
             /\ Answered(r) /\ reply[r] = "good" => hooks[r] \subseteq db

Inv == /\ Shape /\ Fresh /\ Apart /\ Empty /\ Idle /\ Inside /\ Begun
       /\ Blocks /\ Marked /\ Kept /\ Told

----------------------------------------------------------------------------
(* Whose state a task uses.                                                  *)

LEMMA Sorts ==
  /\ Handlers \subseteq Children /\ Handlers \subseteq Tasks \ Requests
  /\ Requests \subseteq Tasks
  /\ \A h \in Handlers : Parent[h] \in Requests /\ Parent[h] \in Tasks /\ Parent[h] # h
OBVIOUS

LEMMA HandlerState ==
  \A h \in Handlers : /\ at[Parent[h]] # "over" => StateOf(h) = Parent[h]
                      /\ at[Parent[h]] = "over" => StateOf(h) = h
BY DEF StateOf, Usable

LEMMA OtherState == \A t \in Tasks : t \notin Handlers => StateOf(t) = t
BY DEF StateOf, Usable

LEMMA StateKind == \A t \in Tasks : StateOf(t) \in Tasks
BY HandlerState, OtherState, Sorts

(* Two tasks that may write never share a state.                             *)
LEMMA Solo ==
  ASSUME NEW t \in Tasks \ Requests, NEW u \in Tasks \ Requests, StateOf(t) = StateOf(u)
  PROVE  t = u
BY HandlerState, OtherState, Sorts

LEMMA SameState ==
  ASSUME \A r \in Requests : at'[r] = "over" <=> at[r] = "over"
  PROVE  \A t \in Tasks : StateOf(t)' = StateOf(t)
BY DEF StateOf, Usable

LEMMA SameAt == ASSUME UNCHANGED at PROVE \A t \in Tasks : StateOf(t)' = StateOf(t)
BY SameState

----------------------------------------------------------------------------
(* The middleware.                                                           *)

LEMMA InitInv == TInit => Inv
<1>. SUFFICES ASSUME TInit PROVE Inv
  OBVIOUS
<1>1. Shape /\ Apart /\ Empty /\ Marked
  BY DEF TInit, Nothing, Shape, Apart, Empty, Marked
<1>2. Fresh /\ Kept /\ Told
  BY DEF TInit, Fresh, Old, Kept, Told, Answered
<1>3. Idle /\ Inside /\ Begun
  BY Sorts, StateKind DEF TInit, Idle, Inside, Begun, Wrapped
<1>4. Blocks
  BY DEF TInit, Blocks, Nothing
<1>. QED
  BY <1>1, <1>2, <1>3, <1>4 DEF Inv

LEMMA ArriveInv ==
  ASSUME Inv, NEW r \in Requests, Arrive(r)
  PROVE  Inv'
<1>. USE DEF Inv
<1>0. \A t \in Tasks : StateOf(t)' = StateOf(t)
  BY SameState DEF Arrive, Shape
<1>1. Shape'
  BY DEF Shape, Arrive
<1>2. Fresh' /\ Apart' /\ Marked'
  BY DEF Arrive, Fresh, Old, Apart, Marked
<1>3. Empty' /\ Idle'
  BY Sorts DEF Arrive, Shape, Empty, Idle
<1>4. Inside'
  BY <1>0, Sorts, HandlerState, OtherState DEF Arrive, Shape, Idle, Inside
<1>5. Begun'
  <2>1. \A t \in Tasks \ Requests : (open[StateOf(t)] /\ ~Wrapped(t))' => depth[t] > 0 /\ own[t]
    BY <1>0, Sorts, HandlerState, OtherState DEF Arrive, Shape, Idle, Begun, Wrapped
  <2>2. \A t \in Tasks : Wrapped(t)' /\ depth[t] > 0 => ~own[t]
    BY Sorts DEF Arrive, Shape, Idle, Begun, Wrapped
  <2>3. \A q \in Requests : /\ at'[q] = "handling" /\ wraps'[q] => open'[q]
                            /\ open'[q] /\ ~wraps'[q] => \E h \in Handlers : Parent[h] = q
    BY Sorts DEF Arrive, Shape, Begun
  <2>. QED
    BY <2>1, <2>2, <2>3 DEF Begun, Arrive
<1>6. Blocks'
  BY <1>0 DEF Arrive, Blocks
<1>7. \A q \in Requests : \/ at'[q] = at[q] /\ wraps'[q] = wraps[q]
                          \/ at[q] = "new" /\ at'[q] = "handling"
  <2>1. PICK wrap \in BOOLEAN : wraps' = [wraps EXCEPT ![r] = wrap]
    BY DEF Arrive
  <2>2. at[r] = "new" /\ at' = [at EXCEPT ![r] = "handling"]
    BY DEF Arrive
  <2>. QED
    BY <2>1, <2>2 DEF Shape
<1>8. Kept'
  BY <1>7 DEF Arrive, Kept, Answered
<1>9. Told'
  BY <1>7 DEF Arrive, Told, Answered
<1>. QED
  BY <1>1, <1>2, <1>3, <1>4, <1>5, <1>6, <1>8, <1>9

(* An answer: what is saved is all of the transaction or nothing, all with a good
   answer, nothing with a bad one, and nothing that failed.                        *)
LEMMA SettleInv ==
  ASSUME Inv, NEW r \in Requests, HandlerDone(r),
         NEW answer \in {"good", "bad", "lost"}, NEW saved \in {{}, pending[r]},
         Settle(r, answer, saved), saved \cap failed = {},
         answer = "good" => saved = pending[r], answer = "bad" => saved = {}
  PROVE  Inv'
<1>. USE DEF Inv
<1>0. \A t \in Tasks : StateOf(t)' = StateOf(t)
  BY SameState DEF HandlerDone, Settle, Shape
<1>a. saved \subseteq pending[r] /\ pending[r] \subseteq Written /\ r \in Tasks
  BY Sorts DEF Shape
<1>b. \A t \in Tasks : depth[t] > 0 => StateOf(t) # r
  BY Sorts, HandlerState, OtherState DEF HandlerDone, Shape, Idle
<1>1. Shape'
  BY <1>a DEF Shape, Settle
<1>2. Fresh'
  BY <1>a DEF Settle, Fresh, Old, Shape
<1>3. Apart' /\ Empty'
  BY <1>a DEF Settle, Apart, Empty, Shape
<1>4. Idle' /\ Inside'
  BY <1>0, <1>b, Sorts, StateKind DEF HandlerDone, Settle, Shape, Idle, Inside
<1>5. Begun'
  <2>1. \A t \in Tasks \ Requests : (open[StateOf(t)] /\ ~Wrapped(t))' => depth[t] > 0 /\ own[t]
    BY <1>0, <1>a, Sorts, StateKind, HandlerState, OtherState DEF Settle, Shape, Begun, Wrapped
  <2>2. \A t \in Tasks : Wrapped(t)' /\ depth[t] > 0 => ~own[t]
    BY Sorts DEF Settle, Shape, Begun, Wrapped
  <2>3. \A q \in Requests : /\ at'[q] = "handling" /\ wraps'[q] => open'[q]
                            /\ open'[q] /\ ~wraps'[q] => \E h \in Handlers : Parent[h] = q
    BY Sorts DEF Settle, Shape, Begun
  <2>. QED
    BY <2>1, <2>2, <2>3 DEF Begun, Settle
<1>6. Blocks'
  <2>. SUFFICES ASSUME NEW t \in Tasks, NEW k \in 1..MaxDepth
                PROVE  /\ k > depth[t] => within[t][k] = {}
                       /\ within[t][k] \subseteq pending'[StateOf(t)]
    BY <1>0 DEF Blocks, Settle
  <2>1. CASE depth[t] > 0
    BY <2>1, <1>b, StateKind DEF Blocks, Settle, Shape
  <2>2. CASE ~(depth[t] > 0)
    BY <2>2 DEF Blocks, Shape
  <2>. QED
    BY <2>1, <2>2
<1>7. Marked'
  BY <1>a DEF Settle, Marked, Shape
<1>8. Kept'
  <2>. SUFFICES ASSUME NEW q \in Requests
                PROVE  /\ at'[q] = "new" => mine[q] = {}
                       /\ wraps[q] /\ at'[q] = "handling" => mine[q] \subseteq pending'[q]
                       /\ wraps[q] /\ at'[q] \in {"answered", "over"} =>
                             /\ reply'[q] = "good" => mine[q] \subseteq db'
                             /\ reply'[q] = "bad" => mine[q] \cap db' = {}
                             /\ mine[q] \subseteq db' \/ mine[q] \cap db' = {}
                             /\ \A s \in Tasks : mine[q] \cap pending'[s] = {}
    BY DEF Kept, Settle, Answered
  <2>1. CASE q = r
    <3>1. /\ at[r] = "handling" /\ at'[r] = "answered" /\ reply'[r] = answer
          /\ db' = db \cup saved /\ pending' = [pending EXCEPT ![r] = {}]
      BY DEF HandlerDone, Settle, Shape
    <3>2. wraps[r] => mine[r] \subseteq pending[r]
      BY <3>1 DEF Kept
    <3>3. pending[r] \cap db = {} /\ \A s \in Tasks : s # r => pending[r] \cap pending[s] = {}
      BY Sorts DEF Apart
    <3>. QED
      BY <2>1, <3>1, <3>2, <3>3, <1>a DEF Shape
  <2>2. CASE q # r
    <3>1. /\ at'[q] = at[q] /\ reply'[q] = reply[q] /\ pending'[q] = pending[q] /\ q \in Tasks
          /\ db' = db \cup saved /\ pending' = [pending EXCEPT ![r] = {}]
      BY <2>2, Sorts DEF Settle, Shape
    <3>2. wraps[q] /\ Answered(q) => mine[q] \cap saved = {}
      BY <1>a DEF Kept
    <3>. QED
      BY <3>1, <3>2, <1>a DEF Shape, Kept, Answered
  <2>. QED
    BY <2>1, <2>2
<1>9. Told'
  BY <1>a, Sorts DEF HandlerDone, Settle, Shape, Told, Answered
<1>. QED
  BY <1>1, <1>2, <1>3, <1>4, <1>5, <1>6, <1>7, <1>8, <1>9

LEMMA SucceedInv ==
  ASSUME Inv, NEW r \in Requests, Succeed(r)
  PROVE  Inv'
<1>1. pending[r] \cap failed = {}
  <2>1. CASE wraps[r]
    BY <2>1, Sorts DEF Inv, Marked, Succeed
  <2>2. CASE ~wraps[r]
    <3>1. ~open[r]
      <4>. SUFFICES ASSUME open[r] PROVE FALSE
        OBVIOUS
      <4>1. PICK h \in Handlers : Parent[h] = r
        BY <2>2 DEF Inv, Begun
      <4>2. h \in Tasks \ Requests /\ StateOf(h) = r /\ ~Wrapped(h) /\ depth[h] = 0
        BY <2>2, <4>1, Sorts, HandlerState DEF Wrapped, Succeed, HandlerDone
      <4>. QED
        BY <4>2 DEF Inv, Begun
    <3>. QED
      BY <3>1, Sorts DEF Inv, Empty
  <2>. QED
    BY <2>1, <2>2
<1>. QED
  BY <1>1, SettleInv DEF Succeed

LEMMA RefuseInv ==
  ASSUME Inv, NEW r \in Requests, Refuse(r)
  PROVE  Inv'
BY SettleInv DEF Refuse

LEMMA CommitLostInv ==
  ASSUME Inv, NEW r \in Requests, CommitLost(r)
  PROVE  Inv'
<1>1. pending[r] \cap failed = {}
  BY Sorts DEF Inv, Marked, CommitLost
<1>2. PICK saved \in {{}, pending[r]} : Settle(r, "lost", saved)
  BY DEF CommitLost
<1>3. saved \cap failed = {}
  BY <1>1
<1>. QED
  BY <1>2, <1>3, SettleInv DEF CommitLost

LEMMA CloseInv ==
  ASSUME Inv, NEW r \in Requests, Close(r)
  PROVE  Inv'
<1>. USE DEF Inv
<1>a. /\ at[r] = "answered" /\ at' = [at EXCEPT ![r] = "over"] /\ pending[r] = {} /\ r \in Tasks
      /\ ~open[r]
  BY Sorts DEF Close, Shape, Idle, Empty
<1>b. \A h \in Handlers : Parent[h] = r => depth[h] = 0 /\ ~open[h] /\ pending[h] = {}
  BY <1>a, Sorts DEF Shape, Idle, Empty
<1>c. \A t \in Tasks : \/ StateOf(t)' = StateOf(t)
                       \/ t \in Handlers /\ Parent[t] = r /\ StateOf(t) = r /\ StateOf(t)' = t
  <2>. SUFFICES ASSUME NEW t \in Tasks
                PROVE  \/ StateOf(t)' = StateOf(t)
                       \/ t \in Handlers /\ Parent[t] = r /\ StateOf(t) = r /\ StateOf(t)' = t
    OBVIOUS
  <2>1. CASE t \in Handlers /\ Parent[t] = r
    <3>1. StateOf(t) = r
      BY <2>1, <1>a, HandlerState
    <3>2. StateOf(t)' = t
      BY <2>1, <1>a, Sorts DEF StateOf, Usable, Shape
    <3>. QED
      BY <2>1, <3>1, <3>2
  <2>2. CASE t \in Handlers /\ Parent[t] # r
    <3>1. at'[Parent[t]] = at[Parent[t]]
      BY <2>2, <1>a, Sorts DEF Shape
    <3>. QED
      BY <2>2, <3>1 DEF StateOf, Usable
  <2>3. CASE t \notin Handlers
    BY <2>3 DEF StateOf, Usable
  <2>. QED
    BY <2>1, <2>2, <2>3
<1>1. Shape'
  BY DEF Shape, Close
<1>2. Fresh' /\ Apart' /\ Marked' /\ Empty'
  BY DEF Close, Fresh, Old, Apart, Marked, Empty
<1>3. Idle'
  BY Sorts DEF Close, Shape, Idle
<1>4. Inside'
  BY <1>b, <1>c DEF Close, Inside, Shape
<1>5. Begun'
  <2>1. \A t \in Tasks \ Requests : (open[StateOf(t)] /\ ~Wrapped(t))' => depth[t] > 0 /\ own[t]
    BY <1>a, <1>b, <1>c, Sorts DEF Close, Shape, Begun, Wrapped
  <2>2. \A t \in Tasks : Wrapped(t)' /\ depth[t] > 0 => ~own[t]
    BY Sorts DEF Close, Shape, Begun, Wrapped
  <2>3. \A q \in Requests : /\ at'[q] = "handling" /\ wraps[q] => open[q]
                            /\ open[q] /\ ~wraps[q] => \E h \in Handlers : Parent[h] = q
    BY <1>a DEF Shape, Begun
  <2>. QED
    BY <2>1, <2>2, <2>3 DEF Begun, Close
<1>6. Blocks'
  BY <1>a, <1>b, <1>c DEF Close, Blocks, Shape
<1>7. \A q \in Requests : at'[q] = at[q] \/ (at[q] = "answered" /\ at'[q] = "over")
  BY <1>a DEF Shape
<1>8. Kept'
  BY <1>7 DEF Close, Kept, Answered
<1>9. Told'
  <2>1. pushed' \subseteq db
    BY DEF Close, Told, Answered
  <2>. QED
    BY <2>1, <1>7 DEF Close, Told, Answered
<1>. QED
  BY <1>1, <1>2, <1>3, <1>4, <1>5, <1>6, <1>8, <1>9

----------------------------------------------------------------------------
(* Blocks.                                                                   *)

(* Only the task of a handler or a task of its own acts, and it knows its state. *)
LEMMA Actor ==
  ASSUME Inv, NEW t \in Tasks, Acts(t)
  PROVE  /\ t \in Tasks \ Requests /\ StateOf(t) \in Tasks
         /\ t \in Handlers => at[Parent[t]] \in {"handling", "over"}
         /\ StateOf(t) \in Requests => /\ t \in Handlers /\ Parent[t] = StateOf(t)
                                       /\ at[StateOf(t)] = "handling"
         /\ \A u \in Tasks \ Requests : StateOf(u) = StateOf(t) => u = t
         /\ StateOf(t) \in Handlers => StateOf(t) = t /\ at[Parent[t]] = "over"
BY StateKind, HandlerState, OtherState, Sorts, Solo DEF Acts, Inv, Shape, Idle

(* What the outermost block of a task is: never one in a wrapped request.     *)
LEMMA Outer ==
  ASSUME Inv, NEW t \in Tasks, Acts(t), Outermost(t)
  PROVE  /\ ~Wrapped(t) /\ open[StateOf(t)]
         /\ StateOf(t) \in Requests => ~wraps[StateOf(t)]
BY Actor DEF Outermost, Wrapped, Inv, Begun, Inside

LEMMA EnterInv ==
  ASSUME Inv, NEW t \in Tasks, Enter(t)
  PROVE  Inv'
<1>. USE DEF Inv
<1>0. /\ \A u \in Tasks : StateOf(u)' = StateOf(u)
      /\ Acts(t) /\ depth[t] \in 0..MaxDepth /\ depth[t] + 1 \in 1..MaxDepth
      /\ depth' = [depth EXCEPT ![t] = depth[t] + 1]
  BY SameAt DEF Enter, Shape
<1>. DEFINE S == StateOf(t)
<1>a. pending' = pending
  <2>1. CASE Joins(t)
    BY <2>1 DEF Enter
  <2>2. CASE ~Joins(t)
    <3>1. pending[S] = {} /\ pending' = [pending EXCEPT ![S] = {}]
      BY <2>2, <1>0, Actor DEF Enter, Joins, Empty
    <3>. QED
      BY <3>1 DEF Shape
  <2>. QED
    BY <2>1, <2>2
<1>b. /\ open' = [open EXCEPT ![S] = TRUE]
      /\ rollback' = rollback \/ (rollback' = [rollback EXCEPT ![S] = FALSE] /\ pending[S] = {})
  BY <1>0, Actor DEF Enter, Joins, Shape, Empty
<1>c. /\ own' \in [Tasks -> BOOLEAN] /\ \A u \in Tasks : u # t => own'[u] = own[u]
      /\ ~Wrapped(t) => own'[t]
      /\ Wrapped(t) => ~own'[t]
  <2>1. CASE Joins(t)
    <3>1. ~Wrapped(t) => depth[t] > 0 /\ own[t]
      BY <2>1, <1>0, Actor DEF Joins, Begun
    <3>2. own' = IF depth[t] = 0 THEN [own EXCEPT ![t] = FALSE] ELSE own
      BY <2>1 DEF Enter
    <3>. QED
      BY <1>0, <3>1, <3>2 DEF Shape, Begun
  <2>2. CASE ~Joins(t)
    <3>1. ~Wrapped(t)
      BY <2>2, HandlerState DEF Joins, Wrapped, Begun
    <3>2. own' = [own EXCEPT ![t] = TRUE]
      BY <2>2 DEF Enter
    <3>. QED
      BY <3>1, <3>2 DEF Shape
  <2>. QED
    BY <2>1, <2>2
<1>1. Shape'
  <2>1. open' \in [Tasks -> BOOLEAN] /\ rollback' \in [Tasks -> BOOLEAN]
    BY <1>b DEF Shape
  <2>2. depth' \in [Tasks -> 0..MaxDepth]
    BY <1>0 DEF Shape
  <2>. QED
    BY <2>1, <2>2, <1>a, <1>c DEF Shape, Enter
<1>2. Fresh' /\ Apart'
  BY <1>a DEF Enter, Fresh, Old, Apart
<1>3. Empty'
  BY <1>a, <1>b DEF Empty, Shape
<1>4. Idle'
  <2>1. \A r \in Requests : depth'[r] = 0 /\ (at[r] # "handling" => ~open'[r])
    BY <1>0, <1>b, Actor, Sorts DEF Shape, Idle
  <2>2. \A h \in Handlers : /\ at[Parent[h]] \in {"new", "answered"} => depth'[h] = 0
                            /\ at[Parent[h]] # "over" => ~open'[h]
    <3>. SUFFICES ASSUME NEW h \in Handlers
                  PROVE  /\ at[Parent[h]] \in {"new", "answered"} => depth'[h] = 0
                         /\ at[Parent[h]] # "over" => ~open'[h]
      OBVIOUS
    <3>1. h = t => at[Parent[h]] \in {"handling", "over"}
      BY <1>0, Actor
    <3>2. h = S => at[Parent[h]] = "over"
      BY <1>0, Actor
    <3>3. h # t => depth'[h] = depth[h]
      BY <1>0, Sorts DEF Shape
    <3>4. h # S => open'[h] = open[h]
      BY <1>b, Sorts DEF Shape
    <3>. QED
      BY <3>1, <3>2, <3>3, <3>4 DEF Idle
  <2>. QED
    BY <2>1, <2>2 DEF Enter, Idle
<1>5. Inside'
  BY <1>0, <1>b, Actor, StateKind DEF Inside, Shape
<1>6. Begun'
  <2>1. \A u \in Tasks \ Requests : open'[StateOf(u)] /\ ~Wrapped(u) => depth'[u] > 0 /\ own'[u]
    <3>. SUFFICES ASSUME NEW u \in Tasks \ Requests, open'[StateOf(u)], ~Wrapped(u)
                  PROVE  depth'[u] > 0 /\ own'[u]
      OBVIOUS
    <3>1. CASE u = t
      BY <3>1, <1>0, <1>c DEF Shape
    <3>2. CASE u # t
      <4>1. open[StateOf(u)]
        BY <3>2, <1>0, <1>b, Actor, StateKind DEF Shape
      <4>. QED
        BY <3>2, <4>1, <1>0, <1>c DEF Shape, Begun
    <3>. QED
      BY <3>1, <3>2
  <2>2. \A u \in Tasks : Wrapped(u) /\ depth'[u] > 0 => ~own'[u]
    BY <1>0, <1>c DEF Shape, Begun
  <2>3. \A q \in Requests : /\ at[q] = "handling" /\ wraps[q] => open'[q]
                            /\ open'[q] /\ ~wraps[q] => \E h \in Handlers : Parent[h] = q
    BY <1>0, <1>b, Actor, Sorts DEF Shape, Begun
  <2>. QED
    BY <2>1, <2>2, <2>3, <1>0 DEF Begun, Wrapped, Enter
<1>7. Blocks'
  BY <1>0, <1>a DEF Enter, Blocks, Shape
<1>8. Marked'
  BY <1>a, <1>b DEF Enter, Marked, Shape
<1>9. Kept' /\ Told'
  BY <1>a DEF Enter, Kept, Told, Answered
<1>. QED
  BY <1>1, <1>2, <1>3, <1>4, <1>5, <1>6, <1>7, <1>8, <1>9

(* A new write is in no set yet.                                              *)
LEMMA NewWrite ==
  ASSUME Inv, NEW t \in Tasks, NEW w, w = [by |-> t, nr |-> count[t] + 1]
  PROVE  /\ w \in Written /\ w.by = t /\ w.nr = count[t] + 1
         /\ w \notin db /\ w \notin failed
         /\ \A s \in Tasks : w \notin pending[s]
         /\ \A r \in Requests : w \notin mine[r]
<1>1. w \in Written /\ w.by = t /\ w.nr = count[t] + 1
  BY DEF Inv, Shape, Written
<1>2. ~(w.nr <= count[w.by])
  BY <1>1 DEF Inv, Shape
<1>. QED
  BY <1>1, <1>2 DEF Inv, Fresh, Old

LEMMA WriteInv ==
  ASSUME Inv, NEW t \in Tasks, Write(t)
  PROVE  Inv'
<1>. USE DEF Inv
<1>. DEFINE S == StateOf(t)
<1>w. PICK w : w = [by |-> t, nr |-> count[t] + 1]
  OBVIOUS
<1>0. /\ \A u \in Tasks : StateOf(u)' = StateOf(u)
      /\ Acts(t) /\ S \in Tasks /\ t \in Tasks \ Requests
      /\ count' = [count EXCEPT ![t] = count[t] + 1]
      /\ \A u \in Tasks \ Requests : StateOf(u) = S => u = t
  BY SameAt, Actor DEF Write, Shape
<1>n. /\ w \in Written /\ w.by = t /\ w.nr = count[t] + 1
      /\ w \notin db /\ w \notin failed
      /\ \A s \in Tasks : w \notin pending[s]
      /\ \A r \in Requests : w \notin mine[r]
  BY <1>w, NewWrite
<1>a. \/ open[S] /\ pending' = [pending EXCEPT ![S] = @ \cup {w}] /\ db' = db
      \/ ~open[S] /\ db' = db \cup {w} /\ pending' = pending
  BY <1>w DEF Write
<1>b. /\ depth[t] = 0 => within' = within
      /\ depth[t] # 0 => /\ depth[t] \in 1..MaxDepth
                         /\ within' = [within EXCEPT ![t][depth[t]] = @ \cup {w}]
  BY <1>w DEF Write, Shape
<1>c. \/ mine' = mine /\ ~Handling(t)
      \/ Handling(t) /\ Parent[t] \in Requests /\ mine' = [mine EXCEPT ![Parent[t]] = @ \cup {w}]
  BY <1>w, Sorts DEF Write, Handling
<1>d. \A s \in Tasks : /\ s = S /\ open[S] => pending'[s] = pending[s] \cup {w}
                       /\ ~(s = S /\ open[S]) => pending'[s] = pending[s]
  BY <1>0, <1>a DEF Shape
<1>e. \A q \in Requests : /\ Handling(t) /\ q = Parent[t] => mine'[q] = mine[q] \cup {w}
                          /\ ~(Handling(t) /\ q = Parent[t]) => mine'[q] = mine[q]
  BY <1>c DEF Shape
<1>f. /\ open[S] => db' = db
      /\ ~open[S] => db' = db \cup {w}
  BY <1>a
<1>1. Shape'
  <2>1. pending' \in [Tasks -> SUBSET Written]
    <3>1. pending' = [s \in Tasks |-> pending'[s]]
      BY <1>a DEF Shape
    <3>2. \A s \in Tasks : pending'[s] \in SUBSET Written
      BY <1>d, <1>n DEF Shape
    <3>. QED
      BY <3>1, <3>2
  <2>2. db' \subseteq Written
    BY <1>n, <1>f DEF Shape
  <2>3. within' \in [Tasks -> [1..MaxDepth -> SUBSET Written]]
    <3>1. CASE depth[t] = 0
      BY <3>1, <1>b DEF Shape
    <3>2. CASE depth[t] # 0
      <4>1. /\ within \in [Tasks -> [1..MaxDepth -> SUBSET Written]]
            /\ within[t] \in [1..MaxDepth -> SUBSET Written]
        BY DEF Shape
      <4>2. [within[t] EXCEPT ![depth[t]] = @ \cup {w}] \in [1..MaxDepth -> SUBSET Written]
        BY <4>1, <3>2, <1>b, <1>n
      <4>3. within' = [within EXCEPT ![t] = [within[t] EXCEPT ![depth[t]] = @ \cup {w}]]
        BY <3>2, <1>b
      <4>. QED
        BY <4>1, <4>2, <4>3
    <3>. QED
      BY <3>1, <3>2
  <2>4. mine' \in [Requests -> SUBSET Written]
    <3>1. mine' = [q \in Requests |-> mine'[q]]
      BY <1>c DEF Shape
    <3>2. \A q \in Requests : mine[q] \in SUBSET Written
      BY DEF Shape
    <3>3. \A q \in Requests : mine'[q] \in SUBSET Written
      BY <1>e, <1>n, <3>2
    <3>. QED
      BY <3>1, <3>3
  <2>5. count' \in [Tasks -> Nat]
    BY <1>0 DEF Shape
  <2>. QED
    BY <2>1, <2>2, <2>3, <2>4, <2>5 DEF Shape, Write
<1>2. Fresh'
  <2>1. \A x \in Written : x.nr <= count[x.by] => x.nr <= count'[x.by]
    BY <1>0 DEF Shape, Written
  <2>2. w.nr <= count'[w.by]
    BY <1>0, <1>n DEF Shape
  <2>3. Old(db)' /\ Old(failed)'
    BY <2>1, <2>2, <1>f DEF Fresh, Old, Shape, Write
  <2>4. \A s \in Tasks : \A x \in pending'[s] : x.nr <= count'[x.by]
    <3>1. \A s \in Tasks : \A x \in pending[s] : x \in Written /\ x.nr <= count[x.by]
      BY DEF Fresh, Old, Shape
    <3>2. \A s \in Tasks : pending'[s] \subseteq pending[s] \cup {w}
      BY <1>d
    <3>. QED
      BY <3>1, <3>2, <2>1, <2>2
  <2>5. \A r \in Requests : \A x \in mine'[r] : x.nr <= count'[x.by]
    <3>1. \A r \in Requests : \A x \in mine[r] : x \in Written /\ x.nr <= count[x.by]
      BY DEF Fresh, Old, Shape
    <3>2. \A r \in Requests : mine'[r] \subseteq mine[r] \cup {w}
      BY <1>e
    <3>. QED
      BY <3>1, <3>2, <2>1, <2>2
  <2>. QED
    BY <2>3, <2>4, <2>5 DEF Fresh, Old
<1>3. Apart'
  <2>1. \A s \in Tasks : pending'[s] \cap db' = {}
    BY <1>d, <1>f, <1>n DEF Apart
  <2>2. \A s, u \in Tasks : s # u => pending'[s] \cap pending'[u] = {}
    BY <1>d, <1>n DEF Apart
  <2>. QED
    BY <2>1, <2>2 DEF Apart
<1>4. Empty' /\ Idle' /\ Inside' /\ Begun'
  <2>1. Empty'
    BY <1>d DEF Write, Empty
  <2>. QED
    BY <2>1, <1>0 DEF Write, Idle, Inside, Begun, Wrapped
<1>5. Blocks'
  <2>. SUFFICES ASSUME NEW u \in Tasks, NEW k \in 1..MaxDepth
                PROVE  /\ k > depth[u] => within'[u][k] = {}
                       /\ within'[u][k] \subseteq pending'[StateOf(u)]
    BY <1>0 DEF Blocks, Write
  <2>1. pending[StateOf(u)] \subseteq pending'[StateOf(u)]
    BY <1>d, StateKind
  <2>2. CASE u = t /\ k = depth[t]
    <3>1. within'[t][k] = within[t][k] \cup {w} /\ w \in pending'[S]
      <4>1. depth[t] > 0 /\ depth[t] \in 1..MaxDepth /\ open[S]
        BY <2>2 DEF Inside, Shape
      <4>2. w \in pending'[S]
        BY <4>1, <1>0, <1>d
      <4>. QED
        BY <4>1, <4>2, <2>2, <1>b DEF Shape
    <3>. QED
      BY <2>1, <2>2, <3>1 DEF Blocks, Shape
  <2>3. CASE ~(u = t /\ k = depth[t])
    <3>1. within'[u][k] = within[u][k]
      BY <2>3, <1>b DEF Shape
    <3>. QED
      BY <2>1, <3>1 DEF Blocks
  <2>. QED
    BY <2>2, <2>3
<1>6. Marked'
  BY <1>n, <1>d, <1>f DEF Write, Marked
<1>7. Kept'
  <2>. SUFFICES ASSUME NEW q \in Requests
                PROVE  /\ at[q] = "new" => mine'[q] = {}
                       /\ wraps[q] /\ at[q] = "handling" => mine'[q] \subseteq pending'[q]
                       /\ wraps[q] /\ at[q] \in {"answered", "over"} =>
                             /\ reply[q] = "good" => mine'[q] \subseteq db'
                             /\ reply[q] = "bad" => mine'[q] \cap db' = {}
                             /\ mine'[q] \subseteq db' \/ mine'[q] \cap db' = {}
                             /\ \A s \in Tasks : mine'[q] \cap pending'[s] = {}
    BY DEF Kept, Write, Answered
  <2>1. CASE Handling(t) /\ Parent[t] = q
    <3>1. S = q /\ at[q] = "handling" /\ mine'[q] = mine[q] \cup {w}
      BY <2>1, <1>e, HandlerState DEF Handling
    <3>2. wraps[q] => open[q] /\ pending'[q] = pending[q] \cup {w}
      BY <3>1, <1>0, <1>d DEF Begun
    <3>. QED
      BY <3>1, <3>2 DEF Kept
  <2>2. CASE ~(Handling(t) /\ Parent[t] = q)
    <3>1. mine'[q] = mine[q] /\ w \notin mine[q]
      BY <2>2, <1>e, <1>n
    <3>2. \A s \in Tasks : pending[s] \subseteq pending'[s] /\ pending'[s] \subseteq pending[s] \cup {w}
      BY <1>d
    <3>3. db \subseteq db' /\ db' \subseteq db \cup {w} /\ q \in Tasks
      BY <1>f, Sorts
    <3>. QED
      BY <3>1, <3>2, <3>3 DEF Kept, Answered
  <2>. QED
    BY <2>1, <2>2
<1>8. Told'
  <2>1. \A q \in Requests : pending[q] \subseteq pending'[q]
    BY <1>d, Sorts
  <2>2. db \subseteq db'
    BY <1>f
  <2>. QED
    BY <2>1, <2>2 DEF Write, Told, Answered
<1>. QED
  BY <1>1, <1>2, <1>3, <1>4, <1>5, <1>6, <1>7, <1>8

(* What leaving an inner block does to the depths, however it ends.           *)
LEMMA Shallower ==
  ASSUME Inv, NEW t \in Tasks, Acts(t), depth[t] > 0, ~Outermost(t),
         depth' = [depth EXCEPT ![t] = @ - 1],
         UNCHANGED <<at, wraps, open, own>>
  PROVE  /\ depth[t] \in 1..MaxDepth /\ depth' \in [Tasks -> 0..MaxDepth]
         /\ \A u \in Tasks : StateOf(u)' = StateOf(u)
         /\ Idle' /\ Inside' /\ Begun'
<1>. USE DEF Inv
<1>0. \A u \in Tasks : StateOf(u)' = StateOf(u)
  BY SameAt
<1>1. depth[t] \in 1..MaxDepth /\ depth' \in [Tasks -> 0..MaxDepth]
  BY DEF Shape
<1>2. \A u \in Tasks : /\ u # t => depth'[u] = depth[u]
                       /\ depth'[u] > 0 => depth[u] > 0
                       /\ depth[u] = 0 => depth'[u] = 0
  BY <1>1 DEF Shape
<1>3. Idle'
  BY <1>2, Sorts DEF Idle
<1>4. Inside'
  BY <1>0, <1>2 DEF Inside
<1>5. Begun'
  <2>1. \A u \in Tasks \ Requests : open[StateOf(u)] /\ ~Wrapped(u) => depth'[u] > 0 /\ own[u]
    <3>. SUFFICES ASSUME NEW u \in Tasks \ Requests, open[StateOf(u)], ~Wrapped(u)
                  PROVE  depth'[u] > 0 /\ own[u]
      OBVIOUS
    <3>1. depth[u] > 0 /\ own[u]
      BY DEF Begun
    <3>2. CASE u = t
      BY <3>1, <3>2, <1>1 DEF Outermost, Shape
    <3>3. CASE u # t
      BY <3>1, <3>3, <1>2
    <3>. QED
      BY <3>2, <3>3
  <2>2. \A u \in Tasks : Wrapped(u) /\ depth'[u] > 0 => ~own[u]
    BY <1>2 DEF Begun
  <2>. QED
    BY <2>1, <2>2, <1>0 DEF Begun, Wrapped
<1>. QED
  BY <1>0, <1>1, <1>3, <1>4, <1>5

LEMMA LeaveInnerInv ==
  ASSUME Inv, NEW t \in Tasks, LeaveInner(t)
  PROVE  Inv'
<1>. USE DEF Inv
<1>0. /\ depth[t] \in 1..MaxDepth /\ depth' \in [Tasks -> 0..MaxDepth]
      /\ \A u \in Tasks : StateOf(u)' = StateOf(u)
      /\ Idle' /\ Inside' /\ Begun'
      /\ depth' = [depth EXCEPT ![t] = @ - 1]
  BY Shallower DEF LeaveInner
<1>a. /\ within' \in [Tasks -> [1..MaxDepth -> SUBSET Written]]
      /\ \A u \in Tasks : u # t => within'[u] = within[u]
      /\ \A k \in 1..MaxDepth : within'[t][k] =
            IF k = depth[t] - 1 THEN within[t][k] \cup within[t][depth[t]]
            ELSE IF k = depth[t] THEN {} ELSE within[t][k]
  <2>. DEFINE f == [k \in 1..MaxDepth |->
                      IF k = depth[t] - 1 THEN within[t][k] \cup within[t][depth[t]]
                      ELSE IF k = depth[t] THEN {} ELSE within[t][k]]
  <2>1. within' = [within EXCEPT ![t] = f]
    BY DEF LeaveInner
  <2>2. /\ within \in [Tasks -> [1..MaxDepth -> SUBSET Written]]
        /\ \A k \in 1..MaxDepth : within[t][k] \in SUBSET Written
    BY DEF Shape
  <2>3. f \in [1..MaxDepth -> SUBSET Written]
    BY <1>0, <2>2
  <2>4. \A k \in 1..MaxDepth : f[k] =
            IF k = depth[t] - 1 THEN within[t][k] \cup within[t][depth[t]]
            ELSE IF k = depth[t] THEN {} ELSE within[t][k]
    OBVIOUS
  <2>. HIDE DEF f
  <2>5. within'[t] = f /\ \A u \in Tasks : u # t => within'[u] = within[u]
    BY <2>1, <2>2
  <2>6. within' \in [Tasks -> [1..MaxDepth -> SUBSET Written]]
    BY <2>1, <2>2, <2>3
  <2>. QED
    BY <2>4, <2>5, <2>6
<1>1. Shape'
  BY <1>0, <1>a DEF Shape, LeaveInner
<1>2. Fresh' /\ Apart' /\ Empty' /\ Marked' /\ Kept' /\ Told'
  BY DEF LeaveInner, Fresh, Old, Apart, Empty, Marked, Kept, Told, Answered
<1>3. Blocks'
  <2>. SUFFICES ASSUME NEW u \in Tasks, NEW k \in 1..MaxDepth
                PROVE  /\ k > depth'[u] => within'[u][k] = {}
                       /\ within'[u][k] \subseteq pending[StateOf(u)]
    BY <1>0 DEF Blocks, LeaveInner
  <2>1. CASE u = t
    <3>1. within[t][depth[t]] \subseteq pending[StateOf(t)] /\ depth'[t] = depth[t] - 1
      BY <1>0 DEF Blocks, Shape
    <3>2. /\ within[t][k] \subseteq pending[StateOf(t)]
          /\ k > depth[t] => within[t][k] = {}
      BY DEF Blocks
    <3>3. within'[t][k] = IF k = depth[t] - 1 THEN within[t][k] \cup within[t][depth[t]]
                          ELSE IF k = depth[t] THEN {} ELSE within[t][k]
      BY <1>a
    <3>4. CASE k = depth[t] - 1
      BY <2>1, <3>1, <3>2, <3>3, <3>4, <1>0
    <3>5. CASE k = depth[t]
      BY <2>1, <3>1, <3>3, <3>5, <1>0
    <3>6. CASE k # depth[t] - 1 /\ k # depth[t]
      BY <2>1, <3>1, <3>2, <3>3, <3>6, <1>0
    <3>. QED
      BY <3>4, <3>5, <3>6
  <2>2. CASE u # t
    <3>1. within'[u] = within[u] /\ depth'[u] = depth[u]
      BY <2>2, <1>0, <1>a DEF Shape
    <3>. QED
      BY <3>1 DEF Blocks
  <2>. QED
    BY <2>1, <2>2
<1>. QED
  BY <1>0, <1>1, <1>2, <1>3

LEMMA FailInnerInv ==
  ASSUME Inv, NEW t \in Tasks, FailInner(t)
  PROVE  Inv'
<1>. USE DEF Inv
<1>. DEFINE S == StateOf(t)
<1>0. /\ depth[t] \in 1..MaxDepth /\ depth' \in [Tasks -> 0..MaxDepth]
      /\ \A u \in Tasks : StateOf(u)' = StateOf(u)
      /\ Idle' /\ Inside' /\ Begun'
      /\ depth' = [depth EXCEPT ![t] = @ - 1] /\ S \in Tasks
  BY Shallower, StateKind DEF FailInner
<1>a. PICK lost \in SUBSET Written :
        /\ lost = within[t][depth[t]] /\ lost \subseteq pending[S]
        /\ failed' = failed \cup lost
  BY <1>0 DEF FailInner, Shape, Blocks
<1>b. /\ rollback' = [rollback EXCEPT ![S] = TRUE]
      /\ within' = [within EXCEPT ![t] = [within[t] EXCEPT ![depth[t]] = {}]]
  BY DEF FailInner
<1>c. within'[t] = [within[t] EXCEPT ![depth[t]] = {}]
      /\ \A u \in Tasks : u # t => within'[u] = within[u]
  BY <1>b DEF Shape
<1>1. Shape'
  <2>1. within[t] \in [1..MaxDepth -> SUBSET Written]
    BY DEF Shape
  <2>2. [within[t] EXCEPT ![depth[t]] = {}] \in [1..MaxDepth -> SUBSET Written]
    BY <2>1
  <2>3. within' \in [Tasks -> [1..MaxDepth -> SUBSET Written]]
    BY <2>2, <1>b DEF Shape
  <2>4. rollback' \in [Tasks -> BOOLEAN]
    BY <1>b DEF Shape
  <2>. QED
    BY <1>0, <1>a, <2>3, <2>4 DEF Shape, FailInner
<1>2. Fresh'
  BY <1>0, <1>a DEF FailInner, Fresh, Old
<1>3. Apart' /\ Empty' /\ Kept' /\ Told'
  BY DEF FailInner, Apart, Empty, Kept, Told, Answered
<1>4. Blocks'
  <2>. SUFFICES ASSUME NEW u \in Tasks, NEW k \in 1..MaxDepth
                PROVE  /\ k > depth'[u] => within'[u][k] = {}
                       /\ within'[u][k] \subseteq pending[StateOf(u)]
    BY <1>0 DEF Blocks, FailInner
  <2>1. CASE u = t
    <3>1. /\ within'[t][k] = IF k = depth[t] THEN {} ELSE within[t][k]
          /\ depth'[t] = depth[t] - 1
      BY <1>0, <1>c DEF Shape
    <3>. QED
      BY <2>1, <3>1, <1>0 DEF Blocks
  <2>2. CASE u # t
    <3>1. within'[u] = within[u] /\ depth'[u] = depth[u]
      BY <2>2, <1>0, <1>c DEF Shape
    <3>. QED
      BY <3>1 DEF Blocks
  <2>. QED
    BY <2>1, <2>2
<1>5. Marked'
  <2>1. failed' \cap db = {}
    BY <1>0, <1>a DEF Marked, Apart
  <2>2. \A s \in Tasks : failed' \cap pending[s] # {} => rollback'[s]
    BY <1>0, <1>a, <1>b DEF Marked, Apart, Shape
  <2>. QED
    BY <2>1, <2>2 DEF Marked, FailInner
<1>. QED
  BY <1>0, <1>1, <1>2, <1>3, <1>4, <1>5

(* The end of an outermost block: what is saved is its transaction or nothing,
   and only when nothing in it failed or is now found to have failed.           *)
LEMMA EndInv ==
  ASSUME Inv, NEW t \in Tasks, NEW saved \in {{}, pending[StateOf(t)]},
         NEW lost \in SUBSET pending[StateOf(t)], End(t, saved, lost),
         saved # {} => lost = {} /\ saved \cap failed = {}
  PROVE  Inv'
<1>. USE DEF Inv
<1>. DEFINE S == StateOf(t)
<1>0. /\ \A u \in Tasks : StateOf(u)' = StateOf(u)
      /\ S \in Tasks /\ t \in Tasks \ Requests /\ Acts(t)
      /\ t \in Handlers => at[Parent[t]] \in {"handling", "over"}
      /\ S \in Requests => ~wraps[S] /\ at[S] = "handling"
      /\ \A u \in Tasks \ Requests : StateOf(u) = S => u = t
      /\ depth[t] = 1
  BY SameAt, Actor, Outer DEF End, Outermost
<1>a. /\ depth' = [depth EXCEPT ![t] = 0] /\ open' = [open EXCEPT ![S] = FALSE]
      /\ pending' = [pending EXCEPT ![S] = {}] /\ within' = [within EXCEPT ![t] = Nothing]
      /\ db' = db \cup saved /\ failed' = failed \cup lost
      /\ saved \subseteq pending[S] /\ lost \subseteq pending[S]
      /\ UNCHANGED <<at, wraps, reply, rollback, own, count, mine, hooks, pushed>>
  BY DEF End
<1>b. \A u \in Tasks : /\ u # t => depth'[u] = depth[u] /\ within'[u] = within[u]
                       /\ u # S => pending'[u] = pending[u] /\ open'[u] = open[u]
  BY <1>a DEF Shape
<1>c. /\ pending'[S] = {} /\ ~open'[S] /\ depth'[t] = 0 /\ within'[t] = Nothing
      /\ pending[S] \subseteq Written
  BY <1>0, <1>a DEF Shape
<1>1. Shape'
  <2>1. open' \in [Tasks -> BOOLEAN] /\ pending' \in [Tasks -> SUBSET Written]
    BY <1>a DEF Shape
  <2>d. depth' \in [Tasks -> 0..MaxDepth]
    BY <1>a DEF Shape
  <2>2. within' \in [Tasks -> [1..MaxDepth -> SUBSET Written]]
    BY <1>a DEF Shape, Nothing
  <2>3. db' \subseteq Written /\ failed' \subseteq Written
    BY <1>a, <1>c DEF Shape
  <2>. QED
    BY <1>a, <2>1, <2>2, <2>3, <2>d DEF Shape
<1>2. Fresh'
  <2>1. Old(pending[S])
    BY <1>0 DEF Fresh
  <2>2. \A u \in Tasks : \A x \in pending'[u] : x.nr <= count[x.by]
    BY <1>b, <1>c DEF Fresh, Old
  <2>. QED
    BY <1>a, <2>1, <2>2 DEF Fresh, Old
<1>3. Apart' /\ Empty'
  BY <1>0, <1>a, <1>b, <1>c DEF Apart, Empty
<1>4. Idle'
  BY <1>0, <1>a, <1>b, <1>c, Sorts DEF Idle
<1>5. Inside'
  <2>. SUFFICES ASSUME NEW u \in Tasks, depth'[u] > 0 PROVE open'[StateOf(u)]
    BY <1>0 DEF Inside
  <2>1. u # t /\ depth[u] > 0 /\ u \notin Requests
    BY <1>b, <1>c, <1>0 DEF Idle
  <2>. QED
    BY <2>1, <1>0, <1>b, StateKind DEF Inside
<1>6. Begun'
  <2>1. \A u \in Tasks \ Requests : open'[StateOf(u)] /\ ~Wrapped(u) => depth'[u] > 0 /\ own[u]
    BY <1>0, <1>b, <1>c, StateKind DEF Begun
  <2>2. \A u \in Tasks : Wrapped(u) /\ depth'[u] > 0 => ~own[u]
    BY <1>b, <1>c DEF Begun
  <2>3. \A q \in Requests : /\ at[q] = "handling" /\ wraps[q] => open'[q]
                            /\ open'[q] /\ ~wraps[q] => \E h \in Handlers : Parent[h] = q
    BY <1>0, <1>b, <1>c, Sorts DEF Begun
  <2>. QED
    BY <2>1, <2>2, <2>3, <1>0, <1>a DEF Begun, Wrapped
<1>7. Blocks'
  <2>. SUFFICES ASSUME NEW u \in Tasks, NEW k \in 1..MaxDepth
                PROVE  /\ k > depth'[u] => within'[u][k] = {}
                       /\ within'[u][k] \subseteq pending'[StateOf(u)]
    BY <1>0 DEF Blocks
  <2>1. CASE u = t
    BY <2>1, <1>c DEF Nothing
  <2>2. CASE u \in Requests
    <3>1. within[u][k] = {} /\ within'[u] = within[u]
      BY <2>2, <1>0, <1>b, Sorts DEF Blocks, Idle
    <3>. QED
      BY <3>1
  <2>3. CASE u # t /\ u \notin Requests
    <3>1. StateOf(u) # S /\ StateOf(u) \in Tasks
      BY <2>3, <1>0, StateKind
    <3>2. /\ pending'[StateOf(u)] = pending[StateOf(u)]
          /\ within'[u] = within[u] /\ depth'[u] = depth[u]
      BY <2>3, <3>1, <1>b
    <3>. QED
      BY <3>2 DEF Blocks
  <2>. QED
    BY <2>1, <2>2, <2>3
<1>8. Marked'
  <2>1. failed' \cap db' = {}
    BY <1>0, <1>a DEF Marked, Apart
  <2>2. \A s \in Tasks : failed' \cap pending'[s] # {} => rollback[s]
    BY <1>0, <1>a, <1>b, <1>c DEF Marked, Apart
  <2>. QED
    BY <2>1, <2>2, <1>a DEF Marked
<1>9. Kept'
  <2>. SUFFICES ASSUME NEW q \in Requests
                PROVE  /\ at[q] = "new" => mine[q] = {}
                       /\ wraps[q] /\ at[q] = "handling" => mine[q] \subseteq pending'[q]
                       /\ wraps[q] /\ at[q] \in {"answered", "over"} =>
                             /\ reply[q] = "good" => mine[q] \subseteq db'
                             /\ reply[q] = "bad" => mine[q] \cap db' = {}
                             /\ mine[q] \subseteq db' \/ mine[q] \cap db' = {}
                             /\ \A s \in Tasks : mine[q] \cap pending'[s] = {}
    BY <1>a DEF Kept, Answered
  <2>1. at[q] = "new" => mine[q] = {}
    BY DEF Kept
  <2>2. wraps[q] => q # S /\ pending'[q] = pending[q]
    BY <1>0, <1>b, Sorts
  <2>3. wraps[q] /\ Answered(q) => mine[q] \cap pending[S] = {}
    BY <1>0 DEF Kept
  <2>4. \A s \in Tasks : pending'[s] \subseteq pending[s]
    BY <1>b, <1>c
  <2>. QED
    BY <2>1, <2>2, <2>3, <2>4, <1>a DEF Kept, Answered
<1>10. Told'
  <2>1. \A q \in Requests : wraps[q] => pending'[q] = pending[q]
    BY <1>0, <1>b, Sorts
  <2>. QED
    BY <2>1, <1>a DEF Told, Answered
<1>. QED
  BY <1>1, <1>2, <1>3, <1>4, <1>5, <1>6, <1>7, <1>8, <1>9, <1>10

LEMMA CommitInv ==
  ASSUME Inv, NEW t \in Tasks, Commit(t)
  PROVE  Inv'
<1>1. PICK saved \in {{}, pending[StateOf(t)]} : End(t, saved, {})
  BY DEF Commit
<1>2. saved \cap failed = {}
  BY StateKind DEF Commit, Inv, Marked
<1>. QED
  BY <1>1, <1>2, EndInv

LEMMA AbandonInv ==
  ASSUME Inv, NEW t \in Tasks, Abandon(t)
  PROVE  Inv'
<1>1. depth[t] = 1 /\ 1 \in 1..MaxDepth
  BY DEF Abandon, End, Outermost, Inv, Shape
<1>2. within[t][1] \in SUBSET pending[StateOf(t)]
  BY <1>1 DEF Inv, Blocks
<1>. QED
  BY <1>2, EndInv DEF Abandon

----------------------------------------------------------------------------
(* Notices.                                                                  *)

LEMMA DispatchInv ==
  ASSUME Inv, NEW t \in Tasks, Dispatch(t)
  PROVE  Inv'
<1>. USE DEF Inv
<1>. DEFINE S == StateOf(t)
<1>1. /\ \A u \in Tasks : StateOf(u)' = StateOf(u)
      /\ Acts(t) /\ depth[t] = 0 /\ S \in Tasks /\ t \in Tasks \ Requests
  BY SameAt, Actor DEF Dispatch
<1>2. PICK w \in db \cup pending[S] :
        IF open[S] /\ t \in Handlers
        THEN hooks' = [hooks EXCEPT ![Parent[t]] = @ \cup {w}] /\ pushed' = pushed
        ELSE pushed' = pushed \cup {w} /\ hooks' = hooks
  BY DEF Dispatch, Saved, PushNow
<1>3. open[S] => /\ t \in Handlers /\ Parent[t] \in Requests /\ S = Parent[t]
                 /\ at[S] = "handling" /\ wraps[S]
  BY <1>1, HandlerState, Sorts DEF Begun, Wrapped
<1>4. ~open[S] => w \in db
  BY <1>1, <1>2 DEF Empty
<1>5. Shape'
  <2>1. w \in Written
    BY <1>1, <1>2 DEF Shape
  <2>2. hooks' \in [Requests -> SUBSET Written] /\ pushed' \subseteq Written
    <3>1. CASE open[S]
      <4>1. hooks' = [hooks EXCEPT ![S] = hooks[S] \cup {w}] /\ S \in Requests /\ pushed' = pushed
        BY <3>1, <1>2, <1>3
      <4>2. hooks[S] \cup {w} \in SUBSET Written
        BY <4>1, <2>1 DEF Shape
      <4>. QED
        BY <4>1, <4>2 DEF Shape
    <3>2. CASE ~open[S]
      BY <3>2, <2>1, <1>2 DEF Shape
    <3>. QED
      BY <3>1, <3>2
  <2>. QED
    BY <2>2 DEF Shape, Dispatch
<1>6. Told'
  <2>1. pushed' \subseteq db
    BY <1>2, <1>3, <1>4 DEF Told
  <2>2. \A q \in Requests : \/ hooks'[q] = hooks[q]
                            \/ q = S /\ open[S] /\ hooks'[q] = hooks[q] \cup {w}
    BY <1>2, <1>3 DEF Shape
  <2>3. \A q \in Requests : /\ at[q] = "new" \/ ~wraps[q] => hooks'[q] = {}
                            /\ at[q] = "handling" => hooks'[q] \subseteq db \cup pending[q]
                            /\ Answered(q) /\ reply[q] = "good" => hooks'[q] \subseteq db
    BY <2>2, <1>2, <1>3 DEF Told, Answered
  <2>. QED
    BY <2>1, <2>3 DEF Told, Dispatch, Answered
<1>7. Fresh' /\ Apart' /\ Empty' /\ Marked' /\ Kept'
  BY DEF Dispatch, Fresh, Old, Apart, Empty, Marked, Kept, Answered
<1>8. Idle' /\ Inside' /\ Begun' /\ Blocks'
  BY <1>1 DEF Dispatch, Idle, Inside, Begun, Wrapped, Blocks
<1>. QED
  BY <1>5, <1>6, <1>7, <1>8

----------------------------------------------------------------------------
(* The theorems.                                                             *)

LEMMA StutterInv == ASSUME Inv, UNCHANGED txVars PROVE Inv'
<1>1. \A u \in Tasks : StateOf(u)' = StateOf(u)
  BY SameAt DEF txVars
<1>2. (Shape /\ Fresh /\ Apart /\ Empty /\ Marked /\ Kept /\ Told)'
  BY DEF txVars, Inv, Shape, Fresh, Old, Apart, Empty, Marked, Kept, Told, Answered
<1>3. (Idle /\ Inside /\ Begun /\ Blocks)'
  BY <1>1 DEF txVars, Inv, Idle, Inside, Begun, Wrapped, Blocks
<1>. QED
  BY <1>2, <1>3 DEF Inv

LEMMA NextInv == Inv /\ [TNext]_txVars => Inv'
<1>. SUFFICES ASSUME Inv, [TNext]_txVars PROVE Inv'
  OBVIOUS
<1>1. ASSUME NEW r \in Requests,
             Arrive(r) \/ Succeed(r) \/ Refuse(r) \/ CommitLost(r) \/ Close(r)
      PROVE  Inv'
  BY <1>1, ArriveInv, SucceedInv, RefuseInv, CommitLostInv, CloseInv
<1>2. ASSUME NEW t \in Tasks,
             \/ Enter(t) \/ Write(t) \/ LeaveInner(t) \/ FailInner(t)
             \/ Commit(t) \/ Abandon(t) \/ Dispatch(t)
      PROVE  Inv'
  BY <1>2, EnterInv, WriteInv, LeaveInnerInv, FailInnerInv, CommitInv, AbandonInv, DispatchInv
<1>. QED
  BY <1>1, <1>2, StutterInv DEF TNext

(* Transactions: whatever handlers, workers and background tasks do, in whatever
   order, with whatever blocks failing, the invariant above holds.               *)
THEOREM TransactionsInvariant == TSpec => []Inv
<1>. QED
  BY InitInv, NextInv, PTL DEF TSpec

(* What a request or a worker does happens as a whole or not at all, nothing of a
   block that failed is committed, the answer of a request says which it was, and
   only saved notices are pushed (config/transactions.py, config/after_commit.py). *)
THEOREM TransactionsSaveWholes == TSpec => []SavedAsWhole
<1>1. Inv => TxTypeOK
  BY DEF Inv, TxTypeOK, Apart, Empty, Idle, Inside
<1>2. Inv => AllOrNothing
  BY DEF Inv, AllOrNothing, Marked
<1>3. Inv => ReplyAsSaved
  BY DEF Inv, ReplyAsSaved, Kept, Answered
<1>4. Inv => PushedOnlySaved
  BY DEF Inv, PushedOnlySaved, Told
<1>5. Inv => SavedAsWhole
  BY <1>1, <1>2, <1>3, <1>4 DEF SavedAsWhole
<1>. QED
  BY <1>5, TransactionsInvariant, PTL

HIDE TransactionsAssumption DEF Tasks, Handlers

---------------------------------------------------------------------------
(* The settings: what is invariant.                                               *)

\* A null value is no document.
NullAssumption == DOMAIN None \cap {"version", "factor"} = {}

Stages == {"lock", "check", "migrate", "migrate balance", "act", "write", "done", "failed"}
Asked == {"get", "preview", "put catalogue", "put balance", "put battle", "file"}
Request(r) ==
    r \in [stage : Stages, kind : Asked, arg : {r.arg}, locks : SUBSET Keys, own : {r.own},
           looked : {r.looked}, draft : {r.draft}, shown : {r.shown}]

\* Documents as they are once nothing is left to migrate.
NewCatalogue(d) == Document(d) /\ d.version = 1
PlainBalance(d) == BalanceNode(d) /\ d.factor = None
Settled(docs) ==
    /\ docs.catalogue # None => NewCatalogue(docs.catalogue)
    /\ docs.balance # None => PlainBalance(docs.balance)

\* What a request writes replaces what is old.
WritesNew(w) ==
    /\ w = [k \in DOMAIN w |-> w[k]] /\ DOMAIN w \subseteq Keys
    /\ "catalogue" \in DOMAIN w => NewCatalogue(w["catalogue"])
    /\ "balance" \in DOMAIN w => PlainBalance(w["balance"])
    /\ "battle" \in DOMAIN w => w["battle"] # None

\* It has locked or made what it wrote; a migration leaves a catalogue as it is that has no
\* old factors.
Saves(r) == r.stage = "done" /\ r.kind \in {"put catalogue", "file"}
Wrote(c, r) ==
    /\ WritesNew(r.own) /\ \A k \in DOMAIN r.own : lock[k] = c \/ k \in made[c]
    /\ r.stage \in {"lock", "check", "migrate"} => r.own = <<>>
    /\ Saves(r) => "catalogue" \in DOMAIN r.own
    /\ r.kind = "put battle" => r.arg # None /\ DOMAIN r.own \subseteq {"battle"} /\ r.stage \in {"act", "done"}
Migrating(r) ==
    /\ "catalogue" \in DOMAIN r.own /\ ~Saves(r) /\ node.catalogue # None /\ node.catalogue.version = 1
          => r.own["catalogue"] = node.catalogue
    /\ r.stage = "write" => r.kind = "file"
    /\ r.stage = "migrate balance" => "catalogue" \in DOMAIN r.own /\ PlainBalance(r.draft)
    /\ r.stage \in {"act", "write", "done"} /\ Migrates(r.kind) => Settled(Over(r.own, node))

\* A file has locked what there was before it looks.
OfFile(c, r) ==
    r.kind = "file" =>
        /\ Settled(node) /\ r.stage \notin {"migrate", "migrate balance"}
        /\ \A k \in r.locks : k \in Keys /\ node[k] # None /\ (r.stage # "lock" => lock[k] = c)
        /\ r.stage # "done" => r.own = <<>>
        /\ r.stage \in {"write", "done"} => \A k \in r.locks : Seen(node)[k] = reviewed[c][k]
        /\ r.stage = "write" => DOMAIN r.draft = Keys /\ WritesNew(r.draft)

\* Once another request has stored what this one made, it ends without more ado or makes
\* the document double.
Doomed(c) == \E k \in made[c] : node[k] # None
Good(c, r) ==
    r # NoRequest => Request(r) /\ (Doomed(c) \/ (Wrote(c, r) /\ Migrating(r) /\ OfFile(c, r)))
SetInv ==
    /\ Databases(node)
    /\ lock \in [Keys -> Admins \cup {None}] /\ reviewed = [c \in Admins |-> reviewed[c]]
    /\ req = [c \in Admins |-> req[c]]
    /\ made \in [Admins -> SUBSET Keys] /\ \A c \in Admins : req[c] = NoRequest => made[c] = {}
    /\ \A k \in Keys : lock[k] # None => req[lock[k]] # NoRequest /\ node[k] # None
    /\ \A k \in Keys : start[k] # None => node[k] # None
    /\ \A c \in Admins : \A k \in made[c] : start[k] = None
    /\ acked # None => node.catalogue = acked /\ NewCatalogue(acked)
    /\ \A c \in Admins : Good(c, req[c]) /\ (reviewed[c] # None => Settled(node))

\* What a request takes is free; what it makes is not stored.
Takes(c) ==
    /\ lock' \in [Keys -> Admins \cup {None}] /\ made' \in [Admins -> SUBSET Keys]
    /\ \A k \in Keys : lock'[k] = lock[k] \/ (lock[k] \in {None, c} /\ lock'[k] = c /\ node[k] # None)
    /\ \A d \in Admins \ {c} : made'[d] = made[d]
    /\ \A k \in made[c] : k \in made'[c]
    /\ \A k \in made'[c] : k \in made[c] \/ node[k] = None

LEMMA OverIs ==
    ASSUME NEW w, NEW docs, DOMAIN w \subseteq Keys, docs = [k \in Keys |-> docs[k]]
    PROVE  Over(w, docs) = [k \in Keys |-> IF k \in DOMAIN w THEN w[k] ELSE docs[k]]
<1>1. DOMAIN w \cup DOMAIN docs = Keys
  OBVIOUS
<1>. QED
  BY <1>1 DEF Over

LEMMA NothingOver ==
    ASSUME NEW docs, docs = [k \in Keys |-> docs[k]]
    PROVE  Over(<<>>, docs) = docs
<1>1. DOMAIN <<>> = {}
  OBVIOUS
<1>2. DOMAIN <<>> \subseteq Keys /\ \A k : k \notin DOMAIN <<>>
  BY <1>1
<1>3. Over(<<>>, docs) = [k \in Keys |-> docs[k]]
  BY <1>2, OverIs
<1>. QED
  BY <1>3

LEMMA NullIsNot ==
    ASSUME NullAssumption, NEW d
    PROVE  (NewCatalogue(d) => d # None) /\ (Document(d) => d # None) /\ (PlainBalance(d) => d # None)
           /\ (BalanceNode(d) => d # None)
BY DEF NullAssumption, NewCatalogue, Document, PlainBalance, BalanceNode

\* What is saved, and what is migrated, has no old factors.
LEMMA StoredIsNew == \A cat : NewCatalogue(Stored(cat))
BY DEF Stored, NewCatalogue, Document

LEMMA ConsolidatedIsNew ==
    ASSUME NEW d, Document(d), NEW factor
    PROVE  NewCatalogue(Consolidated(d, factor)) /\ (d.version = 1 => Consolidated(d, factor) = d)
BY DEF Consolidated, Scaled, NewCatalogue, Document

LEMMA PutIs ==
    ASSUME NEW w, NEW k, NEW d
    PROVE  /\ Put(w, k, d) = [i \in {k} \cup DOMAIN w |-> IF i = k THEN d ELSE w[i]]
           /\ DOMAIN Put(w, k, d) = {k} \cup DOMAIN w
BY DEF Put, Over

LEMMA PutWritesNew ==
    ASSUME NEW w, WritesNew(w), NEW k \in Keys, NEW d,
           k = "catalogue" => NewCatalogue(d), k = "balance" => PlainBalance(d), k = "battle" => d # None
    PROVE  WritesNew(Put(w, k, d))
<1>. DEFINE p == [i \in {k} \cup DOMAIN w |-> IF i = k THEN d ELSE w[i]]
<1>1. Put(w, k, d) = p
  BY DEF Put, Over
<1>2. DOMAIN p = {k} \cup DOMAIN w /\ \A i \in {k} \cup DOMAIN w : p[i] = IF i = k THEN d ELSE w[i]
  OBVIOUS
<1>3. p = [i \in DOMAIN p |-> p[i]]
  OBVIOUS
<1>4. WritesNew(p)
  <2>. HIDE DEF p
  <2>. QED
    BY <1>2, <1>3 DEF WritesNew
<1>. QED
  BY <1>1, <1>4

LEMMA NothingWritten == WritesNew(<<>>) /\ DOMAIN <<>> = {}
<1>1. DOMAIN <<>> = {} /\ <<>> = [k \in DOMAIN <<>> |-> <<>>[k]]
  OBVIOUS
<1>. QED
  BY <1>1 DEF WritesNew

LEMMA WritesSome ==
    ASSUME NullAssumption, NEW w, WritesNew(w), NEW k \in DOMAIN w
    PROVE  w[k] # None
<1>1. k = "catalogue" \/ k = "balance" \/ k = "battle"
  BY DEF WritesNew, Keys
<1>. QED
  BY <1>1, NullIsNot DEF WritesNew

\* What is settled stays so, whatever a request writes.
LEMMA SettledStays ==
    ASSUME NEW w, WritesNew(w), NEW docs, docs = [k \in Keys |-> docs[k]], Settled(docs)
    PROVE  Settled(Over(w, docs))
<1>1. Over(w, docs) = [k \in Keys |-> IF k \in DOMAIN w THEN w[k] ELSE docs[k]]
  BY OverIs DEF WritesNew
<1>. QED
  BY <1>1 DEF Settled, WritesNew, Keys

\* What a reader sees of a document that is stored depends on that document alone.
LEMMA SeenOne ==
    ASSUME NEW k \in Keys, NEW docs, NEW other, docs[k] = other[k], docs[k] # None
    PROVE  Seen(docs)[k] = Seen(other)[k]
BY DEF Seen, Keys

\* A request takes locks and goes on: what the others know stays true.
LEMMA RequestMoves ==
    ASSUME SetInv, NEW c \in Admins, NEW s, s # NoRequest, SettingsAssumption,
           req' = [req EXCEPT ![c] = s], UNCHANGED <<node, reviewed, acked, start>>,
           Takes(c), Good(c, s)'
    PROVE  SetInv'
<1>1. /\ \A d \in Admins : req'[d] = IF d = c THEN s ELSE req[d]
      /\ req' = [d \in Admins |-> req'[d]]
  BY DEF SetInv
<1>2. ASSUME NEW d \in Admins PROVE Good(d, req[d])'
  <2>1. CASE d = c
    BY <1>1, <2>1
  <2>2. CASE d # c
    <3>1. PICK r : r = req[d] /\ r = req'[d] /\ Good(d, r)
      BY <1>1, <2>2 DEF SetInv
    <3>2. (\A k \in Keys : lock[k] = d => lock'[k] = d) /\ made'[d] = made[d] /\ (Doomed(d) => Doomed(d)')
      BY <2>2 DEF SettingsAssumption, Takes, Doomed
    <3>3. ASSUME r # NoRequest, ~Doomed(d) PROVE Wrote(d, r)' /\ Migrating(r)' /\ OfFile(d, r)'
      <4>1. Wrote(d, r) /\ Migrating(r) /\ OfFile(d, r)
        BY <3>1, <3>3 DEF Good
      <4>2. Wrote(d, r)'
        BY <4>1, <3>2 DEF Wrote, WritesNew
      <4>3. Migrating(r)'
        BY <4>1 DEF Migrating
      <4>4. OfFile(d, r)'
        BY <4>1, <3>2 DEF OfFile, Seen, Read
      <4>. QED
        BY <4>2, <4>3, <4>4
    <3>4. Good(d, r)'
      BY <3>1, <3>2, <3>3 DEF Good, Request
    <3>. QED
      BY <3>1, <3>4
  <2>. QED
    BY <2>1, <2>2
<1>3. ASSUME NEW k \in Keys, lock'[k] # None PROVE req'[lock'[k]] # NoRequest /\ node'[k] # None
  <2>1. lock'[k] = lock[k] \/ (lock'[k] = c /\ node[k] # None)
    BY DEF Takes
  <2>2. lock'[k] \in Admins
    BY <1>3 DEF Takes
  <2>3. lock[k] # None => req[lock[k]] # NoRequest /\ node[k] # None
    BY DEF SetInv
  <2>4. node'[k] # None
    BY <1>3, <2>1, <2>3
  <2>5. req'[lock'[k]] # NoRequest
    BY <1>1, <1>3, <2>1, <2>2, <2>3
  <2>. QED
    BY <2>4, <2>5
<1>4. \A d \in Admins : req'[d] = NoRequest => made'[d] = {}
  BY <1>1 DEF SetInv, Takes
<1>5. ASSUME NEW d \in Admins, NEW k \in made'[d] PROVE start'[k] = None
  <2>1. k \in made[d] \/ node[k] = None
    BY <1>5 DEF Takes
  <2>2. k \in Keys
    BY <1>5 DEF Takes
  <2>. QED
    BY <2>1, <2>2 DEF SetInv
<1>. QED
  BY <1>1, <1>2, <1>3, <1>4, <1>5 DEF SetInv, Takes

\* The end of a request: what it wrote is there, or it never was.
LEMMA RequestEnds ==
    ASSUME SetInv, NEW c \in Admins, SettingsAssumption, NullAssumption, NEW w, WritesNew(w),
           \A k \in DOMAIN w : lock[k] = c \/ node[k] = None,
           Ended(c), node' = Over(w, node), UNCHANGED start,
           reviewed' = [d \in Admins |-> reviewed'[d]], \A d \in Admins \ {c} : reviewed'[d] = reviewed[d],
           reviewed'[c] # None => Settled(node'),
           acked' # None => node'.catalogue = acked' /\ NewCatalogue(acked')
    PROVE  SetInv'
<1>1. /\ \A d \in Admins : req'[d] = IF d = c THEN NoRequest ELSE req[d]
      /\ req' = [d \in Admins |-> req'[d]]
      /\ \A d \in Admins : made'[d] = IF d = c THEN {} ELSE made[d]
      /\ made' \in [Admins -> SUBSET Keys]
  BY DEF SetInv, Ended
<1>2. \A k \in Keys : lock'[k] = IF lock[k] = c THEN None ELSE lock[k]
  BY DEF Unlocked, Ended
<1>3. node' = [k \in Keys |-> IF k \in DOMAIN w THEN w[k] ELSE node[k]]
  BY OverIs DEF SetInv, Databases, WritesNew
<1>4. Databases(node)'
  BY <1>3, NullIsNot DEF SetInv, Databases, WritesNew, Settled, Keys, NewCatalogue, PlainBalance
<1>5. Settled(node) => Settled(node')
  BY SettledStays DEF SetInv, Databases
<1>6. \A k \in Keys : node[k] # None \/ k \in DOMAIN w => node'[k] # None
  BY <1>3, WritesSome
<1>7. ASSUME NEW d \in Admins PROVE Good(d, req[d])' /\ (reviewed'[d] # None => Settled(node'))
  <2>1. CASE d = c
    BY <1>1, <2>1 DEF Good
  <2>2. CASE d # c
    <3>1. PICK r : r = req[d] /\ r = req'[d] /\ Good(d, r)
      BY <1>1, <2>2 DEF SetInv
    <3>2. \A k \in Keys : lock[k] = d => lock'[k] = d /\ node'[k] = node[k] /\ node[k] # None
      BY <1>2, <1>3, <2>2 DEF SetInv, SettingsAssumption
    <3>3. reviewed'[d] # None => Settled(node')
      BY <1>5, <2>2 DEF SetInv
    <3>4. ASSUME r # NoRequest, ~Doomed(d)' PROVE Wrote(d, r)' /\ Migrating(r)' /\ OfFile(d, r)'
      <4>1. made'[d] = made[d] /\ \A k \in made[d] : k \in Keys /\ node'[k] = None /\ node[k] = None
        BY <1>1, <1>6, <2>2, <3>4 DEF Doomed, SetInv
      <4>2. Wrote(d, r) /\ Migrating(r) /\ OfFile(d, r) /\ WritesNew(r.own)
        BY <3>1, <3>4, <4>1 DEF Good, Doomed, Wrote
      <4>3. \A k \in DOMAIN r.own : k \in Keys /\ node'[k] = node[k]
        BY <3>2, <4>1, <4>2 DEF Wrote, WritesNew
      <4>4. Wrote(d, r)'
        BY <3>2, <4>1, <4>2 DEF Wrote, WritesNew
      <4>5. Migrating(r)'
        <5>1. "catalogue" \in DOMAIN r.own => node'.catalogue = node.catalogue
          BY <4>3 DEF Keys
        <5>2. Settled(Over(r.own, node)) => Settled(Over(r.own, node'))
          <6>1. /\ Over(r.own, node) = [k \in Keys |-> IF k \in DOMAIN r.own THEN r.own[k] ELSE node[k]]
                /\ Over(r.own, node') = [k \in Keys |-> IF k \in DOMAIN r.own THEN r.own[k] ELSE node'[k]]
            BY <1>4, <4>2, OverIs DEF SetInv, Databases, WritesNew
          <6>. QED
            BY <6>1, <1>3 DEF Settled, WritesNew, Keys
        <5>. QED
          BY <4>2, <5>1, <5>2 DEF Migrating
      <4>6. OfFile(d, r)'
        <5>. SUFFICES ASSUME r.kind = "file" PROVE OfFile(d, r)'
          BY DEF OfFile
        <5>1. \A k \in r.locks : k \in Keys /\ node'[k] # None /\ (r.stage # "lock" => lock'[k] = d)
          BY <4>2, <1>6, <3>2 DEF OfFile
        <5>2. ASSUME r.stage \in {"write", "done"}, NEW k \in r.locks PROVE Seen(node')[k] = reviewed'[d][k]
          <6>1. k \in Keys /\ node'[k] = node[k] /\ node[k] # None
            BY <4>2, <5>2, <3>2 DEF OfFile
          <6>2. Seen(node')[k] = Seen(node)[k]
            BY <6>1, SeenOne
          <6>. QED
            BY <6>2, <4>2, <5>2, <2>2 DEF OfFile
        <5>. QED
          BY <4>2, <5>1, <5>2, <1>5 DEF OfFile
      <4>. QED
        BY <4>4, <4>5, <4>6
    <3>5. Doomed(d)' \/ ~Doomed(d)'
      OBVIOUS
    <3>6. Good(d, r)'
      BY <3>1, <3>4, <3>5 DEF Good, Request
    <3>. QED
      BY <3>1, <3>3, <3>6
  <2>. QED
    BY <2>1, <2>2
<1>8. ASSUME NEW k \in Keys, lock'[k] # None PROVE req'[lock'[k]] # NoRequest /\ node'[k] # None
  <2>1. lock'[k] = lock[k] /\ lock[k] # c
    BY <1>2, <1>8
  <2>2. lock[k] \in Admins /\ req[lock[k]] # NoRequest /\ node[k] # None
    BY <1>8, <2>1 DEF SetInv
  <2>3. req'[lock'[k]] # NoRequest
    BY <1>1, <2>1, <2>2
  <2>. QED
    BY <1>6, <2>2, <2>3
<1>9. lock' \in [Keys -> Admins \cup {None}]
  BY DEF SetInv, Unlocked, Ended
<1>10. \A d \in Admins : req'[d] = NoRequest => made'[d] = {}
  BY <1>1 DEF SetInv
<1>11. /\ \A k \in Keys : start'[k] # None => node'[k] # None
       /\ \A d \in Admins : \A k \in made'[d] : start'[k] = None
  BY <1>1, <1>6 DEF SetInv
<1>. QED
  BY <1>1, <1>4, <1>7, <1>8, <1>9, <1>10, <1>11 DEF SetInv

---------------------------------------------------------------------------
(* The settings: every step of a request keeps the invariant.                     *)

\* What a request has not written it sees as it is stored.
LEMMA FirstView ==
    ASSUME SetInv, NEW c \in Admins, req[c].own = <<>>
    PROVE  View(c) = node
BY NothingOver DEF SetInv, Databases, View

LEMMA SettledPut ==
    ASSUME NEW w, WritesNew(w), NEW k \in Keys, NEW d, NEW docs, docs = [i \in Keys |-> docs[i]],
           k = "catalogue" => NewCatalogue(d), k = "balance" => PlainBalance(d), k = "battle" => d # None
    PROVE  /\ Settled(Over(w, docs)) => Settled(Over(Put(w, k, d), docs))
           /\ k = "balance" /\ "catalogue" \in DOMAIN w => Settled(Over(Put(w, k, d), docs))
<1>1. WritesNew(Put(w, k, d)) /\ DOMAIN Put(w, k, d) = {k} \cup DOMAIN w
  BY PutWritesNew, PutIs
<1>2. Over(w, docs) = [i \in Keys |-> IF i \in DOMAIN w THEN w[i] ELSE docs[i]]
  BY OverIs DEF WritesNew
<1>3. Over(Put(w, k, d), docs)
        = [i \in Keys |-> IF i \in DOMAIN Put(w, k, d) THEN Put(w, k, d)[i] ELSE docs[i]]
  BY <1>1, OverIs DEF WritesNew
<1>. QED
  BY <1>1, <1>2, <1>3 DEF Settled, WritesNew, Keys

\* A database where nothing is left to migrate is settled.
LEMMA NothingNeeded ==
    ASSUME NullAssumption, NEW docs, Databases(docs)
    PROVE  ~Needs(docs) => Settled(docs)
BY NullIsNot DEF Needs, Databases, Settled, NewCatalogue, PlainBalance

\* What migrates a database leaves it settled.
LEMMA MigratedIsNew ==
    ASSUME NullAssumption, SettingsAssumption, NEW docs, Databases(docs)
    PROVE  /\ NewCatalogue(Migrated(docs).catalogue)
           /\ docs.balance # None => PlainBalance(Migrated(docs).balance)
           /\ docs.balance = None => Migrated(docs).balance = None
           /\ docs.catalogue # None /\ docs.catalogue.version = 1
                => Migrated(docs).catalogue = docs.catalogue
<1>1. Migrated(docs).catalogue
        = Consolidated(IF docs.catalogue = None THEN Default ELSE docs.catalogue, Factor(docs))
  BY DEF Migrated, First
<1>2. docs.balance # None => PlainBalance(Migrated(docs).balance)
  BY DEF Migrated, Databases, PlainBalance, BalanceNode
<1>3. docs.balance = None => Migrated(docs).balance = None
  BY DEF Migrated
<1>4. PICK d : d = (IF docs.catalogue = None THEN Default ELSE docs.catalogue) /\ Document(d)
  BY DEF Databases, SettingsAssumption
<1>5. PICK factor : factor = Factor(docs)
  OBVIOUS
<1>. QED
  BY <1>1, <1>2, <1>3, <1>4, <1>5, ConsolidatedIsNew, NullIsNot

\* A new request has written nothing; one with a file has everything to lock.
LEMMA Asks ==
    ASSUME SetInv, SettingsAssumption, NEW c \in Admins, NEW kind \in Asked, NEW arg,
           NEW first \in {"lock", "check", "act"}, NEW locks \in SUBSET Keys,
           Ask(c, kind, arg, first, locks), UNCHANGED start,
           kind = "put battle" => arg # None /\ first = "act", first = "act" => kind = "put battle",
           kind = "file" => Settled(node) /\ first = "lock" /\ \A k \in locks : node[k] # None
    PROVE  SetInv'
<1>1. PICK s : s = [stage |-> first, kind |-> kind, arg |-> arg, locks |-> locks,
                    own |-> <<>>, looked |-> None, draft |-> None, shown |-> None]
  OBVIOUS
<1>2. req' = [req EXCEPT ![c] = s] /\ UNCHANGED <<node, lock, made, reviewed, acked, start>>
  BY <1>1 DEF Ask
<1>3. Request(s)
  BY <1>1 DEF Request, Stages
<1>4. s.stage = first /\ s.kind = kind /\ s.arg = arg /\ s.locks = locks /\ s.own = <<>>
  BY <1>1
<1>5. s # NoRequest
  <2>1. NoRequest.stage = "none"
    BY DEF NoRequest
  <2>. QED
    BY <1>4, <2>1
<1>6. Good(c, s)'
  <2>1. Wrote(c, s)'
    BY <1>4, NothingWritten DEF Wrote, Saves, WritesNew
  <2>2. Migrating(s)'
    BY <1>4, NothingWritten DEF Migrating, Migrates
  <2>3. OfFile(c, s)'
    BY <1>2, <1>4 DEF OfFile, Settled, NewCatalogue, PlainBalance, Document, BalanceNode
  <2>. QED
    BY <2>1, <2>2, <2>3, <1>3 DEF Good, Request
<1>7. Takes(c)
  BY <1>2 DEF SetInv, Takes
<1>. QED
  BY <1>2, <1>5, <1>6, <1>7, RequestMoves

LEMMA Arrives ==
    ASSUME SetInv, SettingsAssumption, NullAssumption, NEW c \in Admins, NewRequest(c), UNCHANGED start
    PROVE  SetInv'
<1>. /\ Asked = {"get", "preview", "put catalogue", "put balance", "put battle", "file"}
     /\ {} \in SUBSET Keys
  BY DEF Asked
<1>1. ASSUME NEW kind \in {"get", "preview", "put catalogue", "put balance"}, NEW arg,
             Ask(c, kind, arg, "check", {})
      PROVE  SetInv'
  BY <1>1, Asks
<1>2. CASE Get(c) \/ Preview(c)
  BY <1>1, <1>2 DEF Get, Preview
<1>3. ASSUME NEW e, PutCatalogue(c, e) PROVE SetInv'
  <2>1. PICK arg : Ask(c, "put catalogue", arg, "check", {})
    BY <1>3 DEF PutCatalogue, Edit
  <2>. QED
    BY <2>1, <1>1
<1>4. ASSUME NEW e, SaveFile(c, e) PROVE SetInv'
  <2>1. Ask(c, "file", e, "lock", ToLock) /\ Settled(node)
    BY <1>4 DEF SaveFile, Edit, SetInv
  <2>2. ToLock \in SUBSET Keys /\ \A k \in ToLock : node[k] # None
    BY DEF ToLock
  <2>. QED
    BY <2>1, <2>2, Asks
<1>5. CASE PutBalance(c, 1)
  BY <1>1, <1>5 DEF PutBalance, Edit
<1>6. CASE PutBattle(c, 1)
  <2>1. Ask(c, "put battle", 1, "act", {})
    BY <1>6 DEF PutBattle, Edit
  <2>2. 1 # None
    BY DEF SettingsAssumption
  <2>. QED
    BY <2>1, <2>2, Asks
<1>. QED
  BY <1>2, <1>3, <1>4, <1>5, <1>6 DEF NewRequest

LEMMA RequestIsNot ==
    ASSUME NEW s, Request(s)
    PROVE  s # NoRequest
<1>1. s.stage \in Stages
  BY DEF Request
<1>2. NoRequest.stage = "none"
  BY DEF NoRequest
<1>. QED
  BY <1>1, <1>2 DEF Stages

LEMMA TakesAll ==
    ASSUME SetInv, NEW c \in Admins, NEW keys \in SUBSET Keys, TakeAll(c, keys)
    PROVE  /\ Takes(c)
           /\ \A k \in keys : lock'[k] = c \/ k \in made'[c]
           /\ \A k \in Keys : lock[k] = c => lock'[k] = c
<1>1. /\ lock \in [Keys -> Admins \cup {None}] /\ made \in [Admins -> SUBSET Keys]
      /\ \A k \in keys : lock[k] \in {None, c}
      /\ lock' = [k \in Keys |-> IF k \in keys /\ node[k] # None THEN c ELSE lock[k]]
      /\ made' = [made EXCEPT ![c] = made[c] \cup {k \in keys : node[k] = None}]
  BY DEF SetInv, TakeAll, Free
<1>2. /\ made'[c] = made[c] \cup {k \in keys : node[k] = None}
      /\ made' \in [Admins -> SUBSET Keys] /\ \A d \in Admins \ {c} : made'[d] = made[d]
  BY <1>1
<1>. QED
  BY <1>1, <1>2 DEF Takes

LEMMA TakeIs ==
    ASSUME SetInv, NEW c \in Admins, NEW k \in Keys, Take(c, k)
    PROVE  /\ Takes(c)
           /\ lock'[k] = c \/ k \in made'[c]
           /\ \A i \in Keys : lock[i] = c => lock'[i] = c
<1>1. {k} \in SUBSET Keys /\ TakeAll(c, {k})
  BY DEF Take
<1>. QED
  BY <1>1, TakesAll

LEMMA TakesNothing == ASSUME SetInv, NEW c, UNCHANGED <<lock, made>> PROVE Takes(c)
BY DEF SetInv, Takes

\* A request that goes on to another stage and has not written anything more.
LEMMA Stays ==
    ASSUME SetInv, SettingsAssumption, NEW c \in Admins, NEW s, req[c] # NoRequest, ~Doomed(c),
           UNCHANGED <<node, lock, made, reviewed, acked, start>>, req' = [req EXCEPT ![c] = s],
           Request(s), s.own = req[c].own, s.kind = req[c].kind, s.arg = req[c].arg,
           Saves(s) => Saves(req[c]), Saves(req[c]) => Saves(s),
           s.stage \in {"lock", "check", "migrate"} => req[c].own = <<>>,
           req[c].kind # "put battle",
           Migrating(s), OfFile(c, s)
    PROVE  SetInv'
<1>1. s # NoRequest
  BY RequestIsNot
<1>2. Takes(c)
  BY TakesNothing
<1>3. Good(c, s)'
  <2>1. Wrote(c, req[c])
    BY DEF SetInv, Good
  <2>2. Wrote(c, s)
    BY <2>1 DEF Wrote
  <2>3. Wrote(c, s)'
    BY <2>2 DEF Wrote, WritesNew
  <2>4. Migrating(s)'
    BY DEF Migrating
  <2>5. OfFile(c, s)'
    BY DEF OfFile, Seen, Read
  <2>. QED
    BY <2>3, <2>4, <2>5 DEF Good, Request
<1>. QED
  BY <1>1, <1>2, <1>3, RequestMoves

LEMMA Checks ==
    ASSUME SetInv, SettingsAssumption, NullAssumption, NEW c \in Admins, ~Doomed(c), UNCHANGED start,
           Check(c)
    PROVE  SetInv'
<1>1. PICK r : r = req[c]
  OBVIOUS
<1>2. r # NoRequest /\ Request(r) /\ Wrote(c, r) /\ Migrating(r) /\ OfFile(c, r) /\ r.stage = "check"
  <2>1. r.stage = "check" /\ Good(c, r)
    BY <1>1 DEF Check, At, SetInv
  <2>2. NoRequest.stage = "none"
    BY DEF NoRequest
  <2>. QED
    BY <2>1, <2>2 DEF Good
<1>3. r.own = <<>> /\ View(c) = node
  <2>1. r.own = <<>>
    BY <1>2 DEF Wrote
  <2>. QED
    BY <1>1, <2>1, FirstView
<1>4. CASE Migrates(r.kind) /\ Needs(node)
  <2>1. PICK s : s = [r EXCEPT !.stage = "migrate", !.looked = node]
    OBVIOUS
  <2>2. Request(s)
    BY <1>2, <2>1 DEF Request, Stages
  <2>3. s.own = r.own /\ s.kind = r.kind /\ s.arg = r.arg /\ s.stage = "migrate" /\ s.locks = r.locks
    BY <1>2, <2>1 DEF Request
  <2>4. r.kind # "file"
    BY <1>2, <1>4, NullIsNot DEF OfFile, Settled, Needs, NewCatalogue, PlainBalance
  <2>5. Migrating(s) /\ OfFile(c, s)
    BY <1>2, <1>3, <2>3, <2>4, NothingWritten DEF Migrating, OfFile
  <2>6. ~Saves(s) /\ ~Saves(r)
    BY <1>2, <2>3 DEF Saves
  <2>7. req' = [req EXCEPT ![c] = s] /\ UNCHANGED <<node, lock, made, reviewed, acked, start>>
    BY <1>1, <1>3, <1>4, <2>1 DEF Check
  <2>8. r.kind # "put battle"
    BY <1>2 DEF Wrote
  <2>. QED
    BY <1>1, <1>2, <1>3, <2>2, <2>3, <2>5, <2>6, <2>7, <2>8, Stays
<1>5. CASE ~(Migrates(r.kind) /\ Needs(node))
  <2>1. PICK s : s = [r EXCEPT !.stage = "act"]
    OBVIOUS
  <2>2. Request(s)
    BY <1>2, <2>1 DEF Request, Stages
  <2>3. s.own = r.own /\ s.kind = r.kind /\ s.arg = r.arg /\ s.stage = "act" /\ s.locks = r.locks
    BY <1>2, <2>1 DEF Request
  <2>4. Migrates(s.kind) => Settled(node)
    BY <1>5, <2>3, NothingNeeded DEF SetInv
  <2>5. Over(s.own, node) = node
    BY <1>3, <2>3, NothingOver DEF SetInv, Databases
  <2>6. Migrating(s) /\ OfFile(c, s)
    BY <1>2, <1>3, <2>3, <2>4, <2>5, NothingWritten DEF Migrating, OfFile
  <2>7. ~Saves(s) /\ ~Saves(r)
    BY <1>2, <2>3 DEF Saves
  <2>8. req' = [req EXCEPT ![c] = s] /\ UNCHANGED <<node, lock, made, reviewed, acked, start>>
    BY <1>1, <1>3, <1>5, <2>1 DEF Check
  <2>9. r.kind # "put battle"
    BY <1>2 DEF Wrote
  <2>. QED
    BY <1>1, <1>2, <1>3, <2>2, <2>3, <2>6, <2>7, <2>8, <2>9, Stays
<1>. QED
  BY <1>4, <1>5

\* What a request in this stage is.
LEMMA RequestAt ==
    ASSUME SetInv, NEW c \in Admins, NEW r, r = req[c], ~Doomed(c), r.stage \in Stages
    PROVE  r # NoRequest /\ Request(r) /\ Wrote(c, r) /\ Migrating(r) /\ OfFile(c, r)
<1>1. Good(c, r)
  BY DEF SetInv
<1>2. NoRequest.stage = "none"
  BY DEF NoRequest
<1>. QED
  BY <1>1, <1>2 DEF Good, Stages

LEMMA LocksFile ==
    ASSUME SetInv, SettingsAssumption, NullAssumption, NEW c \in Admins, ~Doomed(c), UNCHANGED start,
           LockFile(c)
    PROVE  SetInv'
<1>1. PICK r : r = req[c]
  OBVIOUS
<1>2. r # NoRequest /\ Request(r) /\ Wrote(c, r) /\ Migrating(r) /\ OfFile(c, r) /\ r.stage = "lock"
  BY <1>1, RequestAt DEF LockFile, At, Stages
<1>3. r.own = <<>> /\ UNCHANGED <<node, reviewed, acked, start>> /\ r.locks \in SUBSET Keys
  BY <1>2 DEF Wrote, LockFile, Request
<1>4. PICK rest : rest = {k \in r.locks : lock[k] # c}
  OBVIOUS
<1>5. CASE rest = {}
  <2>1. PICK s : s = [r EXCEPT !.stage = "check"]
    OBVIOUS
  <2>2. Request(s)
    BY <1>2, <2>1 DEF Request, Stages
  <2>3. s.own = r.own /\ s.kind = r.kind /\ s.arg = r.arg /\ s.stage = "check" /\ s.locks = r.locks
    BY <1>2, <2>1 DEF Request
  <2>4. Migrating(s) /\ OfFile(c, s)
    BY <1>2, <1>3, <1>5, <1>4, <2>3, NothingWritten DEF Migrating, OfFile
  <2>5. ~Saves(s) /\ ~Saves(r)
    BY <1>2, <2>3 DEF Saves
  <2>6. req' = [req EXCEPT ![c] = s] /\ UNCHANGED <<node, lock, made, reviewed, acked, start>>
    BY <1>1, <1>5, <1>4, <2>1 DEF LockFile, SetInv
  <2>7. r.kind # "put battle"
    BY <1>2 DEF Wrote
  <2>. QED
    BY <1>1, <1>2, <1>3, <2>2, <2>3, <2>4, <2>5, <2>6, <2>7, Stays
<1>6. CASE rest # {}
  <2>1. PICK k \in rest : Take(c, k) /\ UNCHANGED req
    <3>1. \E k \in rest : \A l \in rest : Order(k) <= Order(l)
      <4>1. Order("battle") = 1 /\ Order("balance") = 2 /\ Order("catalogue") = 3
        BY DEF Order
      <4>. QED
        BY <1>3, <1>6, <1>4, <4>1 DEF Keys
    <3>2. PICK k : k = CHOOSE i \in rest : \A l \in rest : Order(i) <= Order(l)
      OBVIOUS
    <3>3. k \in rest
      BY <3>1, <3>2
    <3>. QED
      BY <1>1, <1>6, <1>4, <3>2, <3>3 DEF LockFile
  <2>2. k \in Keys
    BY <1>3, <1>4
  <2>3. Takes(c) /\ \A i \in Keys : lock[i] = c => lock'[i] = c
    BY <2>1, <2>2, TakeIs
  <2>4. Wrote(c, r)'
    BY <1>2, <1>3, NothingWritten DEF Wrote, WritesNew, Saves
  <2>5. Migrating(r)'
    BY <1>2, <1>3, NothingWritten DEF Migrating
  <2>6. OfFile(c, r)'
    BY <1>2, <1>3 DEF OfFile, Settled, NewCatalogue, PlainBalance, Document, BalanceNode
  <2>7. Good(c, r)'
    BY <1>2, <2>4, <2>5, <2>6 DEF Good, Request
  <2>8. req' = [req EXCEPT ![c] = r]
    BY <1>1, <2>1 DEF SetInv
  <2>. QED
    BY <1>2, <1>3, <2>3, <2>7, <2>8, RequestMoves
<1>. QED
  BY <1>5, <1>6

\* A request that locks a document and writes it.
LEMMA Puts ==
    ASSUME SetInv, SettingsAssumption, NEW c \in Admins, NEW r, r = req[c], ~Doomed(c), r.stage \in Stages,
           NEW k \in Keys, NEW d, Take(c, k), NEW s, Request(s), req' = [req EXCEPT ![c] = s],
           UNCHANGED <<node, reviewed, acked, start>>,
           s.own = Put(r.own, k, d), s.kind = r.kind, s.arg = r.arg,
           s.stage \notin {"lock", "check", "migrate"}, r.kind # "file",
           k = "catalogue" => NewCatalogue(d), k = "balance" => PlainBalance(d), k = "battle" => d # None,
           r.kind = "put battle" => k = "battle" /\ s.stage = "done", Saves(s) => k = "catalogue", Migrating(s)
    PROVE  SetInv'
<1>1. r # NoRequest /\ Request(r) /\ Wrote(c, r) /\ Migrating(r) /\ OfFile(c, r)
  BY RequestAt
<1>2. WritesNew(r.own) /\ \A i \in DOMAIN r.own : i \in Keys /\ (lock[i] = c \/ i \in made[c])
  BY <1>1 DEF Wrote, WritesNew
<1>3. WritesNew(s.own) /\ DOMAIN s.own = {k} \cup DOMAIN r.own
  <2>1. PICK w : w = r.own
    OBVIOUS
  <2>2. WritesNew(Put(w, k, d))
    BY <1>2, <2>1, PutWritesNew
  <2>3. DOMAIN Put(w, k, d) = {k} \cup DOMAIN w
    BY PutIs
  <2>. QED
    BY <2>1, <2>2, <2>3
<1>4. /\ Takes(c) /\ (lock'[k] = c \/ k \in made'[c])
      /\ \A i \in Keys : lock[i] = c => lock'[i] = c
  BY TakeIs
<1>5. Wrote(c, s)'
  <2>1. \A i \in DOMAIN s.own : lock'[i] = c \/ i \in made'[c]
    BY <1>2, <1>3, <1>4 DEF Takes
  <2>2. WritesNew(s.own)'
    BY <1>3 DEF WritesNew
  <2>3. Saves(s)' => "catalogue" \in DOMAIN s.own
    BY <1>3 DEF Saves
  <2>4. r.kind = "put battle" => r.arg # None /\ DOMAIN s.own \subseteq {"battle"}
    BY <1>1, <1>3 DEF Wrote
  <2>. QED
    BY <2>1, <2>2, <2>3, <2>4 DEF Wrote
<1>6. Migrating(s)' /\ OfFile(c, s)'
  BY DEF Migrating, OfFile
<1>7. Good(c, s)' /\ s # NoRequest
  BY <1>5, <1>6, RequestIsNot DEF Good, Request
<1>. QED
  BY <1>4, <1>7, RequestMoves

LEMMA MigratesCatalogue ==
    ASSUME SetInv, SettingsAssumption, NullAssumption, NEW c \in Admins, ~Doomed(c), UNCHANGED start,
           MigrateCatalogue(c)
    PROVE  SetInv'
<1>1. PICK r : r = req[c]
  OBVIOUS
<1>2. r # NoRequest /\ Request(r) /\ Wrote(c, r) /\ Migrating(r) /\ OfFile(c, r) /\ r.stage = "migrate"
  BY <1>1, RequestAt DEF MigrateCatalogue, At, Stages
<1>3. r.own = <<>> /\ r.kind # "file" /\ Take(c, "catalogue") /\ UNCHANGED <<node, reviewed, acked, start>>
  BY <1>2 DEF Wrote, OfFile, MigrateCatalogue
<1>4. SecondLook(c) = node
  BY <1>1, <1>3, FirstView DEF SecondLook
<1>5. PICK m : m = Migrated(node)
  OBVIOUS
<1>6. /\ NewCatalogue(m.catalogue)
      /\ node.balance # None => PlainBalance(m.balance)
      /\ node.balance = None => m.balance = None
      /\ node.catalogue # None /\ node.catalogue.version = 1 => m.catalogue = node.catalogue
  BY <1>5, MigratedIsNew DEF SetInv
<1>7. PICK next : next = IF m.balance = None THEN "act" ELSE "migrate balance"
  OBVIOUS
<1>8. PICK s : s = [r EXCEPT !.looked = None, !.own = Put(r.own, "catalogue", m.catalogue),
                             !.draft = m.balance, !.stage = next]
  OBVIOUS
<1>9. req' = [req EXCEPT ![c] = s]
  BY <1>1, <1>4, <1>5, <1>8, <1>7 DEF MigrateCatalogue, SetInv
<1>10. Request(s)
  BY <1>2, <1>8, <1>7 DEF Request, Stages
<1>11. /\ s.own = Put(r.own, "catalogue", m.catalogue) /\ s.kind = r.kind /\ s.arg = r.arg
       /\ s.stage = next /\ s.draft = m.balance
  BY <1>2, <1>8 DEF Request
<1>12. r.kind # "put battle"
  BY <1>2 DEF Wrote
<1>13. Migrating(s)
  <2>1. "catalogue" \in DOMAIN s.own /\ s.own["catalogue"] = m.catalogue
    BY <1>11 DEF Put, Over
  <2>2. CASE m.balance # None
    <3>1. s.stage = "migrate balance" /\ PlainBalance(s.draft)
      BY <1>6, <1>11, <1>7, <2>2
    <3>. QED
      BY <2>1, <3>1, <1>6 DEF Migrating
  <2>3. CASE m.balance = None
    <3>1. s.stage = "act" /\ node.balance = None
      BY <1>6, <1>11, <1>7, <2>3, NullIsNot
    <3>2. PICK w, d : w = r.own /\ d = m.catalogue
      OBVIOUS
    <3>3. DOMAIN Put(w, "catalogue", d) = {"catalogue"} /\ Put(w, "catalogue", d)["catalogue"] = d
      BY <1>3, <3>2, NothingWritten DEF Put, Over
    <3>4. Over(Put(w, "catalogue", d), node)
            = [k \in Keys |-> IF k \in DOMAIN Put(w, "catalogue", d) THEN Put(w, "catalogue", d)[k] ELSE node[k]]
      BY <3>3, OverIs DEF SetInv, Databases, Keys
    <3>5. Settled(Over(s.own, node))
      BY <1>6, <1>11, <3>1, <3>2, <3>3, <3>4 DEF Settled, Keys
    <3>. QED
      BY <2>1, <3>1, <3>5, <1>6 DEF Migrating
  <2>. QED
    BY <2>2, <2>3
<1>14. s.stage \in {"act", "migrate balance"}
  BY <1>11, <1>7
<1>. QED
  BY <1>1, <1>2, <1>3, <1>6, <1>9, <1>10, <1>11, <1>12, <1>13, <1>14, Puts DEF Keys, Saves, Stages

LEMMA MigratesBalance ==
    ASSUME SetInv, SettingsAssumption, NullAssumption, NEW c \in Admins, ~Doomed(c), UNCHANGED start,
           MigrateBalance(c)
    PROVE  SetInv'
<1>1. PICK r : r = req[c]
  OBVIOUS
<1>2. r # NoRequest /\ Request(r) /\ Wrote(c, r) /\ Migrating(r) /\ OfFile(c, r) /\ r.stage = "migrate balance"
  BY <1>1, RequestAt DEF MigrateBalance, At, Stages
<1>3. /\ r.kind # "file" /\ r.kind # "put battle" /\ Take(c, "balance") /\ UNCHANGED <<node, reviewed, acked, start>>
      /\ "catalogue" \in DOMAIN r.own /\ PlainBalance(r.draft) /\ WritesNew(r.own)
  BY <1>2 DEF Wrote, OfFile, Migrating, MigrateBalance
<1>4. PICK s : s = [r EXCEPT !.own = Put(r.own, "balance", r.draft), !.stage = "act"]
  OBVIOUS
<1>5. req' = [req EXCEPT ![c] = s]
  BY <1>1, <1>4 DEF MigrateBalance, SetInv
<1>6. Request(s)
  BY <1>2, <1>4 DEF Request, Stages
<1>7. /\ s.own = Put(r.own, "balance", r.draft) /\ s.kind = r.kind /\ s.arg = r.arg /\ s.stage = "act"
  BY <1>2, <1>4 DEF Request
<1>8. Migrating(s)
  <2>1. PICK w, d : w = r.own /\ d = r.draft
    OBVIOUS
  <2>2. Settled(Over(Put(w, "balance", d), node))
    BY <1>3, <2>1, SettledPut DEF SetInv, Databases, Keys
  <2>3. /\ DOMAIN Put(w, "balance", d) = {"balance"} \cup DOMAIN w
        /\ "catalogue" \in DOMAIN w => Put(w, "balance", d)["catalogue"] = w["catalogue"]
    BY DEF Put, Over
  <2>4. ~Saves(r)
    BY <1>2 DEF Saves
  <2>. QED
    BY <1>2, <1>7, <2>1, <2>2, <2>3, <2>4 DEF Migrating
<1>. QED
  BY <1>1, <1>2, <1>3, <1>5, <1>6, <1>7, <1>8, Puts DEF Keys, Saves, Stages

LEMMA Shows ==
    ASSUME SetInv, SettingsAssumption, NullAssumption, NEW c \in Admins, ~Doomed(c), UNCHANGED start,
           Show(c)
    PROVE  SetInv'
<1>1. PICK r : r = req[c]
  OBVIOUS
<1>2. r # NoRequest /\ Request(r) /\ Wrote(c, r) /\ Migrating(r) /\ OfFile(c, r) /\ r.stage = "act"
  BY <1>1, RequestAt DEF Show, At, Stages
<1>3. r.kind \in {"get", "preview"}
  BY <1>1 DEF Show
<1>4. PICK s : /\ s = [r EXCEPT !.stage = "done", !.shown = Seen(View(c))] \/ s = [r EXCEPT !.stage = "failed"]
               /\ req' = [req EXCEPT ![c] = s] /\ UNCHANGED <<node, lock, made, reviewed, acked, start>>
  BY <1>1 DEF Show, SetInv
<1>5. Request(s)
  BY <1>2, <1>4 DEF Request, Stages
<1>6. s.own = r.own /\ s.kind = r.kind /\ s.arg = r.arg /\ s.stage \in {"done", "failed"}
  BY <1>2, <1>4 DEF Request
<1>7. ~Saves(s) /\ ~Saves(r)
  BY <1>2, <1>3, <1>6 DEF Saves
<1>8. Migrating(s) /\ OfFile(c, s)
  BY <1>2, <1>3, <1>6, <1>7 DEF Migrating, OfFile
<1>9. req' = [req EXCEPT ![c] = s] /\ UNCHANGED <<node, lock, made, reviewed, acked, start>> /\ r.kind # "put battle"
  BY <1>3, <1>4
<1>. QED
  BY <1>1, <1>2, <1>5, <1>6, <1>7, <1>8, <1>9, Stays

LEMMA SavesOne ==
    ASSUME SetInv, SettingsAssumption, NullAssumption, NEW c \in Admins, ~Doomed(c), UNCHANGED start,
           Save(c)
    PROVE  SetInv'
<1>1. PICK r : r = req[c]
  OBVIOUS
<1>2. r # NoRequest /\ Request(r) /\ Wrote(c, r) /\ Migrating(r) /\ OfFile(c, r) /\ r.stage = "act"
  BY <1>1, RequestAt DEF Save, At, Stages
<1>3. PICK k, d :
        /\ \/ r.kind = "put catalogue" /\ k = "catalogue" /\ d = Stored(r.arg)
           \/ r.kind = "put balance" /\ k = "balance" /\ d = NewBalance(r.arg)
           \/ r.kind = "put battle" /\ k = "battle" /\ d = r.arg
        /\ Overwrite(c, k, d) /\ UNCHANGED <<node, reviewed, acked, start>>
  BY <1>1 DEF Save
<1>4. /\ k = "catalogue" => NewCatalogue(d) /\ r.kind = "put catalogue"
      /\ k = "balance" => PlainBalance(d) /\ r.kind = "put balance"
      /\ k = "battle" => d # None /\ r.kind = "put battle"
      /\ k \in Keys /\ r.kind # "file" /\ (r.kind = "put catalogue" => k = "catalogue")
      /\ (r.kind = "put battle" => k = "battle")
  <2>1. NewCatalogue(Stored(r.arg)) /\ PlainBalance(NewBalance(r.arg))
    BY StoredIsNew DEF NewBalance, PlainBalance, BalanceNode
  <2>. QED
    BY <1>2, <1>3, <2>1 DEF Wrote, Keys
<1>5. PICK s : s = [r EXCEPT !.own = Put(r.own, k, d), !.stage = "done"]
  OBVIOUS
<1>6. req' = [req EXCEPT ![c] = s] /\ Take(c, k) /\ UNCHANGED <<node, reviewed, acked, start>>
  BY <1>1, <1>3, <1>5 DEF Overwrite, SetInv
<1>7. Request(s)
  BY <1>2, <1>5 DEF Request, Stages
<1>8. /\ s.own = Put(r.own, k, d) /\ s.kind = r.kind /\ s.arg = r.arg /\ s.stage = "done"
  BY <1>2, <1>5 DEF Request
<1>9. Migrating(s)
  <2>1. PICK w : w = r.own
    OBVIOUS
  <2>2. WritesNew(w)
    BY <1>2, <2>1 DEF Wrote
  <2>3. Settled(Over(w, node)) => Settled(Over(Put(w, k, d), node))
    BY <1>4, <2>2, SettledPut DEF SetInv, Databases
  <2>4. /\ DOMAIN Put(w, k, d) = {k} \cup DOMAIN w
        /\ k # "catalogue" /\ "catalogue" \in DOMAIN w => Put(w, k, d)["catalogue"] = w["catalogue"]
    BY DEF Put, Over
  <2>5. ~Saves(r) /\ (Saves(s) <=> k = "catalogue")
    BY <1>2, <1>4, <1>8 DEF Saves
  <2>6. /\ "catalogue" \in DOMAIN w /\ node.catalogue # None /\ node.catalogue.version = 1
             => w["catalogue"] = node.catalogue
        /\ Migrates(r.kind) => Settled(Over(w, node))
    BY <1>2, <2>1, <2>5 DEF Migrating
  <2>. QED
    BY <1>4, <1>8, <2>1, <2>3, <2>4, <2>5, <2>6 DEF Migrating
<1>10. Saves(s) => k = "catalogue"
  BY <1>4, <1>8 DEF Saves
<1>. QED
  BY <1>1, <1>2, <1>4, <1>6, <1>7, <1>8, <1>9, <1>10, Puts DEF Stages

LEMMA ChecksFile ==
    ASSUME SetInv, SettingsAssumption, NullAssumption, NEW c \in Admins, ~Doomed(c), UNCHANGED start,
           CheckFile(c)
    PROVE  SetInv'
<1>1. PICK r : r = req[c]
  OBVIOUS
<1>2. r # NoRequest /\ Request(r) /\ Wrote(c, r) /\ Migrating(r) /\ OfFile(c, r) /\ r.stage = "act"
  BY <1>1, RequestAt DEF CheckFile, At, Stages
<1>3. /\ r.kind = "file" /\ r.own = <<>> /\ Settled(node)
      /\ \A k \in r.locks : k \in Keys /\ node[k] # None /\ lock[k] = c
      /\ View(c) = node
  <2>1. r.kind = "file" /\ r.own = <<>>
    BY <1>1, <1>2 DEF CheckFile, OfFile
  <2>. QED
    BY <1>1, <1>2, <2>1, FirstView DEF OfFile
<1>4. PICK now, doc : now = Seen(node) /\ doc = Merged(now.catalogue, r.arg.catalogue)
  OBVIOUS
<1>5. PICK draft : draft = [catalogue |-> Stored(Read(doc)),
                            balance |-> NewBalance(r.arg.balance), battle |-> now.battle]
  OBVIOUS
<1>6. DOMAIN draft = Keys /\ WritesNew(draft)
  <2>1. now.battle # None
    BY <1>4 DEF SettingsAssumption, Seen
  <2>2. NewCatalogue(Stored(Read(doc))) /\ PlainBalance(NewBalance(r.arg.balance))
    BY StoredIsNew DEF NewBalance, PlainBalance, BalanceNode
  <2>3. DOMAIN draft = Keys /\ draft = [k \in Keys |-> draft[k]]
    BY <1>5 DEF Keys
  <2>. QED
    BY <1>5, <2>1, <2>2, <2>3 DEF WritesNew
<1>7. PICK s : /\ \/ s = [r EXCEPT !.stage = "write", !.draft = draft] /\ now = reviewed[c]
                  \/ s = [r EXCEPT !.stage = "failed"]
               /\ req' = [req EXCEPT ![c] = s] /\ UNCHANGED <<node, lock, made, reviewed, acked, start>>
  BY <1>1, <1>3, <1>4, <1>5 DEF CheckFile, SetInv
<1>8. Request(s)
  BY <1>2, <1>7 DEF Request, Stages
<1>9. /\ s.own = r.own /\ s.kind = r.kind /\ s.arg = r.arg /\ s.locks = r.locks
      /\ s.stage = "failed" \/ (s.stage = "write" /\ s.draft = draft /\ Seen(node) = reviewed[c])
  BY <1>2, <1>4, <1>7 DEF Request
<1>10. ~Saves(s) /\ ~Saves(r)
  BY <1>2, <1>9 DEF Saves
<1>11. Migrating(s) /\ OfFile(c, s)
  <2>1. Migrating(s)
    BY <1>2, <1>3, <1>9, NothingWritten DEF Migrating
  <2>2. OfFile(c, s)
    BY <1>3, <1>6, <1>9 DEF OfFile
  <2>. QED
    BY <2>1, <2>2
<1>12. req' = [req EXCEPT ![c] = s] /\ UNCHANGED <<node, lock, made, reviewed, acked, start>> /\ r.kind # "put battle"
  BY <1>3, <1>7
<1>. QED
  BY <1>1, <1>2, <1>8, <1>9, <1>10, <1>11, <1>12, Stays

LEMMA WritesFile ==
    ASSUME SetInv, SettingsAssumption, NullAssumption, NEW c \in Admins, ~Doomed(c), UNCHANGED start,
           WriteFile(c)
    PROVE  SetInv'
<1>1. PICK r : r = req[c]
  OBVIOUS
<1>2. r # NoRequest /\ Request(r) /\ Wrote(c, r) /\ Migrating(r) /\ OfFile(c, r) /\ r.stage = "write"
  BY <1>1, RequestAt DEF WriteFile, At, Stages
<1>3. PICK s : s = [r EXCEPT !.own = r.draft, !.stage = "done"]
  OBVIOUS
<1>4. /\ req' = [req EXCEPT ![c] = s] /\ UNCHANGED <<node, reviewed, acked, start>>
      /\ Takes(c) /\ \A k \in Keys : (lock'[k] = c \/ k \in made'[c]) /\ (lock[k] = c => lock'[k] = c)
  <2>1. TakeAll(c, Keys) /\ Keys \in SUBSET Keys
    BY DEF WriteFile
  <2>. QED
    BY <1>1, <1>3, <2>1, TakesAll DEF WriteFile, SetInv
<1>5. Request(s)
  BY <1>2, <1>3 DEF Request, Stages
<1>6. /\ s.own = r.draft /\ s.kind = r.kind /\ s.arg = r.arg /\ s.stage = "done"
  BY <1>2, <1>3 DEF Request
<1>7. s.locks = r.locks
  BY <1>2, <1>3 DEF Request
<1>8. r.kind # "put battle"
  BY <1>2 DEF Wrote
<1>9. /\ r.kind = "file" /\ Settled(node)
      /\ \A k \in r.locks : k \in Keys /\ node[k] # None /\ lock[k] = c /\ Seen(node)[k] = reviewed[c][k]
      /\ DOMAIN r.draft = Keys /\ WritesNew(r.draft)
  BY <1>2 DEF Migrating, OfFile
<1>10. Saves(s) /\ "catalogue" \in DOMAIN s.own /\ WritesNew(s.own)
  BY <1>6, <1>9 DEF Saves, Keys
<1>11. Good(c, s)'
  <2>1. Wrote(c, s)'
    BY <1>4, <1>6, <1>9, <1>10 DEF Wrote, WritesNew
  <2>2. Migrating(s)'
    <3>1. Settled(Over(s.own, node))
      BY <1>9, <1>10, SettledStays DEF SetInv, Databases
    <3>. QED
      BY <1>4, <1>6, <1>10, <3>1 DEF Migrating, Saves
  <2>3. OfFile(c, s)'
    BY <1>4, <1>6, <1>9, <1>7 DEF OfFile, Seen, Read, Settled, NewCatalogue, PlainBalance, Document, BalanceNode
  <2>. QED
    BY <1>5, <2>1, <2>2, <2>3 DEF Good, Request
<1>12. s # NoRequest
  BY <1>5, RequestIsNot
<1>. QED
  BY <1>4, <1>11, <1>12, RequestMoves

LEMMA Commits ==
    ASSUME SetInv, SettingsAssumption, NullAssumption, NEW c \in Admins, ~Doomed(c), UNCHANGED start,
           CommitSettings(c)
    PROVE  SetInv'
<1>1. PICK r : r = req[c]
  OBVIOUS
<1>2. r # NoRequest /\ Request(r) /\ Wrote(c, r) /\ Migrating(r) /\ OfFile(c, r) /\ r.stage = "done"
  BY <1>1, RequestAt DEF CommitSettings, At, Stages
<1>3. PICK w : w = r.own
  OBVIOUS
<1>4. WritesNew(w) /\ \A k \in DOMAIN w : lock[k] = c \/ node[k] = None
  BY <1>2, <1>3 DEF Wrote, Doomed
<1>5. node' = Over(w, node) /\ Ended(c)
  BY <1>1, <1>3 DEF CommitSettings, View
<1>6. node' = [k \in Keys |-> IF k \in DOMAIN w THEN w[k] ELSE node[k]]
  BY <1>4, <1>5, OverIs DEF SetInv, Databases, WritesNew
<1>7. (Settled(node) => Settled(node')) /\ (Migrates(r.kind) => Settled(node'))
  BY <1>2, <1>3, <1>4, <1>5, SettledStays DEF SetInv, Databases, Migrating
<1>8. /\ reviewed' = [d \in Admins |-> reviewed'[d]]
      /\ \A d \in Admins \ {c} : reviewed'[d] = reviewed[d]
      /\ reviewed'[c] # None => Settled(node')
  <2>1. reviewed' = [reviewed EXCEPT ![c] = IF r.kind = "preview" THEN r.shown
                                            ELSE IF r.kind = "file" THEN None ELSE reviewed[c]]
    BY <1>1 DEF CommitSettings
  <2>2. reviewed[c] # None => Settled(node)
    BY DEF SetInv
  <2>. QED
    BY <1>7, <2>1, <2>2 DEF SetInv, Migrates
<1>9. acked' # None => node'.catalogue = acked' /\ NewCatalogue(acked')
  <2>1. CASE Saves(r)
    <3>1. acked' = w["catalogue"] /\ "catalogue" \in DOMAIN w
      BY <1>1, <1>2, <1>3, <2>1 DEF CommitSettings, Saves, Wrote
    <3>. QED
      BY <1>4, <1>6, <3>1 DEF WritesNew, Keys
  <2>2. CASE ~Saves(r)
    <3>1. acked' = acked
      BY <1>1, <1>2, <2>2 DEF CommitSettings, Saves
    <3>2. acked # None => node.catalogue = acked /\ NewCatalogue(acked)
      BY DEF SetInv
    <3>3. acked # None /\ "catalogue" \in DOMAIN w => w["catalogue"] = node.catalogue
      BY <1>2, <1>3, <2>2, <3>2, NullIsNot DEF Migrating, NewCatalogue
    <3>. QED
      BY <1>6, <3>1, <3>2, <3>3 DEF Keys
  <2>. QED
    BY <2>1, <2>2
<1>. QED
  BY <1>4, <1>5, <1>8, <1>9, RequestEnds

LEMMA Aborts ==
    ASSUME SetInv, SettingsAssumption, NullAssumption, NEW c \in Admins, UNCHANGED start, Abort(c)
    PROVE  SetInv'
<1>1. PICK w : w = <<>>
  OBVIOUS
<1>2. WritesNew(w) /\ DOMAIN w = {} /\ Over(w, node) = node
  BY <1>1, NothingWritten, NothingOver DEF SetInv, Databases
<1>3. /\ node' = Over(w, node) /\ Ended(c)
      /\ UNCHANGED <<node, reviewed, acked, start>>
  BY <1>2 DEF Abort
<1>4. /\ reviewed' = [d \in Admins |-> reviewed'[d]]
      /\ \A d \in Admins \ {c} : reviewed'[d] = reviewed[d]
      /\ reviewed'[c] # None => Settled(node')
      /\ acked' # None => node'.catalogue = acked' /\ NewCatalogue(acked')
  BY <1>3 DEF SetInv, Settled
<1>5. \A k \in DOMAIN w : lock[k] = c \/ node[k] = None
  BY <1>2
<1>. QED
  BY <1>2, <1>3, <1>4, <1>5, RequestEnds

LEMMA SettingsBegin ==
    ASSUME SInit, SettingsAssumption
    PROVE  SetInv
<1>1. \A c \in Admins : req[c] = NoRequest /\ reviewed[c] = None
  BY DEF SInit
<1>2. (\A k \in Keys : lock[k] = None) /\ \A c \in Admins : made[c] = {}
  BY DEF SInit
<1>. QED
  BY <1>1, <1>2 DEF SInit, SetInv, Good, SettingsAssumption

\* A request goes on, doomed or not, and takes what is free.
Going(c) ==
    \/ LockFile(c) \/ Check(c) \/ MigrateCatalogue(c) \/ MigrateBalance(c)
    \/ Show(c) \/ Save(c) \/ CheckFile(c) \/ WriteFile(c)
LEMMA Goes ==
    ASSUME SetInv, NEW c \in Admins, Going(c)
    PROVE  /\ Takes(c) /\ UNCHANGED <<node, reviewed, acked>>
           /\ \E s : Request(s) /\ req' = [req EXCEPT ![c] = s]
<1>1. PICK r : r = req[c]
  OBVIOUS
<1>2. r.stage \in Stages
  BY <1>1 DEF Going, LockFile, Check, MigrateCatalogue, MigrateBalance, Show, Save, CheckFile, WriteFile,
              At, Stages
<1>3. Request(r)
  <2>1. Good(c, r)
    BY <1>1 DEF SetInv
  <2>2. NoRequest.stage = "none"
    BY DEF NoRequest
  <2>. QED
    BY <1>2, <2>1, <2>2 DEF Good, Stages
<1>4. /\ \A stage \in Stages : Request([r EXCEPT !.stage = stage])
      /\ \A stage \in Stages : \A x : Request([r EXCEPT !.stage = stage, !.looked = x])
      /\ \A stage \in Stages : \A x : Request([r EXCEPT !.stage = stage, !.shown = x])
      /\ \A stage \in Stages : \A x : Request([r EXCEPT !.stage = stage, !.draft = x])
      /\ \A stage \in Stages : \A x : Request([r EXCEPT !.own = x, !.stage = stage])
      /\ \A stage \in Stages : \A x, y : Request([r EXCEPT !.looked = None, !.own = x, !.draft = y, !.stage = stage])
  BY <1>3 DEF Request
<1>5. req = [d \in Admins |-> req[d]] /\ Keys \in SUBSET Keys
  BY DEF SetInv
<1>6. CASE LockFile(c)
  <2>1. PICK rest : rest = {k \in r.locks : lock[k] # c} /\ rest \subseteq Keys
    BY <1>3 DEF Request
  <2>2. CASE rest = {}
    <3>1. req' = [req EXCEPT ![c] = [r EXCEPT !.stage = "check"]] /\ UNCHANGED <<lock, made>>
      BY <1>1, <1>6, <2>1, <2>2 DEF LockFile
    <3>. QED
      BY <1>4, <1>6, <3>1, TakesNothing DEF LockFile, Stages
  <2>3. CASE rest # {}
    <3>1. PICK k : k = CHOOSE i \in rest : \A l \in rest : Order(i) <= Order(l)
      OBVIOUS
    <3>2. k \in rest
      <4>1. Order("battle") = 1 /\ Order("balance") = 2 /\ Order("catalogue") = 3
        BY DEF Order
      <4>2. \E i \in rest : \A l \in rest : Order(i) <= Order(l)
        BY <2>1, <2>3, <4>1 DEF Keys
      <4>. QED
        BY <3>1, <4>2
    <3>3. Take(c, k) /\ UNCHANGED req
      BY <1>1, <1>6, <2>1, <2>3, <3>1 DEF LockFile
    <3>4. req' = [req EXCEPT ![c] = r]
      BY <1>1, <1>5, <3>3
    <3>. QED
      BY <1>3, <1>6, <2>1, <3>2, <3>3, <3>4, TakeIs DEF LockFile
  <2>. QED
    BY <2>2, <2>3
<1>7. CASE Check(c)
  <2>1. \/ req' = [req EXCEPT ![c] = [r EXCEPT !.stage = "migrate", !.looked = View(c)]]
        \/ req' = [req EXCEPT ![c] = [r EXCEPT !.stage = "act"]]
    BY <1>1, <1>5, <1>7 DEF Check
  <2>. QED
    BY <1>4, <1>7, <2>1, TakesNothing DEF Check, Stages
<1>8. CASE MigrateCatalogue(c)
  <2>1. PICK m, stage :
          /\ stage \in {"act", "migrate balance"}
          /\ req' = [req EXCEPT ![c] = [r EXCEPT !.looked = None, !.own = Put(r.own, "catalogue", m.catalogue),
                                                !.draft = m.balance, !.stage = stage]]
    <3>1. PICK m, stage : m = Migrated(SecondLook(c)) /\ stage = IF m.balance = None THEN "act" ELSE "migrate balance"
      OBVIOUS
    <3>. QED
      BY <1>1, <1>5, <1>8, <3>1 DEF MigrateCatalogue
  <2>. QED
    BY <1>4, <1>8, <2>1, TakeIs DEF MigrateCatalogue, Stages, Keys
<1>9. CASE MigrateBalance(c)
  <2>1. req' = [req EXCEPT ![c] = [r EXCEPT !.own = Put(r.own, "balance", r.draft), !.stage = "act"]]
    BY <1>1, <1>5, <1>9 DEF MigrateBalance
  <2>. QED
    BY <1>4, <1>9, <2>1, TakeIs DEF MigrateBalance, Stages, Keys
<1>10. CASE Show(c)
  <2>1. \/ req' = [req EXCEPT ![c] = [r EXCEPT !.stage = "done", !.shown = Seen(View(c))]]
        \/ req' = [req EXCEPT ![c] = [r EXCEPT !.stage = "failed"]]
    BY <1>1, <1>5, <1>10 DEF Show
  <2>. QED
    BY <1>4, <1>10, <2>1, TakesNothing DEF Show, Stages
<1>11. CASE Save(c)
  <2>1. PICK k \in Keys, d \in {Stored(r.arg), NewBalance(r.arg), r.arg} : Overwrite(c, k, d)
    BY <1>1, <1>11 DEF Save, Keys
  <2>2. req' = [req EXCEPT ![c] = [r EXCEPT !.own = Put(r.own, k, d), !.stage = "done"]]
    BY <1>1, <1>5, <2>1 DEF Overwrite
  <2>. QED
    BY <1>4, <1>11, <2>1, <2>2, TakeIs DEF Save, Overwrite, Stages
<1>12. CASE CheckFile(c)
  <2>1. \/ \E x : req' = [req EXCEPT ![c] = [r EXCEPT !.stage = "write", !.draft = x]]
        \/ req' = [req EXCEPT ![c] = [r EXCEPT !.stage = "failed"]]
    <3>1. PICK x : x = LET now == Seen(View(c))
                           doc == Merged(now.catalogue, r.arg.catalogue)
                       IN [catalogue |-> Stored(Read(doc)), balance |-> NewBalance(r.arg.balance),
                           battle |-> now.battle]
      OBVIOUS
    <3>2. \/ req' = [req EXCEPT ![c] = [r EXCEPT !.stage = "write", !.draft = x]]
          \/ req' = [req EXCEPT ![c] = [r EXCEPT !.stage = "failed"]]
      BY <1>1, <1>5, <1>12, <3>1 DEF CheckFile
    <3>. QED
      BY <3>2
  <2>. QED
    BY <1>4, <1>12, <2>1, TakesNothing DEF CheckFile, Stages
<1>13. CASE WriteFile(c)
  <2>1. req' = [req EXCEPT ![c] = [r EXCEPT !.own = r.draft, !.stage = "done"]]
    BY <1>1, <1>5, <1>13 DEF WriteFile
  <2>. QED
    BY <1>4, <1>5, <1>13, <2>1, TakesAll DEF WriteFile, Stages
<1>. QED
  BY <1>6, <1>7, <1>8, <1>9, <1>10, <1>11, <1>12, <1>13 DEF Going

LEMMA DoomedWorks ==
    ASSUME SetInv, SettingsAssumption, NullAssumption, NEW c \in Admins, Doomed(c), Work(c), UNCHANGED start
    PROVE  SetInv'
<1>1. CASE Abort(c)
  BY <1>1, Aborts
<1>2. CASE Going(c)
  <2>1. Takes(c) /\ UNCHANGED <<node, reviewed, acked>>
    BY <1>2, Goes
  <2>2. PICK s : Request(s) /\ req' = [req EXCEPT ![c] = s]
    BY <1>2, Goes
  <2>3. Doomed(c)'
    BY <2>1 DEF Doomed, Takes
  <2>. QED
    BY <2>1, <2>2, <2>3, RequestIsNot, RequestMoves DEF Good, Request
<1>. QED
  BY <1>1, <1>2 DEF Work, Going

LEMMA SettingsKept ==
    ASSUME SetInv, doubled = {}, [SNext]_svars, doubled' = {}, SettingsAssumption, NullAssumption
    PROVE  SetInv'
<1>1. ASSUME NEW c \in Admins, Work(c), UNCHANGED start PROVE SetInv'
  BY <1>1, LocksFile, Checks, MigratesCatalogue, MigratesBalance, Shows, SavesOne, ChecksFile,
     WritesFile, Aborts, DoomedWorks DEF Work
<1>2. ASSUME NEW c \in Admins, NewRequest(c), UNCHANGED start PROVE SetInv'
  BY <1>2, Arrives
<1>3. ASSUME NEW c \in Admins, CommitSettings(c), UNCHANGED start PROVE SetInv'
  <2>1. ~Doomed(c)
    BY <1>3 DEF CommitSettings, Twins, Doomed
  <2>. QED
    BY <1>3, <2>1, Commits
<1>4. CASE UNCHANGED svars
  <2>1. UNCHANGED <<node, lock, made, req, reviewed, acked, start>>
    BY <1>4 DEF svars
  <2>2. ASSUME NEW c \in Admins PROVE Good(c, req[c])'
    <3>1. PICK r : r = req[c] /\ r = req'[c] /\ Good(c, r)
      BY <2>1 DEF SetInv
    <3>2. Doomed(c) => Doomed(c)'
      BY <2>1 DEF Doomed
    <3>3. ASSUME r # NoRequest, ~Doomed(c) PROVE Wrote(c, r)' /\ Migrating(r)' /\ OfFile(c, r)'
      <4>1. Wrote(c, r) /\ Migrating(r) /\ OfFile(c, r)
        BY <3>1, <3>3 DEF Good
      <4>2. Wrote(c, r)'
        BY <2>1, <4>1 DEF Wrote, WritesNew
      <4>3. Migrating(r)'
        BY <2>1, <4>1 DEF Migrating
      <4>4. OfFile(c, r)'
        BY <2>1, <4>1 DEF OfFile, Seen, Read
      <4>. QED
        BY <4>2, <4>3, <4>4
    <3>. QED
      BY <3>1, <3>2, <3>3 DEF Good, Request
  <2>. QED
    BY <2>1, <2>2 DEF SetInv
<1>. QED
  BY <1>1, <1>2, <1>3, <1>4 DEF SNext

\* Only what was not stored at first is made twice.
LEMMA StaysAlone ==
    ASSUME SetInv, doubled = {}, [SNext]_svars
    PROVE  Alone'
<1>1. ASSUME NEW c \in Admins, CommitSettings(c), UNCHANGED start PROVE Alone'
  <2>1. node' = View(c) /\ doubled' = Twins(c)
    BY <1>1 DEF CommitSettings
  <2>2. CASE req[c] = NoRequest
    BY <1>1, <2>2 DEF CommitSettings, At, NoRequest
  <2>. QED
    BY <1>1, <2>1 DEF Twins, Alone, SetInv
<1>. QED
  BY <1>1 DEF SNext, svars, Alone

SettingsInv == Alone /\ (doubled = {} => SetInv)
LEMMA SettingsStep ==
    ASSUME SettingsInv, [SNext]_svars, SettingsAssumption, NullAssumption
    PROVE  SettingsInv'
<1>1. CASE doubled = {}
  BY <1>1, SettingsKept, StaysAlone DEF SettingsInv
<1>2. CASE doubled # {}
  <2>1. UNCHANGED svars
    BY <1>2 DEF SNext
  <2>. QED
    BY <1>2, <2>1 DEF svars, SettingsInv, Alone
<1>. QED
  BY <1>1, <1>2

\* Only a request that goes on holds a lock, and a migration never replaces a
\* catalogue that was saved, until a document is double.
THEOREM CatalogueIsKept ==
    ASSUME SettingsAssumption, NullAssumption
    PROVE  SSpec => [](Alone /\ (doubled = {} => SettingsTypeOK /\ CatalogueKept))
<1>1. SetInv => SettingsTypeOK /\ CatalogueKept
  <2>. SUFFICES ASSUME SetInv PROVE SettingsTypeOK /\ CatalogueKept
    OBVIOUS
  <2>1. NoRequest.own = <<>>
    BY DEF NoRequest
  <2>2. ASSUME NEW c \in Admins, Twins(c) = {} PROVE \A k \in DOMAIN req[c].own : lock[k] = c \/ k \in made[c]
    <3>1. PICK r : r = req[c] /\ Good(c, r) /\ ~Doomed(c)
      BY <2>2 DEF SetInv, Twins, Doomed
    <3>2. \A k \in DOMAIN r.own : lock[k] = c \/ k \in made[c]
      BY <2>1, <3>1, NothingWritten DEF Good, Wrote
    <3>. QED
      BY <3>1, <3>2
  <2>. QED
    BY <2>2 DEF SetInv, SettingsTypeOK, CatalogueKept
<1>2. SInit => SettingsInv
  BY SettingsBegin DEF SInit, SettingsInv, Alone
<1>3. SettingsInv => Alone /\ (doubled = {} => SettingsTypeOK /\ CatalogueKept)
  BY <1>1 DEF SettingsInv
<1>. QED
  BY <1>2, <1>3, SettingsStep, PTL DEF SSpec

\* A file is saved over the settings its administrator was shown.
THEOREM FileIsAsReviewed ==
    ASSUME SettingsAssumption, NullAssumption
    PROVE  SSpec => FileSavedAsReviewed
<1>1. SettingsInv /\ [SNext]_svars => [SavedAsReviewed]_svars
  <2>. SUFFICES ASSUME SettingsInv, [SNext]_svars, NEW c \in Admins, NEW k \in req[c].locks,
                       At(c, "done"), req[c].kind = "file", req'[c] = NoRequest, node' # node, doubled' = {}
                PROVE  Seen(node)[k] = reviewed[c][k]
    BY DEF SavedAsReviewed
  <2>1. PICK r : r = req[c]
    OBVIOUS
  <2>2. r.stage = "done" /\ r.kind = "file" /\ doubled = {} /\ SetInv
    BY <2>1 DEF At, SNext, svars, SettingsInv
  <2>3. CommitSettings(c)
    <3>1. \A d \in Admins : NewRequest(d) \/ Work(d) => UNCHANGED node
      BY DEF NewRequest, Get, Preview, PutCatalogue, PutBalance, PutBattle, SaveFile, Edit, Ask, Work, LockFile,
             Check, MigrateCatalogue, MigrateBalance, Show, Save, CheckFile, WriteFile, Abort
    <3>2. PICK d \in Admins : CommitSettings(d)
      BY <2>2, <3>1 DEF SNext, svars
    <3>3. d # c => req'[c] = r
      BY <2>1, <2>2, <3>2 DEF CommitSettings, Ended, SetInv
    <3>4. r # NoRequest
      BY <2>2 DEF NoRequest
    <3>. QED
      BY <3>2, <3>3, <3>4
  <2>4. ~Doomed(c)
    BY <2>3 DEF CommitSettings, Twins, Doomed
  <2>5. OfFile(c, r)
    BY <2>1, <2>2, <2>4, RequestAt DEF Stages
  <2>. QED
    BY <2>1, <2>2, <2>5 DEF OfFile
<1>2. SInit => SettingsInv
  BY SettingsBegin DEF SInit, SettingsInv, Alone
<1>. QED
  BY <1>1, <1>2, SettingsStep, PTL DEF SSpec, FileSavedAsReviewed

---------------------------------------------------------------------------
(* The settings: the power of the built-in bosses.                                *)

\* Reading, merging and storing keep the power of an enemy.
LEMMA EnemiesRead ==
    ASSUME NEW d, Document(d)
    PROVE  Read(d).enemies = [e \in DOMAIN d.enemies |-> Without(d.enemies[e], Rejected(d))]
<1>1. PICK rejected : rejected = Rejected(d)
  OBVIOUS
<1>2. Supported(d).enemies = [e \in DOMAIN d.enemies |-> Without(d.enemies[e], rejected)]
  BY <1>1 DEF Supported, Document
<1>3. Read(d).enemies = Supported(d).enemies
  BY DEF Read, Catalogue
<1>. QED
  BY <1>1, <1>2, <1>3

LEMMA WithoutKeeps ==
    ASSUME NEW enemy, NEW rejected, {"boss", "power"} \subseteq DOMAIN enemy
    PROVE  /\ {"boss", "power"} \subseteq DOMAIN Without(enemy, rejected)
           /\ Without(enemy, rejected).boss = enemy.boss
           /\ Without(enemy, rejected).power = enemy.power
BY DEF Without

LEMMA TookRead ==
    ASSUME NEW d, Document(d), TookIn(d.enemies)
    PROVE  TookIn(Read(d).enemies)
<1>1. PICK old, rejected : old = d.enemies /\ rejected = Rejected(d)
  OBVIOUS
<1>2. PICK new : new = Read(d).enemies
  OBVIOUS
<1>3. DOMAIN new = DOMAIN old /\ \A e \in DOMAIN old : new[e] = Without(old[e], rejected)
  BY <1>1, <1>2, EnemiesRead
<1>4. TookIn(old)
  BY <1>1
<1>5. TookIn(new)
  <2>. SUFFICES ASSUME NEW e \in DOMAIN First(start).enemies
       PROVE  /\ e \in DOMAIN new /\ {"boss", "power"} \subseteq DOMAIN new[e]
              /\ new[e].boss = First(start).enemies[e].boss /\ new[e].power = DuePower(e)
    BY DEF TookIn
  <2>1. PICK x, y : x = old[e] /\ y = new[e] /\ y = Without(x, rejected)
    BY <1>3, <1>4 DEF TookIn
  <2>2. e \in DOMAIN old /\ {"boss", "power"} \subseteq DOMAIN x /\ x.boss = First(start).enemies[e].boss
        /\ x.power = DuePower(e)
    BY <1>4, <2>1 DEF TookIn
  <2>. QED
    BY <1>3, <2>1, <2>2, WithoutKeeps
<1>. QED
  BY <1>5, <1>2

LEMMA PowersStored ==
    ASSUME NEW cat
    PROVE  Stored(cat).enemies = cat.enemies /\ Document(Stored(cat))
BY DEF Stored, Document

\* An edit adds enemies beside the built-in ones.
LEMMA TookMerged ==
    ASSUME NEW cat, NEW patch, TookIn(cat.enemies),
           "enemies" \in DOMAIN patch => DOMAIN patch.enemies \cap DOMAIN First(start).enemies = {}
    PROVE  TookIn(Merged(cat, patch).enemies) /\ Document(Merged(cat, patch))
<1>1. PICK old, stored : /\ old = cat.enemies /\ stored = Stored(cat) /\ stored.enemies = old
                         /\ {"version", "enemies"} \subseteq DOMAIN stored
  BY PowersStored DEF Document
<1>2. /\ DOMAIN Merged(cat, patch) = DOMAIN stored
      /\ Merged(cat, patch).enemies = IF "enemies" \in DOMAIN patch THEN Over(patch.enemies, old) ELSE old
  BY <1>1 DEF Merged
<1>3. Document(Merged(cat, patch))
  BY <1>1, <1>2 DEF Document
<1>4. "enemies" \in DOMAIN patch => TookIn(Over(patch.enemies, old))
  <2>. SUFFICES ASSUME "enemies" \in DOMAIN patch PROVE TookIn(Over(patch.enemies, old))
    OBVIOUS
  <2>1. PICK p : p = patch.enemies
    OBVIOUS
  <2>2. TookIn(old)
    BY <1>1
  <2>3. \A e \in DOMAIN First(start).enemies :
            e \in DOMAIN old /\ e \in DOMAIN Over(p, old) /\ Over(p, old)[e] = old[e]
    BY <2>1, <2>2 DEF Over, TookIn
  <2>. QED
    BY <2>1, <2>2, <2>3 DEF TookIn
<1>. QED
  BY <1>1, <1>2, <1>3, <1>4

\* Every catalogue that is stored, or on its way there, is the first one or has taken
\* the factor in once; every one that a request writes has.  The balance is saved
\* without its factor once nothing is left to take in.
ScaledOnce(d) == Document(d) /\ d.version = 1 /\ TookIn(d.enemies)
Unscaled(docs) == docs.catalogue = None \/ docs.catalogue.version # 1
Carries(r) ==
    /\ "catalogue" \in DOMAIN r.own => ScaledOnce(r.own["catalogue"])
    /\ "balance" \in DOMAIN r.own /\ "catalogue" \notin DOMAIN r.own => Settled(node)
    /\ r.stage = "write" => ScaledOnce(r.draft.catalogue)
    /\ r.kind = "put catalogue" => TookIn(r.arg.enemies)
    /\ r.kind = "file" => r.arg.catalogue \in Edits
PowersInv ==
    /\ start \in Starts
    /\ Unscaled(node) => node.catalogue = start.catalogue /\ Factor(node) = Factor(start)
    /\ ~Unscaled(node) => TookIn(node.catalogue.enemies)
    /\ \A c \in Admins : Doomed(c) \/ Carries(req[c])

LEMMA StoredIsScaled ==
    ASSUME NEW cat, TookIn(cat.enemies)
    PROVE  ScaledOnce(Stored(cat))
BY PowersStored, StoredIsNew DEF ScaledOnce, NewCatalogue

LEMMA FirstIsScaled ==
    ASSUME SettingsAssumption, EnemiesAssumption, start \in Starts
    PROVE  ScaledOnce(Consolidated(First(start), Factor(start)))
<1>1. PICK d, factor : d = First(start) /\ factor = Factor(start)
  OBVIOUS
<1>2. Document(d) /\ Powered(d.enemies)
  BY <1>1 DEF SettingsAssumption, Databases, EnemiesAssumption, First
<1>3. PICK old, s : old = d.enemies /\ s = Consolidated(d, factor)
  OBVIOUS
<1>4. PICK new : new = s.enemies
  OBVIOUS
<1>5. /\ Document(s) /\ s.version = 1 /\ DOMAIN new = DOMAIN old
      /\ \A e \in DOMAIN old : new[e] = IF d.version = 1 THEN old[e] ELSE Strengthened(old[e], factor)
  BY <1>2, <1>3, <1>4 DEF Consolidated, Scaled, Document
<1>6. TookIn(new)
  <2>. SUFFICES ASSUME NEW e \in DOMAIN old
       PROVE  /\ e \in DOMAIN new /\ {"boss", "power"} \subseteq DOMAIN new[e]
              /\ new[e].boss = old[e].boss /\ new[e].power = DuePower(e)
    BY <1>1, <1>3 DEF TookIn
  <2>1. PICK x, y : x = old[e] /\ y = new[e]
    OBVIOUS
  <2>2. DuePower(e) = IF d.version # 1 /\ x.boss THEN x.power * factor ELSE x.power
    BY <1>1, <1>3, <2>1 DEF DuePower
  <2>3. {"boss", "power"} \subseteq DOMAIN x /\ y = IF d.version = 1 THEN x ELSE Strengthened(x, factor)
    BY <1>2, <1>3, <1>5, <2>1 DEF Powered
  <2>4. CASE d.version # 1 /\ x.boss
    <3>1. y = [x EXCEPT !.power = x.power * factor]
      BY <2>3, <2>4 DEF Strengthened
    <3>2. PICK n : n = x.power * factor
      OBVIOUS
    <3>3. y = [x EXCEPT !.power = n]
      BY <3>1, <3>2
    <3>4. y.power = n /\ y.boss = x.boss /\ DOMAIN y = DOMAIN x
      BY <2>3, <3>3
    <3>. QED
      BY <1>5, <2>1, <2>2, <2>3, <2>4, <3>2, <3>4
  <2>5. CASE ~(d.version # 1 /\ x.boss)
    <3>1. y = x
      BY <2>3, <2>5 DEF Strengthened
    <3>. QED
      BY <1>5, <2>1, <2>2, <2>3, <2>5, <3>1
  <2>. QED
    BY <2>4, <2>5
<1>. QED
  BY <1>1, <1>3, <1>4, <1>5, <1>6 DEF ScaledOnce

LEMMA CarriesOn ==
    ASSUME SetInv, PowersInv, NEW c \in Admins, NEW s, Carries(s) \/ Doomed(c)', UNCHANGED <<node, start>>, Takes(c),
           req' = [req EXCEPT ![c] = s]
    PROVE  PowersInv'
<1>1. \A d \in Admins : req'[d] = IF d = c THEN s ELSE req[d]
  BY DEF SetInv
<1>2. ASSUME NEW d \in Admins PROVE Doomed(d)' \/ Carries(req[d])'
  <2>1. CASE d # c
    <3>1. PICK r : r = req[d] /\ r = req'[d] /\ (Carries(r) \/ Doomed(d))
      BY <1>1, <2>1 DEF PowersInv
    <3>2. Doomed(d) => Doomed(d)'
      BY <2>1 DEF Doomed, Takes
    <3>3. Carries(r) => Carries(r)'
      BY DEF Carries, ScaledOnce, TookIn, DuePower, Settled, NewCatalogue, PlainBalance
    <3>. QED
      BY <3>1, <3>2, <3>3 DEF Carries
  <2>2. CASE d = c
    <3>1. Carries(s) => Carries(s)'
      BY DEF Carries, ScaledOnce, TookIn, DuePower, Settled, NewCatalogue, PlainBalance
    <3>. QED
      BY <1>1, <2>2, <3>1 DEF Carries
  <2>. QED
    BY <2>1, <2>2
<1>3. /\ Unscaled(node)' = Unscaled(node) /\ Factor(node)' = Factor(node) /\ Factor(start)' = Factor(start)
      /\ TookIn(node.catalogue.enemies) => TookIn(node.catalogue.enemies)'
  BY DEF Unscaled, Factor, TookIn, DuePower
<1>. QED
  BY <1>2, <1>3 DEF PowersInv

LEMMA CarriesNothing == Carries(NoRequest) /\ Carries(NoRequest)'
<1>1. NoRequest.own = <<>> /\ NoRequest.stage = "none" /\ NoRequest.kind = "none"
  BY DEF NoRequest
<1>. QED
  BY <1>1, NothingWritten DEF Carries

\* What a migration makes of what is stored, and what a reader is shown, is scaled.
LEMMA MigratedIsScaled ==
    ASSUME SetInv, PowersInv, SettingsAssumption, EnemiesAssumption
    PROVE  ScaledOnce(Migrated(node).catalogue)
<1>1. Migrated(node).catalogue = Consolidated(First(node), Factor(node))
  BY DEF Migrated
<1>2. CASE Unscaled(node)
  <2>1. First(node) = First(start) /\ Factor(node) = Factor(start)
    BY <1>2 DEF PowersInv, First
  <2>. QED
    BY <1>1, <2>1, FirstIsScaled DEF PowersInv
<1>3. CASE ~Unscaled(node)
  <2>1. Migrated(node).catalogue = node.catalogue
    BY <1>1, <1>3 DEF Unscaled, First, Consolidated
  <2>. QED
    BY <1>3, <2>1 DEF Unscaled, PowersInv, SetInv, Databases, ScaledOnce
<1>. QED
  BY <1>2, <1>3

LEMMA SeenIsScaled ==
    ASSUME SetInv, PowersInv, SettingsAssumption, EnemiesAssumption, NullAssumption,
           node.catalogue # None => node.catalogue.version = 1
    PROVE  \E d : ScaledOnce(d) /\ Seen(node).catalogue = Read(d)
<1>1. CASE node.catalogue = None
  BY <1>1, MigratedIsScaled DEF Seen
<1>2. CASE node.catalogue # None
  <2>1. ScaledOnce(node.catalogue)
    BY <1>2 DEF PowersInv, SetInv, Databases, ScaledOnce, Unscaled
  <2>2. Seen(node).catalogue = Read(node.catalogue)
    BY <1>2 DEF Seen
  <2>. QED
    BY <2>1, <2>2
<1>. QED
  BY <1>1, <1>2

\* An edit of the catalogue keeps the bosses as they are.
LEMMA EditedPowers ==
    ASSUME NullAssumption, NEW d, NEW patch, ScaledOnce(d),
           "enemies" \in DOMAIN patch => DOMAIN patch.enemies \cap DOMAIN First(start).enemies = {}
    PROVE  TookIn(Read(Merged(Read(d), patch)).enemies)
<1>1. PICK cat, new : cat = Read(d) /\ new = Merged(cat, patch)
  OBVIOUS
<1>2. TookIn(cat.enemies)
  BY <1>1, TookRead DEF ScaledOnce
<1>3. Document(new) /\ TookIn(new.enemies)
  BY <1>1, <1>2, TookMerged
<1>4. TookIn(Read(new).enemies)
  BY <1>3, TookRead
<1>. QED
  BY <1>1, <1>4

LEMMA PowersAsked ==
    ASSUME SetInv, PowersInv, SettingsAssumption, NullAssumption, EnemiesAssumption,
           NEW c \in Admins, NewRequest(c), UNCHANGED start
    PROVE  PowersInv'
<1>1. ASSUME NEW kind, NEW arg, NEW first, NEW locks, Ask(c, kind, arg, first, locks), first # "write",
             kind = "put catalogue" => TookIn(arg.enemies),
             kind = "file" => arg.catalogue \in Edits
      PROVE  PowersInv'
  <2>1. PICK s : s = [stage |-> first, kind |-> kind, arg |-> arg, locks |-> locks,
                      own |-> <<>>, looked |-> None, draft |-> None, shown |-> None]
    OBVIOUS
  <2>2. req' = [req EXCEPT ![c] = s] /\ UNCHANGED <<node, start>> /\ Takes(c)
    BY <1>1, <2>1, TakesNothing DEF Ask
  <2>3. s.stage = first /\ s.kind = kind /\ s.arg = arg /\ s.own = <<>>
    BY <2>1
  <2>4. Carries(s)
    BY <1>1, <2>3, NothingWritten DEF Carries
  <2>. QED
    BY <2>2, <2>4, CarriesOn
<1>2. ASSUME NEW e \in Edits, PutCatalogue(c, e) PROVE PowersInv'
  <2>1. PICK arg : arg = Read(Merged(Seen(node).catalogue, e)) /\ Ask(c, "put catalogue", arg, "check", {})
    BY <1>2 DEF PutCatalogue, Edit
  <2>2. PICK d : ScaledOnce(d) /\ Seen(node).catalogue = Read(d)
    BY <1>2, SeenIsScaled DEF PutCatalogue
  <2>3. TookIn(Read(Merged(Read(d), e)).enemies)
    BY <2>2, EditedPowers DEF EnemiesAssumption, PowersInv
  <2>4. TookIn(arg.enemies)
    BY <2>1, <2>2, <2>3
  <2>. QED
    BY <1>1, <2>1, <2>4
<1>3. ASSUME NEW e \in Edits, SaveFile(c, [catalogue |-> e, balance |-> 2]) PROVE PowersInv'
  <2>1. PICK arg : arg = [catalogue |-> e, balance |-> 2]
    OBVIOUS
  <2>2. arg.catalogue \in Edits
    BY <2>1
  <2>3. Ask(c, "file", arg, "lock", ToLock)
    BY <1>3, <2>1 DEF SaveFile, Edit
  <2>. QED
    BY <1>1, <2>2, <2>3
<1>4. CASE Get(c) \/ Preview(c) \/ PutBalance(c, 1) \/ PutBattle(c, 1)
  BY <1>1, <1>4 DEF Get, Preview, PutBalance, PutBattle, Edit
<1>. QED
  BY <1>2, <1>3, <1>4 DEF NewRequest

LEMMA PowersStay ==
    ASSUME SetInv, PowersInv, NEW c \in Admins, ~Doomed(c), LockFile(c) \/ Check(c) \/ Show(c), UNCHANGED start
    PROVE  PowersInv'
<1>1. PICK r : r = req[c] /\ Carries(r)
  BY DEF PowersInv
<1>3. CASE LockFile(c) \/ Check(c) \/ Show(c)
  <2>1. r.stage \in Stages
    BY <1>1, <1>3 DEF LockFile, Check, Show, At, Stages
  <2>2. Request(r)
    BY <1>1, <2>1, RequestAt
  <2>3. PICK s : /\ \/ s = r
                    \/ \E stage : stage # "write" /\ s = [r EXCEPT !.stage = stage]
                    \/ \E looked : s = [r EXCEPT !.stage = "migrate", !.looked = looked]
                    \/ \E shown : s = [r EXCEPT !.stage = "done", !.shown = shown]
                 /\ req' = [req EXCEPT ![c] = s] /\ UNCHANGED <<node, start>> /\ Takes(c)
    <3>0. Takes(c) /\ UNCHANGED <<node, start>>
      BY <1>3, Goes DEF Going
    <3>1. CASE LockFile(c)
      <4>1. \/ req' = [req EXCEPT ![c] = [r EXCEPT !.stage = "check"]]
            \/ req' = [req EXCEPT ![c] = r]
        BY <1>1, <3>1 DEF LockFile, SetInv
      <4>. QED
        BY <3>1, <4>1, <3>0 DEF LockFile
    <3>2. CASE Check(c)
      <4>1. \/ req' = [req EXCEPT ![c] = [r EXCEPT !.stage = "migrate", !.looked = View(c)]]
            \/ req' = [req EXCEPT ![c] = [r EXCEPT !.stage = "act"]]
        BY <1>1, <3>2 DEF Check, SetInv
      <4>. QED
        BY <3>2, <4>1, <3>0 DEF Check
    <3>3. CASE Show(c)
      <4>1. \/ req' = [req EXCEPT ![c] = [r EXCEPT !.stage = "done", !.shown = Seen(View(c))]]
            \/ req' = [req EXCEPT ![c] = [r EXCEPT !.stage = "failed"]]
        BY <1>1, <3>3 DEF Show, SetInv
      <4>. QED
        BY <3>3, <4>1, <3>0 DEF Show
    <3>. QED
      BY <1>3, <3>1, <3>2, <3>3
  <2>4. s.own = r.own /\ s.kind = r.kind /\ s.arg = r.arg /\ s.draft = r.draft
        /\ (s.stage = "write" => r.stage = "write")
    BY <2>2, <2>3 DEF Request
  <2>5. Carries(s)
    BY <1>1, <2>4 DEF Carries
  <2>. QED
    BY <2>3, <2>5, CarriesOn
<1>. QED
  BY <1>3

\* What a request puts.
LEMMA CarriesPut ==
    ASSUME SetInv, PowersInv, NEW c \in Admins, NEW r, r = req[c], ~Doomed(c), Takes(c), NEW k, NEW d, NEW s,
           s.own = Put(r.own, k, d), s.kind = r.kind, s.arg = r.arg, s.stage # "write",
           k = "catalogue" => ScaledOnce(d), UNCHANGED <<node, start>>,
           k = "balance" /\ "catalogue" \notin DOMAIN r.own => Settled(node), req' = [req EXCEPT ![c] = s]
    PROVE  PowersInv'
<1>1. Carries(r)
  BY DEF PowersInv
<1>2. PICK w : w = r.own
  OBVIOUS
<1>3. /\ DOMAIN Put(w, k, d) = {k} \cup DOMAIN w
      /\ \A i \in {k} \cup DOMAIN w : Put(w, k, d)[i] = IF i = k THEN d ELSE w[i]
  BY DEF Put, Over
<1>4. "catalogue" \in DOMAIN Put(w, k, d) => ScaledOnce(Put(w, k, d)["catalogue"])
  BY <1>1, <1>2, <1>3 DEF Carries
<1>5. "balance" \in DOMAIN Put(w, k, d) /\ "catalogue" \notin DOMAIN Put(w, k, d) => Settled(node)
  BY <1>1, <1>2, <1>3 DEF Carries
<1>6. Carries(s)
  BY <1>1, <1>2, <1>4, <1>5 DEF Carries
<1>. QED
  BY <1>6, CarriesOn

LEMMA CatalogueCarried ==
    ASSUME SetInv, PowersInv, NEW c \in Admins, NEW r, r = req[c], ~Doomed(c), Takes(c), NEW doc, NEW s,
           s.own = Put(r.own, "catalogue", doc), s.kind = r.kind, s.arg = r.arg, s.stage # "write",
           ScaledOnce(doc), UNCHANGED <<node, start>>, req' = [req EXCEPT ![c] = s]
    PROVE  PowersInv'
<1>1. PICK k, d : k = "catalogue" /\ d = doc
  OBVIOUS
<1>2. s.own = Put(r.own, k, d) /\ (k = "catalogue" => ScaledOnce(d))
  BY <1>1
<1>3. (k = "balance" /\ "catalogue" \notin DOMAIN r.own) => Settled(node)
  BY <1>1
<1>. QED
  BY <1>2, <1>3, CarriesPut

LEMMA PowersMigrated ==
    ASSUME SetInv, PowersInv, SettingsAssumption, NullAssumption, EnemiesAssumption,
           NEW c \in Admins, ~Doomed(c), UNCHANGED start, MigrateCatalogue(c)
    PROVE  PowersInv'
<1>1. PICK r : r = req[c]
  OBVIOUS
<1>2. Request(r) /\ Wrote(c, r) /\ r.stage = "migrate"
  BY <1>1, RequestAt DEF MigrateCatalogue, At, Stages
<1>3. SecondLook(c) = node
  BY <1>1, <1>2, FirstView DEF SecondLook, Wrote
<1>4. PICK m : m = Migrated(node)
  OBVIOUS
<1>5. ScaledOnce(m.catalogue)
  BY <1>4, MigratedIsScaled
<1>6. PICK s : /\ s = [r EXCEPT !.looked = None, !.own = Put(r.own, "catalogue", m.catalogue),
                                !.draft = m.balance, !.stage = "act"]
                  \/ s = [r EXCEPT !.looked = None, !.own = Put(r.own, "catalogue", m.catalogue),
                                   !.draft = m.balance, !.stage = "migrate balance"]
               /\ req' = [req EXCEPT ![c] = s] /\ UNCHANGED <<node, start>>
  BY <1>1, <1>3, <1>4 DEF MigrateCatalogue, SetInv
<1>7. s.own = Put(r.own, "catalogue", m.catalogue) /\ s.kind = r.kind /\ s.arg = r.arg /\ s.stage # "write"
  BY <1>2, <1>6 DEF Request
<1>8. Takes(c)
  BY Goes DEF Going
<1>. QED
  BY <1>1, <1>5, <1>6, <1>7, <1>8, CatalogueCarried

LEMMA PowersPut ==
    ASSUME SetInv, PowersInv, NEW c \in Admins, ~Doomed(c), UNCHANGED start,
           MigrateBalance(c) \/ Save(c)
    PROVE  PowersInv'
<1>1. PICK r : r = req[c] /\ Carries(r)
  BY DEF PowersInv
<1>0. Takes(c)
  BY Goes DEF Going
<1>2. Request(r) /\ Migrating(r) /\ Wrote(c, r) /\ r.stage \in {"act", "migrate balance"} /\ OfFile(c, r)
  BY <1>1, RequestAt DEF MigrateBalance, Save, At, Stages
<1>3. CASE MigrateBalance(c)
  <2>1. PICK s : s = [r EXCEPT !.own = Put(r.own, "balance", r.draft), !.stage = "act"]
    OBVIOUS
  <2>2. req' = [req EXCEPT ![c] = s] /\ UNCHANGED <<node, start>>
    BY <1>1, <1>3, <2>1 DEF MigrateBalance, SetInv
  <2>3. s.own = Put(r.own, "balance", r.draft) /\ s.kind = r.kind /\ s.arg = r.arg /\ s.stage # "write"
    BY <1>2, <2>1 DEF Request
  <2>4. PICK k, d : k = "balance" /\ d = r.draft
    OBVIOUS
  <2>5. s.own = Put(r.own, k, d) /\ (k = "catalogue" => ScaledOnce(d)) /\ "catalogue" \in DOMAIN r.own
    BY <1>1, <1>2, <1>3, <2>3, <2>4 DEF Migrating, MigrateBalance, At
  <2>. QED
    BY <1>0, <1>1, <2>2, <2>3, <2>5, CarriesPut
<1>4. CASE Save(c)
  <2>1. PICK k, d :
          /\ \/ r.kind = "put catalogue" /\ k = "catalogue" /\ d = Stored(r.arg)
             \/ k # "catalogue" /\ (k = "balance" => r.kind = "put balance")
          /\ Overwrite(c, k, d) /\ UNCHANGED <<node, start>>
    BY <1>1, <1>4 DEF Save
  <2>2. PICK s : s = [r EXCEPT !.own = Put(r.own, k, d), !.stage = "done"]
    OBVIOUS
  <2>3. req' = [req EXCEPT ![c] = s]
    BY <1>1, <2>1, <2>2 DEF Overwrite, SetInv
  <2>4. s.own = Put(r.own, k, d) /\ s.kind = r.kind /\ s.arg = r.arg /\ s.stage # "write"
    BY <1>2, <2>2 DEF Request
  <2>5. k = "catalogue" => ScaledOnce(d)
    BY <1>1, <2>1, StoredIsScaled DEF Carries
  <2>6. k = "balance" /\ "catalogue" \notin DOMAIN r.own => Settled(node)
    <3>. SUFFICES ASSUME k = "balance", "catalogue" \notin DOMAIN r.own PROVE Settled(node)
      OBVIOUS
    <3>1. PICK w : w = r.own /\ WritesNew(w)
      BY <1>2 DEF Wrote
    <3>2. Settled(Over(w, node))
      BY <1>1, <1>2, <1>4, <2>1, <3>1 DEF Migrating, Migrates, Save, At
    <3>3. Over(w, node) = [i \in Keys |-> IF i \in DOMAIN w THEN w[i] ELSE node[i]]
      BY <3>1, OverIs DEF SetInv, Databases, WritesNew
    <3>4. CASE "balance" \in DOMAIN w
      BY <1>1, <3>1, <3>4 DEF Carries
    <3>5. CASE "balance" \notin DOMAIN w
      BY <3>1, <3>2, <3>3, <3>5 DEF Settled, Keys
    <3>. QED
      BY <3>4, <3>5
  <2>. QED
    BY <1>0, <1>1, <2>1, <2>3, <2>4, <2>5, <2>6, CarriesPut
<1>. QED
  BY <1>3, <1>4

LEMMA PowersFile ==
    ASSUME SetInv, PowersInv, SettingsAssumption, NullAssumption, EnemiesAssumption,
           NEW c \in Admins, ~Doomed(c), UNCHANGED start, CheckFile(c) \/ WriteFile(c)
    PROVE  PowersInv'
<1>1. PICK r : r = req[c] /\ Carries(r)
  BY DEF PowersInv
<1>0. Takes(c)
  BY Goes DEF Going
<1>2. Request(r) /\ Wrote(c, r) /\ Migrating(r) /\ OfFile(c, r)
  BY <1>1, RequestAt DEF CheckFile, WriteFile, At, Stages
<1>3. CASE CheckFile(c)
  <2>1. r.kind = "file" /\ r.own = <<>> /\ Settled(node) /\ View(c) = node
    <3>1. r.kind = "file" /\ r.own = <<>> /\ r.stage = "act"
      BY <1>1, <1>2, <1>3 DEF CheckFile, At, OfFile
    <3>. QED
      BY <1>1, <1>2, <3>1, FirstView DEF OfFile
  <2>2. PICK d : ScaledOnce(d) /\ Seen(node).catalogue = Read(d)
    BY <2>1, SeenIsScaled DEF Settled, NewCatalogue
  <2>3. PICK patch : patch = r.arg.catalogue
    OBVIOUS
  <2>4. PICK cat : cat = Stored(Read(Merged(Read(d), patch)))
    OBVIOUS
  <2>5. ScaledOnce(cat)
    <3>1. patch \in Edits
      BY <1>1, <2>1, <2>3 DEF Carries
    <3>2. TookIn(Read(Merged(Read(d), patch)).enemies)
      BY <2>2, <3>1, EditedPowers DEF EnemiesAssumption, PowersInv
    <3>. QED
      BY <2>4, <3>2, StoredIsScaled
  <2>6. PICK draft : draft = [catalogue |-> cat, balance |-> NewBalance(r.arg.balance), battle |-> Seen(node).battle]
    OBVIOUS
  <2>7. PICK s : /\ s = [r EXCEPT !.stage = "write", !.draft = draft] \/ s = [r EXCEPT !.stage = "failed"]
                 /\ req' = [req EXCEPT ![c] = s] /\ UNCHANGED <<node, start>>
    BY <1>1, <1>3, <2>1, <2>2, <2>3, <2>4, <2>6 DEF CheckFile, SetInv
  <2>8. /\ s.own = r.own /\ s.kind = r.kind /\ s.arg = r.arg
        /\ s.stage = "write" => s.draft = draft
    BY <1>2, <2>7 DEF Request
  <2>9. Carries(s)
    <3>1. draft.catalogue = cat
      BY <2>6
    <3>. QED
      BY <1>1, <2>5, <2>8, <3>1 DEF Carries
  <2>. QED
    BY <1>0, <2>7, <2>9, CarriesOn
<1>4. CASE WriteFile(c)
  <2>1. PICK s : s = [r EXCEPT !.own = r.draft, !.stage = "done"]
    OBVIOUS
  <2>2. req' = [req EXCEPT ![c] = s] /\ UNCHANGED <<node, start>>
    BY <1>1, <1>4, <2>1 DEF WriteFile, SetInv
  <2>3. s.own = r.draft /\ s.kind = r.kind /\ s.arg = r.arg /\ s.stage = "done"
    BY <1>2, <2>1 DEF Request
  <2>4. ScaledOnce(r.draft.catalogue)
    BY <1>1, <1>4 DEF Carries, WriteFile, At
  <2>5. "catalogue" \in DOMAIN r.draft /\ r.draft["catalogue"] = r.draft.catalogue
    BY <1>1, <1>2, <1>4 DEF WriteFile, At, Migrating, OfFile, Keys
  <2>6. Carries(s)
    BY <1>1, <2>3, <2>4, <2>5 DEF Carries
  <2>. QED
    BY <1>0, <2>2, <2>6, CarriesOn
<1>. QED
  BY <1>3, <1>4

LEMMA PowersCommitted ==
    ASSUME SetInv, PowersInv, SettingsAssumption, NullAssumption, EnemiesAssumption,
           NEW c \in Admins, ~Doomed(c), CommitSettings(c), UNCHANGED start
    PROVE  PowersInv'
<1>1. PICK r : r = req[c] /\ Carries(r)
  BY DEF PowersInv
<1>2. WritesNew(r.own) /\ req[c] # NoRequest
  BY <1>1, RequestAt DEF CommitSettings, At, Stages, Wrote
<1>3. PICK w : w = r.own /\ WritesNew(w)
  BY <1>2
<1>4. node' = Over(w, node) /\ Ended(c)
  BY <1>1, <1>3 DEF CommitSettings, View
<1>5. node' = [k \in Keys |-> IF k \in DOMAIN w THEN w[k] ELSE node[k]]
  BY <1>3, <1>4, OverIs DEF SetInv, Databases, WritesNew
<1>6. (Settled(node) => Settled(node')) /\ \A k \in Keys : node[k] # None => node'[k] # None
  BY <1>3, <1>4, <1>5, SettledStays, WritesSome DEF SetInv, Databases
<1>7. ASSUME NEW d \in Admins PROVE Doomed(d)' \/ Carries(req[d])'
  <2>1. CASE d = c
    <3>1. req'[d] = NoRequest
      BY <1>4, <2>1 DEF SetInv, Ended
    <3>2. PICK x : x = NoRequest /\ x = req'[d] /\ Carries(x)'
      BY <3>1, CarriesNothing
    <3>. QED
      BY <3>2 DEF Carries
  <2>2. CASE d # c
    <3>1. PICK x : x = req[d] /\ x = req'[d] /\ (Carries(x) \/ Doomed(d))
      BY <1>4, <2>2 DEF PowersInv, SetInv, Ended
    <3>2. Doomed(d) => Doomed(d)'
      BY <1>4, <1>6, <2>2 DEF Doomed, Ended, SetInv
    <3>3. Carries(x) => Carries(x)'
      BY <1>6 DEF Carries, ScaledOnce, TookIn, DuePower
    <3>. QED
      BY <3>1, <3>2, <3>3 DEF Carries
  <2>. QED
    BY <2>1, <2>2
<1>8. CASE "catalogue" \in DOMAIN w
  <2>1. ScaledOnce(w["catalogue"]) /\ node'.catalogue = w["catalogue"] /\ node'.catalogue # None
    BY <1>1, <1>3, <1>5, <1>8, WritesSome DEF Carries, Keys
  <2>2. ~Unscaled(node)' /\ TookIn(node'.catalogue.enemies)
    BY <2>1 DEF ScaledOnce, Unscaled
  <2>3. TookIn(node.catalogue.enemies)'
    BY <2>2 DEF TookIn, DuePower
  <2>. QED
    BY <1>7, <2>2, <2>3 DEF PowersInv
<1>9. CASE "catalogue" \notin DOMAIN w
  <2>1. node'.catalogue = node.catalogue
    BY <1>5, <1>9 DEF Keys
  <2>2. Unscaled(node) => Factor(node') = Factor(node)
    <3>. SUFFICES ASSUME Unscaled(node) PROVE Factor(node') = Factor(node)
      OBVIOUS
    <3>1. CASE "balance" \notin DOMAIN w
      BY <1>5, <3>1 DEF Factor, Keys
    <3>2. CASE "balance" \in DOMAIN w
      <4>1. node'.balance = w["balance"] /\ PlainBalance(w["balance"]) /\ Settled(node)
        BY <1>1, <1>3, <1>5, <1>9, <3>2 DEF Carries, WritesNew, Keys
      <4>. QED
        BY <4>1 DEF Factor, Settled, PlainBalance
    <3>. QED
      BY <3>1, <3>2
  <2>3. Unscaled(node)' = Unscaled(node) /\ Factor(start)' = Factor(start)
    BY <2>1 DEF Unscaled, Factor
  <2>4. ~Unscaled(node) => TookIn(node.catalogue.enemies)'
    <3>1. ~Unscaled(node) => TookIn(node.catalogue.enemies)
      BY DEF PowersInv
    <3>. QED
      BY <2>1, <3>1 DEF TookIn, DuePower
  <2>5. Factor(node)' = Factor(node')
    BY DEF Factor
  <2>. QED
    BY <1>7, <2>1, <2>2, <2>3, <2>4, <2>5 DEF PowersInv
<1>. QED
  BY <1>8, <1>9

\* A request that is doomed or ends without a commit.
LEMMA PowersElse ==
    ASSUME SetInv, PowersInv, NEW c \in Admins, Abort(c) \/ (Doomed(c) /\ Going(c)), UNCHANGED start
    PROVE  PowersInv'
<1>1. CASE Abort(c)
  <2>1. UNCHANGED <<node, start>> /\ Ended(c)
    BY <1>1 DEF Abort
  <2>2. ASSUME NEW d \in Admins PROVE Doomed(d)' \/ Carries(req[d])'
    <3>1. CASE d = c
      <4>1. req'[d] = NoRequest
        BY <2>1, <3>1 DEF SetInv, Ended
      <4>2. PICK x : x = NoRequest /\ x = req'[d] /\ Carries(x)'
        BY <4>1, CarriesNothing
      <4>. QED
        BY <4>2 DEF Carries
    <3>2. CASE d # c
      <4>1. PICK x : x = req[d] /\ x = req'[d] /\ (Carries(x) \/ Doomed(d))
        BY <2>1, <3>2 DEF PowersInv, SetInv, Ended
      <4>2. Doomed(d) => Doomed(d)'
        BY <2>1, <3>2 DEF Doomed, Ended, SetInv
      <4>3. Carries(x) => Carries(x)'
        BY <2>1 DEF Carries, ScaledOnce, TookIn, DuePower, Settled, NewCatalogue, PlainBalance
      <4>. QED
        BY <4>1, <4>2, <4>3 DEF Carries
    <3>. QED
      BY <3>1, <3>2
  <2>3. /\ Unscaled(node)' = Unscaled(node) /\ Factor(node)' = Factor(node) /\ Factor(start)' = Factor(start)
        /\ TookIn(node.catalogue.enemies) => TookIn(node.catalogue.enemies)'
    BY <2>1 DEF Unscaled, Factor, TookIn, DuePower
  <2>. QED
    BY <2>1, <2>2, <2>3 DEF PowersInv
<1>2. CASE Doomed(c) /\ Going(c)
  <2>1. Takes(c) /\ UNCHANGED <<node, start>>
    BY <1>2, Goes
  <2>2. PICK s : req' = [req EXCEPT ![c] = s]
    BY <1>2, Goes
  <2>3. Doomed(c)'
    BY <1>2, <2>1 DEF Doomed, Takes
  <2>. QED
    BY <2>1, <2>2, <2>3, CarriesOn
<1>. QED
  BY <1>1, <1>2

LEMMA PowersKept ==
    ASSUME SetInv, PowersInv, doubled = {}, [SNext]_svars, doubled' = {},
           SettingsAssumption, EnemiesAssumption, NullAssumption
    PROVE  PowersInv'
<1>1. ASSUME NEW c \in Admins, NewRequest(c), UNCHANGED start PROVE PowersInv'
  BY <1>1, PowersAsked
<1>2. ASSUME NEW c \in Admins, Work(c), UNCHANGED start PROVE PowersInv'
  BY <1>2, PowersStay, PowersMigrated, PowersPut, PowersFile, PowersElse DEF Work, Going
<1>3. ASSUME NEW c \in Admins, CommitSettings(c), UNCHANGED start PROVE PowersInv'
  <2>1. ~Doomed(c)
    BY <1>3 DEF CommitSettings, Twins, Doomed
  <2>. QED
    BY <1>3, <2>1, PowersCommitted
<1>4. CASE UNCHANGED svars
  <2>1. UNCHANGED <<node, start, req, made>>
    BY <1>4 DEF svars
  <2>2. /\ Unscaled(node)' = Unscaled(node) /\ Factor(node)' = Factor(node) /\ Factor(start)' = Factor(start)
        /\ TookIn(node.catalogue.enemies) => TookIn(node.catalogue.enemies)'
    BY <2>1 DEF Unscaled, Factor, TookIn, DuePower
  <2>3. ASSUME NEW d \in Admins PROVE Doomed(d)' \/ Carries(req[d])'
    <3>1. Doomed(d) => Doomed(d)'
      BY <2>1 DEF Doomed
    <3>2. PICK x : x = req[d] /\ x = req'[d] /\ (Carries(x) \/ Doomed(d))
      BY <2>1 DEF PowersInv
    <3>3. Carries(x) => Carries(x)'
      BY <2>1 DEF Carries, ScaledOnce, TookIn, DuePower, Settled, NewCatalogue, PlainBalance
    <3>. QED
      BY <3>1, <3>2, <3>3 DEF Carries
  <2>. QED
    BY <2>1, <2>2, <2>3 DEF PowersInv
<1>. QED
  BY <1>1, <1>2, <1>3, <1>4 DEF SNext

\* Whoever comes first, however often a document is saved again, the bosses take the
\* common factor in once, whatever it was.
THEOREM BossesScaledOnce ==
    ASSUME SettingsAssumption, EnemiesAssumption, NullAssumption
    PROVE  SSpec => []SettingsHold
<1>. DEFINE Scales == SettingsInv /\ (doubled = {} => PowersInv)
<1>1. SInit => Scales
  <2>. SUFFICES ASSUME SInit PROVE Scales
    OBVIOUS
  <2>1. start = node /\ node \in Starts /\ doubled = {} /\ \A c \in Admins : req[c] = NoRequest
    BY DEF SInit
  <2>2. SetInv
    BY SettingsBegin
  <2>3. ~Unscaled(node) => TookIn(node.catalogue.enemies)
    <3>. SUFFICES ASSUME ~Unscaled(node) PROVE TookIn(node.catalogue.enemies)
      OBVIOUS
    <3>1. PICK d : d = First(start) /\ d = node.catalogue /\ d.version = 1
      BY <2>1 DEF Unscaled, First
    <3>2. Consolidated(d, Factor(start)) = d
      BY <3>1 DEF Consolidated
    <3>. QED
      BY <2>1, <3>1, <3>2, FirstIsScaled DEF ScaledOnce
  <2>4. PowersInv
    BY <2>1, <2>3, CarriesNothing DEF PowersInv
  <2>. QED
    BY <2>1, <2>2, <2>4 DEF SettingsInv, Alone
<1>2. Scales /\ [SNext]_svars => Scales'
  <2>. SUFFICES ASSUME Scales, [SNext]_svars PROVE Scales'
    OBVIOUS
  <2>1. SettingsInv'
    BY SettingsStep
  <2>2. doubled' = {} => doubled = {}
    BY DEF SNext, svars
  <2>3. doubled' = {} => PowersInv'
    BY <2>2, PowersKept DEF SettingsInv
  <2>. QED
    BY <2>1, <2>3
<1>3. Scales => (doubled = {} => BossScaledOnce)
  BY DEF PowersInv, BossScaledOnce, Unscaled
<1>. QED
  BY <1>1, <1>2, <1>3, CatalogueIsKept, PTL DEF SSpec, SettingsHold
=============================================================================
