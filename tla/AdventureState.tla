--------------------------- MODULE AdventureState ---------------------------
(***************************************************************************)
(* The saved adventure of one user, shared by several devices.  The whole  *)
(* save is one JSON document on the User node; every operation reads it,   *)
(* computes a new one and stores it with compare_and_save, which write-    *)
(* locks the node and compares the revision (and, when the operation costs *)
(* the access right of the clock slot, the slot consumed last).            *)
(*                                                                         *)
(* Sources: feature/game/{state,economy,treasure,access,unlocks,           *)
(* dungeon_keys,shared_dungeons,router}.py, api/middleware/transaction.py. *)
(*                                                                         *)
(* Every HTTP request is one read-committed database transaction.  The     *)
(* lock is taken by the first compare_and_save, also by one that fails,    *)
(* and is held until the request ends; reads before it may be stale.  A    *)
(* request may run several operations: GET /state grants both review       *)
(* rewards and then opens dungeons.                                        *)
(***************************************************************************)
EXTENDS Integers, Sequences, FiniteSets

CONSTANTS
  Devices,       \* screens of the user; each has one request under way at most
  Sessions,      \* sets of requests: what the screens are used for in one session
  Chests, Dungeons,
  MovesPerEvent, \* steps before the adventurer has to rest
  PotionSteps,   \* steps a potion gives back
  StartGold, Price, ChestGold, ChestPotions,
  MaxUnlocked,   \* MAX_UNLOCKED_DUNGEONS
  SlotsPerDay,   \* access slots in a day
  MaxRevision,   \* bound: revisions of the save
  MaxNow,        \* bound: clock slots that pass
  MaxExplored,   \* bound: milestones of the explored map
  MaxResets,     \* bound: access rights given back by an admin
  MaxReviews,    \* bound: daily reviews that are completed
  Overnight,     \* whether a request may be under way at midnight
  NoDevice

ASSUME AdventureAssumption ==
  /\ Chests \subseteq Nat /\ Dungeons \subseteq Nat
  /\ IsFiniteSet(Dungeons) /\ Dungeons # {}
  /\ {MovesPerEvent, PotionSteps, Price, ChestGold, SlotsPerDay} \subseteq Nat \ {0}
  /\ {StartGold, ChestPotions, MaxUnlocked, MaxRevision, MaxNow,
      MaxExplored, MaxResets, MaxReviews} \subseteq Nat
  /\ Overnight \in BOOLEAN
  /\ NoDevice \notin Devices

Rewards == {"review", "quiz"}
Day(n) == 1 + (n - 1) \div SlotsPerDay
Slots  == 1 .. MaxNow
Days   == 0 .. Day(MaxNow)

\* What a request does, operation by operation (router.py).
Program(kind) ==
  CASE kind = "get"    -> <<"review", "quiz", "unlock">>
    [] kind = "put"    -> <<"put", "review", "quiz">>
    [] OTHER           -> <<kind>>
Operations == {"put", "review", "quiz", "unlock"} \cup UNION Sessions

Event ==
  ({"buy", "drink", "walk"} \X {0}) \cup ({"chest"} \X Chests)
    \cup ({"key", "open"} \X Dungeons) \cup ({"unlock"} \X (1 .. MaxExplored))
    \cup (Rewards \X Days) \cup ({"slot"} \X Slots)

VARIABLES
  save,      \* User.game_state with game_revision
  consumed,  \* User.adventure_consumed_slot, 0 when nothing was consumed
  lock,      \* the request that holds the write lock of the User node
  draft,     \* what that request has written and not committed yet
  pending,   \* what it has done (for the properties)
  step, todo, seen, since, reviewed, want,  \* requests
  copy,      \* what a device shows
  kinds,     \* requests of this session
  now,       \* current clock slot
  finished,  \* <<reward, day>> whose reviews are complete
  resets,
  log        \* what all committed requests did (for the properties)

request == <<step, todo, seen, since, reviewed, want>>
stored  == <<lock, draft, pending>>
vars == <<save, consumed, stored, request, copy, kinds, now, finished, resets, log>>

----------------------------------------------------------------------------
NoEffect == [gold |-> 0, potions |-> 0, steps |-> 0, times |-> [e \in Event |-> 0]]

Fresh ==
  [rev |-> 0, gold |-> StartGold, potions |-> 0,
   marker |-> [m \in Rewards |-> 0], opened |-> {}, keys |-> [r \in Dungeons |-> "none"],
   unlocked |-> <<>>, steps |-> 0, moves |-> 0, phase |-> "path", explored |-> 0]

AnyDungeon == CHOOSE r \in Dungeons : TRUE

\* Dungeons that are already open, the adventurer's own one aside.
OpenDungeons(s) == {s.unlocked[i].target : i \in DOMAIN s.unlocked}

Active(d) == step[d] # "idle"
At(d, op) == step[d] = "write" /\ Head(todo[d]) = op

\* What request d reads: its own writes, otherwise the committed state.
Visible(d) == IF lock = d THEN draft ELSE [save |-> save, consumed |-> consumed]
CanLock(d) == lock \in {d, NoDevice}

\* The operation is over and leaves s as the state that is returned.
\* refresh_dungeon_unlocks works on the state the rewards returned.
Done(d, s) ==
  LET rest == Tail(todo[d]) IN
  /\ todo' = [todo EXCEPT ![d] = rest]
  /\ seen' = [seen EXCEPT ![d] = s]
  /\ step' = [step EXCEPT ![d] = IF rest = <<>> THEN "commit"
                                ELSE IF Head(rest) = "unlock" THEN "write" ELSE "read"]

\* compare_and_save, rows returned.  slot is 0 when no access right is consumed.
\* (Faulty variant: the revision is not compared.)
CompareAndSaveAnyRevision(d, base, new, slot) ==
  /\ CanLock(d)
  /\ slot # 0 => Visible(d).consumed < slot
  /\ lock' = d
  /\ draft' = [save |-> [new EXCEPT !.rev = base + 1],
               consumed |-> IF slot # 0 THEN slot ELSE Visible(d).consumed]
CompareAndSave(d, base, new, slot) ==
  /\ CanLock(d)
  /\ Visible(d).save.rev = base
  /\ slot # 0 => Visible(d).consumed < slot
  /\ lock' = d
  /\ draft' = [save |-> [new EXCEPT !.rev = base + 1],
               consumed |-> IF slot # 0 THEN slot ELSE Visible(d).consumed]

\* compare_and_save, no rows: the lock is held all the same.
Conflict(d, base, slot) ==
  /\ CanLock(d)
  /\ Visible(d).save.rev # base \/ (slot # 0 /\ Visible(d).consumed >= slot)
  /\ lock' = d
  /\ draft' = Visible(d)
  /\ UNCHANGED pending

Effect(e, gold, potions, steps) ==
  pending' = [pending EXCEPT !.gold = @ + gold, !.potions = @ + potions,
                             !.steps = @ + steps, !.times[e] = @ + 1]

Stored(s, base) == [s EXCEPT !.rev = base + 1]

\* time() is read between the start of the operation and the statement.
SlotNow(d) == since[d] .. now

----------------------------------------------------------------------------
Init ==
  /\ save = Fresh /\ consumed = 0
  /\ lock = NoDevice /\ draft = [save |-> Fresh, consumed |-> 0] /\ pending = NoEffect
  /\ step = [d \in Devices |-> "idle"]
  /\ todo = [d \in Devices |-> <<>>]
  /\ seen = [d \in Devices |-> Fresh]
  /\ since = [d \in Devices |-> 1]
  /\ reviewed = [d \in Devices |-> {}]
  /\ want = [d \in Devices |-> AnyDungeon]
  /\ copy = [d \in Devices |-> Fresh]
  /\ kinds \in Sessions
  /\ now = 1 /\ finished = {} /\ resets = 0
  /\ log = NoEffect

----------------------------------------------------------------------------
(* Requests *)

Send(d) ==
  /\ step[d] = "idle"
  /\ save.rev < MaxRevision
  /\ \E kind \in kinds : todo' = [todo EXCEPT ![d] = Program(kind)]
  /\ \E r \in Dungeons : want' = [want EXCEPT ![d] = r]
  /\ step' = [step EXCEPT ![d] = "read"]
  /\ UNCHANGED <<save, consumed, stored, seen, since, reviewed, copy, now,
                 finished, resets, log>>

\* read_state, then the progress of today's reviews.
Read(d) ==
  /\ step[d] = "read"
  /\ seen' = [seen EXCEPT ![d] = Visible(d).save]
  /\ since' = [since EXCEPT ![d] = now]
  /\ reviewed' = [reviewed EXCEPT ![d] = {m \in Rewards : <<m, Day(now)>> \in finished}]
  /\ step' = [step EXCEPT ![d] = "write"]
  /\ UNCHANGED <<save, consumed, stored, todo, want, copy, now, finished, resets, log>>

Released == lock' = NoDevice /\ draft' = [save |-> Fresh, consumed |-> 0] /\ pending' = NoEffect

\* The request is gone, and with it everything it knew.
Forget(d) ==
  /\ step' = [step EXCEPT ![d] = "idle"]
  /\ todo' = [todo EXCEPT ![d] = <<>>]
  /\ seen' = [seen EXCEPT ![d] = Fresh]
  /\ since' = [since EXCEPT ![d] = 1]
  /\ reviewed' = [reviewed EXCEPT ![d] = {}]
  /\ want' = [want EXCEPT ![d] = AnyDungeon]

\* A 2xx response commits.  The response may be lost on its way.
Commit(d) ==
  /\ step[d] = "commit"
  /\ IF lock = d
     THEN /\ save' = draft.save
          /\ consumed' = draft.consumed
          /\ log' = [gold |-> log.gold + pending.gold,
                     potions |-> log.potions + pending.potions,
                     steps |-> log.steps + pending.steps,
                     times |-> [e \in Event |-> log.times[e] + pending.times[e]]]
          /\ Released
     ELSE UNCHANGED <<save, consumed, log, stored>>
  /\ Forget(d)
  /\ \/ copy' = [copy EXCEPT ![d] = seen[d]]
     \/ UNCHANGED copy
  /\ UNCHANGED <<now, finished, resets>>

\* An HTTPException, a deadlock, the deadline or a cancellation rolls back.
Abort(d) ==
  /\ Active(d)
  /\ IF lock = d THEN Released ELSE UNCHANGED stored
  /\ Forget(d)
  /\ UNCHANGED <<save, consumed, copy, now, finished, resets, log>>

\* No operation below touches the committed state or the environment.
Working == UNCHANGED <<save, consumed, since, reviewed, want, copy, now,
                       finished, resets, log>>

----------------------------------------------------------------------------
(* Dungeons opened by exploring: discover_dungeons *)

Milestones(s) ==
  {n \in 1 .. s.explored : \A i \in DOMAIN s.unlocked : s.unlocked[i].step # n}

\* The entries it may append when the user owns these dungeons.  They serve the
\* milestones in order until the list is full or no closed dungeon is left.
Discoveries(s, owned) ==
  LET closed == owned \ OpenDungeons(s)
      room   == MaxUnlocked - Len(s.unlocked)
      count  == CHOOSE k \in 0 .. MaxExplored :
                  /\ k <= room /\ k <= Cardinality(closed) /\ k <= Cardinality(Milestones(s))
                  /\ k = room \/ k = Cardinality(closed) \/ k = Cardinality(Milestones(s))
  IN {e \in [1 .. count -> [step : Milestones(s), target : closed]] :
        /\ \A i, j \in 1 .. count : i < j => e[i].step < e[j].step
        /\ \A i, j \in 1 .. count : e[i].target = e[j].target => i = j
        /\ \A i \in 1 .. count : \A n \in Milestones(s) :
             n < e[i].step => \E j \in 1 .. i - 1 : e[j].step = n}

\* What an operation did, with the dungeons it opened on the way.
EffectWith(events, steps) ==
  pending' = [pending EXCEPT !.steps = @ + steps,
                !.times = [e \in Event |-> IF e \in events THEN @[e] + 1 ELSE @[e]]]
Opened(found) == {<<"unlock", found[i].step>> : i \in DOMAIN found}
                   \cup {<<"open", found[i].target>> : i \in DOMAIN found}

RefreshUnlocks(d) ==
  /\ At(d, "unlock")
  /\ \E owned \in SUBSET Dungeons :
       \E found \in Discoveries(seen[d], owned) :
         LET new == [seen[d] EXCEPT !.unlocked = @ \o found]
         IN IF found = <<>>
            THEN Done(d, seen[d]) /\ UNCHANGED stored
            ELSE \/ /\ CompareAndSave(d, seen[d].rev, new, 0)
                    /\ EffectWith(Opened(found), 0)
                    /\ Done(d, Stored(new, seen[d].rev))
                 \/ /\ Conflict(d, seen[d].rev, 0)
                    /\ Done(d, Visible(d).save)
  /\ Working

----------------------------------------------------------------------------
(* PUT /state: the device sends the snapshot it computed from its copy *)

\* What an honest screen does with its copy: a step, an encounter, or the refill
\* that costs the access right of the slot.
Walked(c) ==
  {[c EXCEPT !.moves = @ + 1, !.explored = n,
             !.phase = IF c.moves + 1 = MovesPerEvent THEN "rest" ELSE "path"] :
     n \in c.explored .. IF c.explored < MaxExplored THEN c.explored + 1 ELSE MaxExplored}
Met(c)      == [c EXCEPT !.phase = "battle"]
Refilled(c) == [c EXCEPT !.moves = 0, !.phase = "path"]
Snapshots(c) ==
  CASE c.phase = "path" -> Walked(c) \cup {Met(c)}
    [] c.phase = "rest" -> {Refilled(c)}
    [] OTHER            -> {}

\* write_state: the server keeps its own economy, keys and dungeons, and counts
\* the steps.
PutState(d) ==
  LET c == copy[d]
      p == seen[d]
      consume == c.phase = "rest"
      walked(s) == IF s.moves > p.moves THEN s.moves - p.moves ELSE 0
      merged(s) == [p EXCEPT !.moves = s.moves, !.phase = s.phase, !.explored = s.explored,
                             !.steps = @ + walked(s)]
  IN /\ At(d, "put")
     /\ \E s \in Snapshots(c) :
        \E owned \in SUBSET Dungeons :
        \E found \in Discoveries(merged(s), owned) :
        \E slot \in IF consume THEN SlotNow(d) ELSE {0} :
          LET new == [merged(s) EXCEPT !.unlocked = @ \o found] IN
          /\ CompareAndSave(d, c.rev, new, slot)
          /\ EffectWith(Opened(found)
                          \cup (IF walked(s) > 0 THEN {<<"walk", 0>>} ELSE {})
                          \cup (IF slot # 0 THEN {<<"slot", slot>>} ELSE {}),
                        walked(s))
          /\ Done(d, Stored(new, c.rev))
     /\ Working

----------------------------------------------------------------------------
(* Operations of the server on the save it read *)

\* grant_review_reward.  The progress, and its day, are read once; after a
\* conflict only the state is read again, now under the lock.
\* (Faulty variant: the marker of the day is not tested again.)
GrantReviewBlind(d, m) ==
  LET day == Day(since[d])
      new == [seen[d] EXCEPT !.potions = @ + 1, !.marker[m] = day]
  IN /\ At(d, m)
     /\ IF m \notin reviewed[d]
        THEN Done(d, seen[d]) /\ UNCHANGED stored
        ELSE \/ /\ CompareAndSave(d, seen[d].rev, new, 0)
                /\ Effect(<<m, day>>, 0, 1, 0)
                /\ Done(d, Stored(new, seen[d].rev))
             \/ /\ Conflict(d, seen[d].rev, 0)
                /\ seen' = [seen EXCEPT ![d] = Visible(d).save]
                /\ UNCHANGED <<step, todo>>
     /\ Working
GrantReview(d, m) ==
  LET day == Day(since[d])
      new == [seen[d] EXCEPT !.potions = @ + 1, !.marker[m] = day]
  IN /\ At(d, m)
     /\ IF m \notin reviewed[d] \/ seen[d].marker[m] = day
        THEN Done(d, seen[d]) /\ UNCHANGED stored
        ELSE \/ /\ CompareAndSave(d, seen[d].rev, new, 0)
                /\ Effect(<<m, day>>, 0, 1, 0)
                /\ Done(d, Stored(new, seen[d].rev))
             \/ /\ Conflict(d, seen[d].rev, 0)
                /\ seen' = [seen EXCEPT ![d] = Visible(d).save]
                /\ UNCHANGED <<step, todo>>
     /\ Working

\* recover_state: refill when the clock slot is not consumed; a conflict means that
\* another screen was faster.
Recover(d) ==
  LET new == [seen[d] EXCEPT !.moves = 0, !.phase = IF @ = "rest" THEN "path" ELSE @]
  IN /\ At(d, "recover")
     /\ \/ /\ Visible(d).consumed >= now
           /\ Done(d, seen[d])
           /\ UNCHANGED stored
        \/ /\ Visible(d).consumed < now
           /\ \E slot \in SlotNow(d) :
                \/ /\ CompareAndSave(d, seen[d].rev, new, slot)
                   /\ Effect(<<"slot", slot>>, 0, 0, 0)
                   /\ Done(d, Stored(new, seen[d].rev))
                \/ /\ Conflict(d, seen[d].rev, slot)
                   /\ Done(d, Visible(d).save)
     /\ Working

\* Operations that the device asks for at a revision, outside battle.
Asked(d, op) == At(d, op) /\ copy[d].rev = seen[d].rev /\ seen[d].phase # "battle"

Buy(d) ==
  LET new == [seen[d] EXCEPT !.gold = @ - Price] IN
  /\ Asked(d, "buy")
  /\ seen[d].gold >= Price
  /\ CompareAndSave(d, seen[d].rev, new, 0)
  /\ Effect(<<"buy", 0>>, -Price, 0, 0)
  /\ Done(d, Stored(new, seen[d].rev))
  /\ Working

UsePotion(d) ==
  LET new == [seen[d] EXCEPT !.potions = @ - 1,
                !.moves = IF @ > PotionSteps THEN @ - PotionSteps ELSE 0,
                !.phase = "path"]
  IN /\ Asked(d, "drink")
     /\ seen[d].potions > 0 /\ seen[d].moves > 0
     /\ CompareAndSave(d, seen[d].rev, new, 0)
     /\ Effect(<<"drink", 0>>, 0, -1, 0)
     /\ Done(d, Stored(new, seen[d].rev))
     /\ Working

UseKey(d) ==
  LET r == want[d]
      new == [seen[d] EXCEPT !.keys[r] = "spent",
                             !.unlocked = Append(@, [step |-> 0, target |-> r])]
  IN /\ Asked(d, "use")
     /\ seen[d].keys[r] = "held"
     /\ r \notin OpenDungeons(seen[d])
     /\ Len(seen[d].unlocked) < MaxUnlocked
     /\ CompareAndSave(d, seen[d].rev, new, 0)
     /\ Effect(<<"open", r>>, 0, 0, 0)
     /\ Done(d, Stored(new, seen[d].rev))
     /\ Working

\* open_chest: a chest that was opened before is only visited.
OpenChest(d) ==
  /\ Asked(d, "chest")
  /\ \E c \in Chests :
       LET new == [seen[d] EXCEPT !.opened = @ \cup {c}, !.gold = @ + ChestGold,
                                  !.potions = @ + ChestPotions]
       IN IF c \in seen[d].opened
          THEN /\ CompareAndSave(d, seen[d].rev, seen[d], 0)
               /\ UNCHANGED pending
               /\ Done(d, Stored(seen[d], seen[d].rev))
          ELSE /\ CompareAndSave(d, seen[d].rev, new, 0)
               /\ Effect(<<"chest", c>>, ChestGold, ChestPotions, 0)
               /\ Done(d, Stored(new, seen[d].rev))
  /\ Working

\* grant_dungeon_key at an import: once per resource, spent at once when the
\* dungeon is open already.  A conflict is retried under the lock.
GrantKey(d) ==
  LET r == want[d]
      new == [seen[d] EXCEPT !.keys[r] = IF r \in OpenDungeons(seen[d])
                                         THEN "spent" ELSE "held"]
  IN /\ At(d, "import")
     /\ IF seen[d].keys[r] # "none"
        THEN Done(d, seen[d]) /\ UNCHANGED stored
        ELSE \/ /\ CompareAndSave(d, seen[d].rev, new, 0)
                /\ Effect(<<"key", r>>, 0, 0, 0)
                /\ Done(d, Stored(new, seen[d].rev))
             \/ /\ Conflict(d, seen[d].rev, 0)
                /\ seen' = [seen EXCEPT ![d] = Visible(d).save]
                /\ UNCHANGED <<step, todo>>
     /\ Working

\* claim_dungeon_key: a key of somebody else's dungeon, once.
ClaimKey(d) ==
  LET r == want[d]
      new == [seen[d] EXCEPT !.keys[r] = "held"]
  IN /\ Asked(d, "claim")
     /\ IF r \in OpenDungeons(seen[d]) \/ seen[d].keys[r] # "none"
        THEN Done(d, seen[d]) /\ UNCHANGED stored
        ELSE /\ CompareAndSave(d, seen[d].rev, new, 0)
             /\ Effect(<<"key", r>>, 0, 0, 0)
             /\ Done(d, Stored(new, seen[d].rev))
     /\ Working

\* abandon_combat of a battle without a marker.
LeaveBattle(d) ==
  LET new == [seen[d] EXCEPT !.phase = IF seen[d].moves >= MovesPerEvent
                                       THEN "rest" ELSE "path"]
  IN /\ At(d, "abandon")
     /\ seen[d].phase = "battle"
     /\ CompareAndSave(d, seen[d].rev, new, 0)
     /\ UNCHANGED pending
     /\ Done(d, Stored(new, seen[d].rev))
     /\ Working

\* POST /adventure-access/consume: the slot only, the save keeps its revision.
ConsumeAccess(d) ==
  /\ At(d, "consume")
  /\ CanLock(d)
  /\ \E slot \in SlotNow(d) :
       /\ Visible(d).consumed < slot
       /\ lock' = d
       /\ draft' = [Visible(d) EXCEPT !.consumed = slot]
       /\ Effect(<<"slot", slot>>, 0, 0, 0)
  /\ Done(d, copy[d])
  /\ Working

\* reset_adventure_access by an admin.
ResetAccess ==
  /\ resets < MaxResets
  /\ lock = NoDevice
  /\ consumed' = 0
  /\ resets' = resets + 1
  /\ UNCHANGED <<save, stored, request, copy, now, finished, log>>

----------------------------------------------------------------------------
(* The user reviews, and time passes *)

FinishReview(m) ==
  /\ finished' = finished \cup {<<m, Day(now)>>}
  /\ finished' # finished
  /\ Cardinality(finished) < MaxReviews
  /\ UNCHANGED <<save, consumed, stored, request, copy, now, resets, log>>

Tick ==
  /\ now < MaxNow
  /\ Overnight \/ Day(now + 1) = Day(now) \/ \A d \in Devices : ~Active(d)
  /\ now' = now + 1
  /\ UNCHANGED <<save, consumed, stored, request, copy, finished, resets, log>>

Operation(d) ==
  \/ PutState(d) \/ RefreshUnlocks(d) \/ \E m \in Rewards : GrantReview(d, m)
  \/ Recover(d) \/ Buy(d) \/ UsePotion(d) \/ UseKey(d) \/ OpenChest(d)
  \/ GrantKey(d) \/ ClaimKey(d) \/ LeaveBattle(d) \/ ConsumeAccess(d)

Next ==
  /\ \/ \E d \in Devices : Send(d) \/ Read(d) \/ Operation(d) \/ Commit(d) \/ Abort(d)
     \/ ResetAccess
     \/ \E m \in Rewards : FinishReview(m)
     \/ Tick
  /\ UNCHANGED kinds

Spec == Init /\ [][Next]_vars

----------------------------------------------------------------------------
(* Properties *)

Save ==
  [rev : Nat, gold : Nat, potions : Nat, marker : [Rewards -> Nat],
   opened : SUBSET Chests, keys : [Dungeons -> {"none", "held", "spent"}],
   unlocked : Seq([step : 0 .. MaxExplored, target : Dungeons]),
   steps : Nat, moves : 0 .. MovesPerEvent, phase : {"path", "rest", "battle"},
   explored : 0 .. MaxExplored]
Log == [gold : Int, potions : Int, steps : Nat, times : [Event -> Nat]]

\* The shape of every variable; in particular neither gold nor potions are negative,
\* and no more steps are taken than fit before a rest.
TypeOK ==
  /\ save \in Save /\ consumed \in Nat
  /\ lock \in Devices \cup {NoDevice}
  /\ draft \in [save : Save, consumed : Nat]
  /\ pending \in Log /\ log \in Log
  /\ step \in [Devices -> {"idle", "read", "write", "commit"}]
  /\ todo \in [Devices -> Seq(Operations)]
  /\ seen \in [Devices -> Save] /\ copy \in [Devices -> Save]
  /\ since \in [Devices -> Nat] /\ now \in Nat /\ resets \in Nat
  /\ reviewed \in [Devices -> SUBSET Rewards] /\ want \in [Devices -> Dungeons]
  /\ finished \subseteq Rewards \X Nat

\* Nothing that a committed request earned, spent or walked is lost to the whole-
\* document write of another device, nothing counts twice (state.py:465-516), and
\* nobody is overdrawn.
BooksBalance ==
  /\ TypeOK
  /\ save.gold = StartGold + log.gold
  /\ save.potions = log.potions
  /\ save.steps = log.steps

\* A chest pays once, a resource gives one key, a dungeon is opened once and a
\* milestone is served once (treasure.py:115-129, dungeon_keys.py:75-116,
\* unlocks.py:42-96).
FindsOnce ==
  \A e \in Event : e[1] \in {"chest", "key", "open", "unlock"} => log.times[e] <= 1

\* A review reward is given at most once for each day, when no request is under way
\* at midnight (economy.py:200-247).
RewardOncePerDay == \A m \in Rewards, n \in Days : log.times[<<m, n>>] <= 1

\* The access right of a clock slot is used once, plus once for each reset, no
\* matter which of the three requests uses it (access.py:44-64, state.py:498-506).
SlotUsedOnce == \A n \in Slots : log.times[<<"slot", n>>] <= 1 + resets

\* However often and from however many devices a request is repeated, a find, a
\* reward and an access right count once.
OnceOnly == FindsOnce /\ RewardOncePerDay /\ SlotUsedOnce

\* A revision names one content: a device whose copy carries the current revision
\* has the current save.  This is what makes comparing revisions enough.
RevisionNamesContent ==
  /\ \A d \in Devices : copy[d].rev = save.rev => copy[d] = save
  /\ \A d \in Devices :
       step[d] = "write" /\ lock # d /\ seen[d].rev = save.rev => seen[d] = save

============================================================================
