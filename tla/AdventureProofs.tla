--------------------------- MODULE AdventureProofs ---------------------------
(***************************************************************************)
(* Proofs about AdventureState for every number of devices and dungeons,   *)
(* every price and every bound: revisions name contents, so that a stale   *)
(* device never overwrites what another one has saved, the books of gold,  *)
(* potions and steps balance, and what must count once counts once.        *)
(***************************************************************************)
EXTENDS AdventureState, FiniteSetTheorems, TLAPS

USE AdventureAssumption

----------------------------------------------------------------------------
(* The invariant.                                                            *)

Entries == [step : 0 .. MaxExplored, target : Dungeons]

Markers  == [Rewards -> Nat]
Found    == SUBSET Chests
KeyRing  == [Dungeons -> {"none", "held", "spent"}]
Lists    == {u \in Seq(Entries) : Len(u) <= MaxUnlocked}
Walks    == 0 .. MovesPerEvent
Phases   == {"path", "rest", "battle"}
Explored == 0 .. MaxExplored

(* The saves the program can make: an adventurer on a path may take a step, and the
   list of dungeons is never too long.                                              *)
Form == [rev : Nat, gold : Nat, potions : Nat, marker : Markers, opened : Found, keys : KeyRing,
         unlocked : Lists, steps : Nat, moves : Walks, phase : Phases, explored : Explored]
Doc == {s \in Form : s.phase = "path" => s.moves < MovesPerEvent}

Shape ==
  /\ save \in Doc /\ consumed \in Nat
  /\ lock \in Devices \cup {NoDevice}
  /\ draft \in [save : Doc, consumed : Nat]
  /\ pending \in Log /\ log \in Log
  /\ seen \in [Devices -> Doc] /\ copy \in [Devices -> Doc]
  /\ since \in [Devices -> Nat \ {0}] /\ now \in Nat \ {0} /\ resets \in Nat
  /\ reviewed \in [Devices -> SUBSET Rewards] /\ want \in [Devices -> Dungeons]
  /\ finished \subseteq Rewards \X Nat /\ kinds \in Sessions

(* A request that has not ended still has something to do.                    *)
Steps ==
  /\ step \in [Devices -> {"idle", "read", "write", "commit"}]
  /\ todo \in [Devices -> Seq(Operations)]
  /\ \A d \in Devices : step[d] \in {"read", "write"} => todo[d] # <<>>

(* s is t or an older save.                                                   *)
Older(s, t) == s.rev <= t.rev /\ (s.rev = t.rev => s = t)

(* What is committed comes before what is drafted; what a device shows or a request
   has read is an older save, or the one it would read now.                       *)
Chain ==
  /\ lock # NoDevice => Older(save, draft.save)
  /\ \A d \in Devices : Older(copy[d], save)
  /\ \A d \in Devices : step[d] \in {"write", "commit"} =>
        Older(seen[d], Visible(d).save) /\ copy[d].rev <= seen[d].rev

(* The committed save is what the committed requests did, the draft also what its
   own request did.                                                                *)
Books ==
  /\ save.gold = StartGold + log.gold /\ save.potions = log.potions /\ save.steps = log.steps
  /\ lock # NoDevice => /\ draft.save.gold = StartGold + log.gold + pending.gold
                        /\ draft.save.potions = log.potions + pending.potions
                        /\ draft.save.steps = log.steps + pending.steps
  /\ lock = NoDevice => pending = NoEffect

Inv == Shape /\ Steps /\ Chain /\ Books

----------------------------------------------------------------------------
(* Documents.                                                                *)

LEMMA FreshDoc == Fresh \in Doc
<1>1. /\ [m \in Rewards |-> 0] \in Markers /\ {} \in Found
      /\ [r \in Dungeons |-> "none"] \in KeyRing /\ <<>> \in Lists
  BY DEF Markers, Found, KeyRing, Lists
<1>2. 0 \in Walks /\ "path" \in Phases /\ 0 \in Explored
  BY DEF Walks, Phases, Explored
<1>3. Fresh \in Form
  BY <1>1, <1>2 DEF Fresh, Form
<1>. QED
  BY <1>3 DEF Fresh, Doc

LEMMA NoEffectLog == NoEffect \in Log
BY DEF NoEffect, Log

LEMMA DocFields ==
  ASSUME NEW s \in Doc
  PROVE  /\ s \in Form /\ s.rev \in Nat /\ s.gold \in Nat /\ s.potions \in Nat
         /\ s.marker \in Markers /\ s.opened \in Found /\ s.keys \in KeyRing
         /\ s.unlocked \in Lists /\ s.steps \in Nat /\ s.moves \in Walks
         /\ s.phase \in Phases /\ s.explored \in Explored
         /\ s.phase = "path" => s.moves < MovesPerEvent
BY DEF Doc, Form

LEMMA DocTyped == Doc \subseteq Save
BY DEF Doc, Form, Save, Markers, Found, KeyRing, Lists, Walks, Phases, Explored, Entries

LEMMA StoredDoc ==
  ASSUME NEW s \in Doc, NEW base \in Nat
  PROVE  /\ Stored(s, base) \in Doc /\ Stored(s, base).rev = base + 1
         /\ Stored(s, base).gold = s.gold /\ Stored(s, base).potions = s.potions
         /\ Stored(s, base).steps = s.steps
<1>1. base + 1 \in Nat
  OBVIOUS
<1>. QED
  BY <1>1 DEF Stored, Doc, Form

LEMMA OlderTransitive ==
  ASSUME NEW s \in Doc, NEW t \in Doc, NEW u \in Doc, Older(s, t), Older(t, u)
  PROVE  Older(s, u)
BY DocFields DEF Older

(* What a device reads, and what it would write on.                           *)
LEMMA VisibleFacts ==
  ASSUME Inv, NEW d \in Devices
  PROVE  /\ Visible(d) \in [save : Doc, consumed : Nat] /\ Visible(d).save \in Doc
         /\ Older(save, Visible(d).save)
         /\ CanLock(d) => /\ Visible(d).save.gold = StartGold + log.gold + pending.gold
                          /\ Visible(d).save.potions = log.potions + pending.potions
                          /\ Visible(d).save.steps = log.steps + pending.steps
<1>. USE DEF Inv
<1>0. d # NoDevice
  OBVIOUS
<1>1. CASE lock = d
  <2>1. Visible(d) = draft
    BY <1>1 DEF Visible
  <2>. QED
    BY <1>0, <1>1, <2>1 DEF Shape, Chain, Books
<1>2. CASE lock # d
  <2>1. Visible(d).save = save /\ Visible(d) = [save |-> save, consumed |-> consumed]
    BY <1>2 DEF Visible
  <2>2. Older(save, save)
    BY DocFields DEF Older, Shape
  <2>3. CanLock(d) => pending = NoEffect
    BY <1>2 DEF CanLock, Books
  <2>4. NoEffect.gold = 0 /\ NoEffect.potions = 0 /\ NoEffect.steps = 0
    BY DEF NoEffect
  <2>5. log.gold \in Int /\ log.potions \in Int /\ log.steps \in Int
    BY DEF Shape, Log
  <2>. QED
    BY <2>1, <2>2, <2>3, <2>4, <2>5 DEF Shape, Books
<1>. QED
  BY <1>1, <1>2

----------------------------------------------------------------------------
(* What the operations have in common.                                       *)

LEMMA DoneSteps ==
  ASSUME Inv, NEW d \in Devices, step[d] = "write", NEW s \in Doc, Done(d, s)
  PROVE  /\ Steps' /\ seen' = [seen EXCEPT ![d] = s] /\ seen' \in [Devices -> Doc]
         /\ \A e \in Devices : e # d => step'[e] = step[e] /\ seen'[e] = seen[e]
         /\ seen'[d] = s
<1>. USE DEF Inv
<1>1. todo[d] \in Seq(Operations) /\ todo[d] # <<>> /\ Tail(todo[d]) \in Seq(Operations)
  BY DEF Steps
<1>2. todo' \in [Devices -> Seq(Operations)]
  BY <1>1 DEF Done, Steps
<1>3. /\ step' \in [Devices -> {"idle", "read", "write", "commit"}]
      /\ step'[d] \in {"read", "write"} => todo'[d] # <<>>
  BY <1>1 DEF Done, Steps
<1>4. \A e \in Devices : e # d => step'[e] = step[e] /\ todo'[e] = todo[e]
  BY DEF Done, Steps
<1>5. /\ seen' = [seen EXCEPT ![d] = s] /\ seen' \in [Devices -> Doc] /\ seen'[d] = s
      /\ \A e \in Devices : e # d => seen'[e] = seen[e]
  BY DEF Done, Shape
<1>. QED
  BY <1>2, <1>3, <1>4, <1>5 DEF Steps

(* Nothing is stored.                                                         *)
LEMMA KeptInv ==
  ASSUME Inv, NEW d \in Devices, step[d] = "write", Done(d, seen[d]),
         UNCHANGED stored, Working, UNCHANGED kinds
  PROVE  Inv'
<1>. USE DEF Inv
<1>1. seen[d] \in Doc
  BY DEF Shape
<1>2. /\ Steps' /\ seen' = seen
      /\ \A e \in Devices : step'[e] \in {"write", "commit"} => step[e] \in {"write", "commit"}
  BY <1>1, DoneSteps DEF Shape
<1>3. Shape'
  BY <1>2 DEF Shape, Working, stored
<1>4. Chain'
  BY <1>2 DEF Chain, Working, stored, Visible
<1>5. Books'
  BY DEF Books, Working, stored
<1>. QED
  BY <1>2, <1>3, <1>4, <1>5

(* The save is found changed: the request goes on with the save it finds.     *)
LEMMA ConflictInv ==
  ASSUME Inv, NEW d \in Devices, step[d] = "write", NEW base, NEW slot, Conflict(d, base, slot),
         \/ Done(d, Visible(d).save)
         \/ seen' = [seen EXCEPT ![d] = Visible(d).save] /\ UNCHANGED <<step, todo>>,
         Working, UNCHANGED kinds
  PROVE  Inv'
<1>. USE DEF Inv
<1>1. /\ CanLock(d) /\ lock' = d /\ draft' = Visible(d) /\ pending' = pending
      /\ d # NoDevice
  BY DEF Conflict
<1>2. /\ Visible(d) \in [save : Doc, consumed : Nat] /\ Visible(d).save \in Doc
      /\ Older(save, Visible(d).save)
      /\ Visible(d).save.gold = StartGold + log.gold + pending.gold
      /\ Visible(d).save.potions = log.potions + pending.potions
      /\ Visible(d).save.steps = log.steps + pending.steps
  BY <1>1, VisibleFacts
<1>3. /\ Steps' /\ seen' \in [Devices -> Doc] /\ seen'[d] = Visible(d).save
      /\ \A e \in Devices : e # d => step'[e] = step[e] /\ seen'[e] = seen[e]
  <2>1. CASE Done(d, Visible(d).save)
    BY <2>1, <1>2, DoneSteps
  <2>2. CASE seen' = [seen EXCEPT ![d] = Visible(d).save] /\ UNCHANGED <<step, todo>>
    BY <2>2, <1>2 DEF Shape, Steps
  <2>. QED
    BY <2>1, <2>2
<1>4. Shape'
  BY <1>1, <1>2, <1>3 DEF Shape, Working
<1>5. Books'
  BY <1>1, <1>2 DEF Books, Working
<1>6. Chain'
  <2>1. \A e \in Devices : e # d => Visible(e)' = Visible(e)
    BY <1>1 DEF Visible, CanLock, Working
  <2>2. Visible(d)' = Visible(d)
    BY <1>1 DEF Visible
  <2>3. Older(Visible(d).save, Visible(d).save)
    BY <1>2, DocFields DEF Older
  <2>4. copy[d].rev <= Visible(d).save.rev
    BY <1>2, DocFields DEF Chain, Older, Shape
  <2>5. \A e \in Devices : step'[e] \in {"write", "commit"} =>
          Older(seen'[e], Visible(e)'.save) /\ copy[e].rev <= seen'[e].rev
    BY <2>1, <2>2, <2>3, <2>4, <1>3 DEF Chain
  <2>6. Older(save, draft'.save)
    BY <1>1, <1>2
  <2>. QED
    BY <2>5, <2>6 DEF Chain, Working, Older
<1>. QED
  BY <1>3, <1>4, <1>5, <1>6

(* The save is found as it was read, and a new one is stored.                 *)
LEMMA StoreInv ==
  ASSUME Inv, NEW d \in Devices, step[d] = "write", NEW base, NEW slot \in Nat,
         seen[d].rev = Visible(d).save.rev, NEW new \in Doc,
         CompareAndSave(d, base, new, slot), Done(d, Stored(new, base)),
         pending' \in Log,
         pending'.gold = pending.gold + (new.gold - seen[d].gold),
         pending'.potions = pending.potions + (new.potions - seen[d].potions),
         pending'.steps = pending.steps + (new.steps - seen[d].steps),
         Working, UNCHANGED kinds
  PROVE  Inv'
<1>. USE DEF Inv
<1>. DEFINE next == Stored(new, base)
<1>0. /\ CanLock(d) /\ lock' = d /\ d # NoDevice /\ Visible(d).save.rev = base
      /\ draft' = [save |-> next, consumed |-> IF slot # 0 THEN slot ELSE Visible(d).consumed]
  BY DEF CompareAndSave, Stored
<1>1. /\ Visible(d) \in [save : Doc, consumed : Nat] /\ Visible(d).save \in Doc
      /\ Older(save, Visible(d).save)
      /\ Visible(d).save.gold = StartGold + log.gold + pending.gold
      /\ Visible(d).save.potions = log.potions + pending.potions
      /\ Visible(d).save.steps = log.steps + pending.steps
  BY <1>0, VisibleFacts
<1>2. seen[d] = Visible(d).save
  BY DEF Chain, Older
<1>3. /\ base \in Nat /\ next \in Doc /\ next.rev = base + 1
      /\ next.gold = new.gold /\ next.potions = new.potions /\ next.steps = new.steps
  BY <1>0, <1>1, DocFields, StoredDoc
<1>. HIDE DEF next
<1>4. /\ Steps' /\ seen' \in [Devices -> Doc] /\ seen'[d] = next
      /\ \A e \in Devices : e # d => step'[e] = step[e] /\ seen'[e] = seen[e]
  BY <1>3, DoneSteps DEF next
<1>5. draft' \in [save : Doc, consumed : Nat] /\ draft'.save = next
  BY <1>0, <1>1, <1>3
<1>6. Shape'
  BY <1>0, <1>4, <1>5 DEF Shape, Working
<1>7. Books'
  <2>1. /\ pending.gold \in Int /\ pending.potions \in Int /\ pending.steps \in Int
        /\ log.gold \in Int /\ log.potions \in Int /\ log.steps \in Int
        /\ seen[d].gold \in Int /\ seen[d].potions \in Int /\ seen[d].steps \in Int
        /\ new.gold \in Int /\ new.potions \in Int /\ new.steps \in Int
    BY <1>1, <1>2, DocFields DEF Shape, Log
  <2>2. /\ new.gold = StartGold + log.gold + pending'.gold
        /\ new.potions = log.potions + pending'.potions
        /\ new.steps = log.steps + pending'.steps
    BY <2>1, <1>1, <1>2
  <2>. QED
    BY <2>2, <1>0, <1>3, <1>5 DEF Books, Working
<1>8. Chain'
  <2>1. \A e \in Devices : e # d => Visible(e)' = Visible(e)
    BY <1>0 DEF Visible, CanLock, Working
  <2>2. Visible(d)'.save = next
    BY <1>0, <1>5 DEF Visible
  <2>3. /\ save.rev \in Nat /\ copy[d].rev \in Nat /\ save.rev <= base /\ copy[d].rev <= save.rev
    BY <1>0, <1>1, DocFields DEF Shape, Chain, Older
  <2>4. Older(save, next) /\ Older(next, next) /\ copy[d].rev <= next.rev
    BY <2>3, <1>3 DEF Older
  <2>5. \A e \in Devices : step'[e] \in {"write", "commit"} =>
          Older(seen'[e], Visible(e)'.save) /\ copy[e].rev <= seen'[e].rev
    BY <2>1, <2>2, <2>4, <1>4 DEF Chain
  <2>. QED
    BY <2>4, <2>5, <1>5 DEF Chain, Working, Older
<1>. QED
  BY <1>4, <1>6, <1>7, <1>8

----------------------------------------------------------------------------
(* What an operation enters in the books.                                    *)

LEMMA EffectLog ==
  ASSUME pending \in Log, NEW e, NEW gold \in Int, NEW potions \in Int, NEW steps \in Nat,
         Effect(e, gold, potions, steps)
  PROVE  /\ pending' \in Log /\ pending'.gold = pending.gold + gold
         /\ pending'.potions = pending.potions + potions
         /\ pending'.steps = pending.steps + steps
<1>1. pending.times \in [Event -> Nat]
  BY DEF Log
<1>2. PICK times : times = [pending.times EXCEPT ![e] = @ + 1]
  OBVIOUS
<1>3. times \in [Event -> Nat]
  <2>1. CASE e \in Event
    BY <2>1, <1>1, <1>2
  <2>2. CASE e \notin Event
    BY <2>2, <1>1, <1>2
  <2>. QED
    BY <2>1, <2>2
<1>4. pending' = [pending EXCEPT !.gold = @ + gold, !.potions = @ + potions, !.steps = @ + steps,
                                 !.times = times]
  BY <1>2 DEF Effect
<1>5. /\ pending.gold + gold \in Int /\ pending.potions + potions \in Int
      /\ pending.steps + steps \in Nat
  BY DEF Log
<1>. QED
  BY <1>3, <1>4, <1>5 DEF Log

LEMMA EffectWithLog ==
  ASSUME pending \in Log, NEW events, NEW steps \in Nat, EffectWith(events, steps)
  PROVE  /\ pending' \in Log /\ pending'.gold = pending.gold
         /\ pending'.potions = pending.potions /\ pending'.steps = pending.steps + steps
<1>. DEFINE times == [e \in Event |-> IF e \in events THEN pending.times[e] + 1 ELSE pending.times[e]]
<1>1. pending.times \in [Event -> Nat]
  BY DEF Log
<1>2. times \in [Event -> Nat]
  BY <1>1
<1>3. pending' = [pending EXCEPT !.steps = @ + steps, !.times = times]
  BY DEF EffectWith
<1>4. pending.steps + steps \in Nat
  BY DEF Log
<1>. HIDE DEF times
<1>. QED
  BY <1>2, <1>3, <1>4 DEF Log

----------------------------------------------------------------------------
(* The operations.                                                           *)

LEMMA BuyInv ==
  ASSUME Inv, NEW d \in Devices, Buy(d), UNCHANGED kinds
  PROVE  Inv'
<1>. DEFINE new == [seen[d] EXCEPT !.gold = @ - Price]
<1>1. seen[d] \in Doc /\ pending \in Log
  BY DEF Inv, Shape
<1>2. /\ step[d] = "write" /\ CompareAndSave(d, seen[d].rev, new, 0)
      /\ Done(d, Stored(new, seen[d].rev)) /\ Working /\ seen[d].gold >= Price
      /\ Effect(<<"buy", 0>>, -Price, 0, 0) /\ seen[d].rev = Visible(d).save.rev
  BY DEF Buy, Asked, At, CompareAndSave
<1>3. seen[d].gold - Price \in Nat
  BY <1>1, <1>2, DocFields
<1>4. new \in Doc /\ new.gold = seen[d].gold - Price /\ new.potions = seen[d].potions
      /\ new.steps = seen[d].steps
  BY <1>1, <1>3 DEF Doc, Form
<1>5. pending' \in Log /\ pending'.gold = pending.gold - Price
      /\ pending'.potions = pending.potions /\ pending'.steps = pending.steps
  BY <1>1, <1>2, EffectLog DEF Log
<1>6. /\ pending'.gold = pending.gold + (new.gold - seen[d].gold)
      /\ pending'.potions = pending.potions + (new.potions - seen[d].potions)
      /\ pending'.steps = pending.steps + (new.steps - seen[d].steps)
  BY <1>1, <1>4, <1>5, DocFields DEF Log
<1>. HIDE DEF new
<1>. QED
  BY <1>2, <1>4, <1>5, <1>6, StoreInv

LEMMA UsePotionInv ==
  ASSUME Inv, NEW d \in Devices, UsePotion(d), UNCHANGED kinds
  PROVE  Inv'
<1>. DEFINE left == IF seen[d].moves > PotionSteps THEN seen[d].moves - PotionSteps ELSE 0
            new == [seen[d] EXCEPT !.potions = @ - 1, !.moves = left, !.phase = "path"]
<1>1. seen[d] \in Doc /\ pending \in Log
  BY DEF Inv, Shape
<1>2. /\ step[d] = "write" /\ CompareAndSave(d, seen[d].rev, new, 0)
      /\ Done(d, Stored(new, seen[d].rev)) /\ Working
      /\ seen[d].potions > 0 /\ seen[d].moves > 0
      /\ Effect(<<"drink", 0>>, 0, -1, 0) /\ seen[d].rev = Visible(d).save.rev
  BY DEF UsePotion, Asked, At, CompareAndSave
<1>3. seen[d].potions - 1 \in Nat /\ left \in Walks /\ left < MovesPerEvent /\ "path" \in Phases
  BY <1>1, <1>2, DocFields DEF Walks, Phases
<1>. HIDE DEF left
<1>4. new \in Doc /\ new.potions = seen[d].potions - 1 /\ new.gold = seen[d].gold
      /\ new.steps = seen[d].steps
  BY <1>1, <1>3 DEF Doc, Form
<1>5. pending' \in Log /\ pending'.gold = pending.gold
      /\ pending'.potions = pending.potions - 1 /\ pending'.steps = pending.steps
  BY <1>1, <1>2, EffectLog DEF Log
<1>6. /\ pending'.gold = pending.gold + (new.gold - seen[d].gold)
      /\ pending'.potions = pending.potions + (new.potions - seen[d].potions)
      /\ pending'.steps = pending.steps + (new.steps - seen[d].steps)
  BY <1>1, <1>4, <1>5, DocFields DEF Log
<1>. HIDE DEF new
<1>. QED
  BY <1>2, <1>4, <1>5, <1>6, StoreInv

(* A save with the same gold, potions and steps, and no entry for these.       *)
LEMMA EvenInv ==
  ASSUME Inv, NEW d \in Devices, step[d] = "write", NEW base, NEW slot \in Nat,
         seen[d].rev = Visible(d).save.rev, NEW new \in Doc,
         CompareAndSave(d, base, new, slot), Done(d, Stored(new, base)),
         new.gold = seen[d].gold, new.potions = seen[d].potions, new.steps = seen[d].steps,
         \/ UNCHANGED pending
         \/ \E e : Effect(e, 0, 0, 0)
         \/ \E events : EffectWith(events, 0),
         Working, UNCHANGED kinds
  PROVE  Inv'
<1>1. seen[d] \in Doc /\ pending \in Log
  BY DEF Inv, Shape
<1>2. pending.gold \in Int /\ pending.potions \in Int /\ pending.steps \in Nat
  BY <1>1 DEF Log
<1>3. /\ pending' \in Log /\ pending'.gold = pending.gold
      /\ pending'.potions = pending.potions /\ pending'.steps = pending.steps
  <2>1. CASE UNCHANGED pending
    BY <2>1, <1>1
  <2>2. CASE \E e : Effect(e, 0, 0, 0)
    BY <2>2, <1>1, <1>2, EffectLog
  <2>3. CASE \E events : EffectWith(events, 0)
    BY <2>3, <1>1, <1>2, EffectWithLog
  <2>. QED
    BY <2>1, <2>2, <2>3
<1>4. /\ pending'.gold = pending.gold + (new.gold - seen[d].gold)
      /\ pending'.potions = pending.potions + (new.potions - seen[d].potions)
      /\ pending'.steps = pending.steps + (new.steps - seen[d].steps)
  BY <1>1, <1>2, <1>3, DocFields
<1>. QED
  BY <1>3, <1>4, StoreInv

LEMMA ConcatList ==
  ASSUME NEW u \in Seq(Entries), NEW v \in Seq(Entries), Len(u) + Len(v) <= MaxUnlocked
  PROVE  u \o v \in Lists
BY DEF Lists

LEMMA DayNat == ASSUME NEW n \in Nat \ {0} PROVE Day(n) \in Nat
BY DEF Day

LEMMA UseKeyInv ==
  ASSUME Inv, NEW d \in Devices, UseKey(d), UNCHANGED kinds
  PROVE  Inv'
<1>. DEFINE r == want[d]
            keys == [seen[d].keys EXCEPT ![r] = "spent"]
            list == Append(seen[d].unlocked, [step |-> 0, target |-> r])
            new == [seen[d] EXCEPT !.keys[r] = "spent",
                                   !.unlocked = Append(@, [step |-> 0, target |-> r])]
<1>1. seen[d] \in Doc /\ r \in Dungeons
  BY DEF Inv, Shape
<1>2. /\ step[d] = "write" /\ CompareAndSave(d, seen[d].rev, new, 0)
      /\ Done(d, Stored(new, seen[d].rev)) /\ Working
      /\ Len(seen[d].unlocked) < MaxUnlocked
      /\ Effect(<<"open", r>>, 0, 0, 0) /\ seen[d].rev = Visible(d).save.rev
  BY DEF UseKey, Asked, At, CompareAndSave
<1>3. keys \in KeyRing
  BY <1>1, DocFields DEF KeyRing
<1>4. list \in Lists
  <2>1. seen[d].unlocked \in Seq(Entries) /\ Len(seen[d].unlocked) < MaxUnlocked
    BY <1>1, <1>2, DocFields DEF Lists
  <2>2. [step |-> 0, target |-> r] \in Entries
    BY <1>1 DEF Entries
  <2>. QED
    BY <2>1, <2>2 DEF Lists
<1>5. new = [seen[d] EXCEPT !.keys = keys, !.unlocked = list]
  OBVIOUS
<1>. HIDE DEF keys, list
<1>6. new \in Doc /\ new.gold = seen[d].gold /\ new.potions = seen[d].potions
      /\ new.steps = seen[d].steps
  BY <1>1, <1>3, <1>4, <1>5 DEF Doc, Form
<1>. HIDE DEF new
<1>. QED
  BY <1>2, <1>6, EvenInv

LEMMA OpenChestInv ==
  ASSUME Inv, NEW d \in Devices, OpenChest(d), UNCHANGED kinds
  PROVE  Inv'
<1>1. seen[d] \in Doc /\ pending \in Log
  BY DEF Inv, Shape
<1>. DEFINE New(c) == [seen[d] EXCEPT !.opened = @ \cup {c}, !.gold = @ + ChestGold,
                                      !.potions = @ + ChestPotions]
<1>2. /\ step[d] = "write" /\ Working
      /\ \E c \in Chests :
           \/ /\ CompareAndSave(d, seen[d].rev, seen[d], 0) /\ UNCHANGED pending
              /\ Done(d, Stored(seen[d], seen[d].rev))
           \/ /\ CompareAndSave(d, seen[d].rev, New(c), 0)
              /\ Effect(<<"chest", c>>, ChestGold, ChestPotions, 0)
              /\ Done(d, Stored(New(c), seen[d].rev))
  BY DEF OpenChest, Asked, At
<1>3. CASE /\ CompareAndSave(d, seen[d].rev, seen[d], 0) /\ UNCHANGED pending
           /\ Done(d, Stored(seen[d], seen[d].rev))
  <2>1. seen[d].rev = Visible(d).save.rev
    BY <1>3 DEF CompareAndSave
  <2>. QED
    BY <1>1, <1>2, <1>3, <2>1, EvenInv
<1>4. ASSUME NEW c \in Chests, CompareAndSave(d, seen[d].rev, New(c), 0),
             Effect(<<"chest", c>>, ChestGold, ChestPotions, 0),
             Done(d, Stored(New(c), seen[d].rev))
      PROVE  Inv'
  <2>. DEFINE new == New(c)
  <2>0. seen[d].rev = Visible(d).save.rev
    BY <1>4 DEF CompareAndSave
  <2>1. /\ seen[d].gold + ChestGold \in Nat /\ seen[d].potions + ChestPotions \in Nat
        /\ seen[d].opened \cup {c} \in Found
    BY <1>1, DocFields DEF Found
  <2>2. new \in Doc /\ new.gold = seen[d].gold + ChestGold
        /\ new.potions = seen[d].potions + ChestPotions /\ new.steps = seen[d].steps
    BY <1>1, <2>1 DEF Doc, Form
  <2>3. /\ pending' \in Log /\ pending'.gold = pending.gold + ChestGold
        /\ pending'.potions = pending.potions + ChestPotions /\ pending'.steps = pending.steps
    BY <1>1, <1>4, EffectLog DEF Log
  <2>4. /\ pending'.gold = pending.gold + (new.gold - seen[d].gold)
        /\ pending'.potions = pending.potions + (new.potions - seen[d].potions)
        /\ pending'.steps = pending.steps + (new.steps - seen[d].steps)
    BY <1>1, <2>2, <2>3, DocFields DEF Log
  <2>5. CompareAndSave(d, seen[d].rev, new, 0) /\ Done(d, Stored(new, seen[d].rev))
    BY <1>4
  <2>. HIDE DEF new
  <2>. QED
    BY <1>2, <2>0, <2>2, <2>3, <2>4, <2>5, StoreInv
<1>. QED
  BY <1>2, <1>3, <1>4

LEMMA GrantKeyInv ==
  ASSUME Inv, NEW d \in Devices, GrantKey(d), UNCHANGED kinds
  PROVE  Inv'
<1>. DEFINE r == want[d]
            keys == [seen[d].keys EXCEPT ![r] = IF r \in OpenDungeons(seen[d]) THEN "spent" ELSE "held"]
            new == [seen[d] EXCEPT !.keys[r] = IF r \in OpenDungeons(seen[d]) THEN "spent" ELSE "held"]
<1>1. seen[d] \in Doc /\ r \in Dungeons
  BY DEF Inv, Shape
<1>2. /\ step[d] = "write" /\ Working
      /\ \/ Done(d, seen[d]) /\ UNCHANGED stored
         \/ /\ CompareAndSave(d, seen[d].rev, new, 0) /\ Effect(<<"key", r>>, 0, 0, 0)
            /\ Done(d, Stored(new, seen[d].rev))
         \/ /\ Conflict(d, seen[d].rev, 0)
            /\ seen' = [seen EXCEPT ![d] = Visible(d).save] /\ UNCHANGED <<step, todo>>
  BY DEF GrantKey, At
<1>3. keys \in KeyRing
  BY <1>1, DocFields DEF KeyRing
<1>4. new = [seen[d] EXCEPT !.keys = keys]
  OBVIOUS
<1>. HIDE DEF keys
<1>5. new \in Doc /\ new.gold = seen[d].gold /\ new.potions = seen[d].potions
      /\ new.steps = seen[d].steps
  BY <1>1, <1>3, <1>4 DEF Doc, Form
<1>. HIDE DEF new
<1>6. CompareAndSave(d, seen[d].rev, new, 0) => seen[d].rev = Visible(d).save.rev
  BY DEF CompareAndSave
<1>. QED
  BY <1>2, <1>5, <1>6, KeptInv, EvenInv, ConflictInv

LEMMA ClaimKeyInv ==
  ASSUME Inv, NEW d \in Devices, ClaimKey(d), UNCHANGED kinds
  PROVE  Inv'
<1>. DEFINE r == want[d]
            keys == [seen[d].keys EXCEPT ![r] = "held"]
            new == [seen[d] EXCEPT !.keys[r] = "held"]
<1>1. seen[d] \in Doc /\ r \in Dungeons
  BY DEF Inv, Shape
<1>2. /\ step[d] = "write" /\ Working
      /\ \/ Done(d, seen[d]) /\ UNCHANGED stored
         \/ /\ CompareAndSave(d, seen[d].rev, new, 0) /\ Effect(<<"key", r>>, 0, 0, 0)
            /\ Done(d, Stored(new, seen[d].rev))
  BY DEF ClaimKey, Asked, At
<1>3. keys \in KeyRing
  BY <1>1, DocFields DEF KeyRing
<1>4. new = [seen[d] EXCEPT !.keys = keys]
  OBVIOUS
<1>. HIDE DEF keys
<1>5. new \in Doc /\ new.gold = seen[d].gold /\ new.potions = seen[d].potions
      /\ new.steps = seen[d].steps
  BY <1>1, <1>3, <1>4 DEF Doc, Form
<1>. HIDE DEF new
<1>6. CompareAndSave(d, seen[d].rev, new, 0) => seen[d].rev = Visible(d).save.rev
  BY DEF CompareAndSave
<1>. QED
  BY <1>2, <1>5, <1>6, KeptInv, EvenInv

LEMMA LeaveBattleInv ==
  ASSUME Inv, NEW d \in Devices, LeaveBattle(d), UNCHANGED kinds
  PROVE  Inv'
<1>. DEFINE phase == IF seen[d].moves >= MovesPerEvent THEN "rest" ELSE "path"
            new == [seen[d] EXCEPT !.phase = phase]
<1>1. seen[d] \in Doc
  BY DEF Inv, Shape
<1>2. /\ step[d] = "write" /\ CompareAndSave(d, seen[d].rev, new, 0)
      /\ Done(d, Stored(new, seen[d].rev)) /\ Working
      /\ UNCHANGED pending /\ seen[d].rev = Visible(d).save.rev
  BY DEF LeaveBattle, At, CompareAndSave
<1>3. phase \in Phases /\ (phase = "path" => seen[d].moves < MovesPerEvent)
  BY <1>1, DocFields DEF Phases, Walks
<1>. HIDE DEF phase
<1>4. new \in Doc /\ new.gold = seen[d].gold /\ new.potions = seen[d].potions
      /\ new.steps = seen[d].steps
  BY <1>1, <1>3 DEF Doc, Form
<1>. HIDE DEF new
<1>. QED
  BY <1>2, <1>4, EvenInv

LEMMA RecoverInv ==
  ASSUME Inv, NEW d \in Devices, Recover(d), UNCHANGED kinds
  PROVE  Inv'
<1>. DEFINE phase == IF seen[d].phase = "rest" THEN "path" ELSE seen[d].phase
            new == [seen[d] EXCEPT !.moves = 0, !.phase = phase]
<1>1. seen[d] \in Doc /\ since[d] \in Nat /\ now \in Nat
  BY DEF Inv, Shape
<1>2. /\ step[d] = "write" /\ Working
      /\ \/ Done(d, seen[d]) /\ UNCHANGED stored
         \/ \E slot \in SlotNow(d) :
              \/ /\ CompareAndSave(d, seen[d].rev, new, slot)
                 /\ Effect(<<"slot", slot>>, 0, 0, 0)
                 /\ Done(d, Stored(new, seen[d].rev))
              \/ Conflict(d, seen[d].rev, slot) /\ Done(d, Visible(d).save)
  BY DEF Recover, At
<1>3. phase \in Phases /\ 0 \in Walks /\ 0 < MovesPerEvent
  BY <1>1, DocFields DEF Phases, Walks
<1>. HIDE DEF phase
<1>4. new \in Doc /\ new.gold = seen[d].gold /\ new.potions = seen[d].potions
      /\ new.steps = seen[d].steps
  BY <1>1, <1>3 DEF Doc, Form
<1>. HIDE DEF new
<1>5. \A slot \in SlotNow(d) : slot \in Nat
  BY <1>1 DEF SlotNow
<1>6. \A slot : CompareAndSave(d, seen[d].rev, new, slot) => seen[d].rev = Visible(d).save.rev
  BY DEF CompareAndSave
<1>7. CASE Done(d, seen[d]) /\ UNCHANGED stored
  BY <1>2, <1>7, KeptInv
<1>8. ASSUME NEW slot \in SlotNow(d), CompareAndSave(d, seen[d].rev, new, slot),
             Effect(<<"slot", slot>>, 0, 0, 0), Done(d, Stored(new, seen[d].rev))
      PROVE  Inv'
  BY <1>2, <1>4, <1>5, <1>6, <1>8, EvenInv
<1>9. ASSUME NEW slot \in SlotNow(d), Conflict(d, seen[d].rev, slot), Done(d, Visible(d).save)
      PROVE  Inv'
  BY <1>2, <1>9, ConflictInv
<1>. QED
  BY <1>2, <1>7, <1>8, <1>9

LEMMA GrantReviewInv ==
  ASSUME Inv, NEW d \in Devices, NEW m \in Rewards, GrantReview(d, m), UNCHANGED kinds
  PROVE  Inv'
<1>. DEFINE day == Day(since[d])
            marker == [seen[d].marker EXCEPT ![m] = day]
            new == [seen[d] EXCEPT !.potions = @ + 1, !.marker[m] = day]
<1>1. seen[d] \in Doc /\ pending \in Log /\ day \in Nat
  BY DayNat DEF Inv, Shape
<1>2. /\ step[d] = "write" /\ Working
      /\ \/ Done(d, seen[d]) /\ UNCHANGED stored
         \/ /\ CompareAndSave(d, seen[d].rev, new, 0) /\ Effect(<<m, day>>, 0, 1, 0)
            /\ Done(d, Stored(new, seen[d].rev))
         \/ /\ Conflict(d, seen[d].rev, 0)
            /\ seen' = [seen EXCEPT ![d] = Visible(d).save] /\ UNCHANGED <<step, todo>>
  BY DEF GrantReview, At
<1>. HIDE DEF day
<1>3. marker \in Markers /\ seen[d].potions + 1 \in Nat
  BY <1>1, DocFields DEF Markers
<1>4. new = [seen[d] EXCEPT !.potions = @ + 1, !.marker = marker]
  OBVIOUS
<1>. HIDE DEF marker
<1>5. new \in Doc /\ new.gold = seen[d].gold /\ new.potions = seen[d].potions + 1
      /\ new.steps = seen[d].steps
  BY <1>1, <1>3, <1>4 DEF Doc, Form
<1>. HIDE DEF new
<1>6. CASE /\ CompareAndSave(d, seen[d].rev, new, 0) /\ Effect(<<m, day>>, 0, 1, 0)
           /\ Done(d, Stored(new, seen[d].rev))
  <2>0. seen[d].rev = Visible(d).save.rev
    BY <1>6 DEF CompareAndSave
  <2>1. /\ pending' \in Log /\ pending'.gold = pending.gold
        /\ pending'.potions = pending.potions + 1 /\ pending'.steps = pending.steps
    BY <1>1, <1>6, EffectLog DEF Log
  <2>2. /\ pending'.gold = pending.gold + (new.gold - seen[d].gold)
        /\ pending'.potions = pending.potions + (new.potions - seen[d].potions)
        /\ pending'.steps = pending.steps + (new.steps - seen[d].steps)
    BY <1>1, <1>5, <2>1, DocFields DEF Log
  <2>. QED
    BY <1>2, <1>5, <1>6, <2>0, <2>1, <2>2, StoreInv
<1>. QED
  BY <1>2, <1>6, KeptInv, ConflictInv

(* An access right is used; the save stays.                                   *)
LEMMA ConsumeAccessInv ==
  ASSUME Inv, NEW d \in Devices, ConsumeAccess(d), UNCHANGED kinds
  PROVE  Inv'
<1>. USE DEF Inv
<1>1. /\ copy[d] \in Doc /\ since[d] \in Nat /\ now \in Nat /\ d # NoDevice /\ pending \in Log
  BY DEF Shape
<1>2. PICK slot \in SlotNow(d) :
        /\ step[d] = "write" /\ Working /\ CanLock(d) /\ Done(d, copy[d])
        /\ lock' = d /\ draft' = [Visible(d) EXCEPT !.consumed = slot]
        /\ Effect(<<"slot", slot>>, 0, 0, 0)
  BY DEF ConsumeAccess, At
<1>3. slot \in Nat
  BY <1>1 DEF SlotNow
<1>4. /\ Visible(d) \in [save : Doc, consumed : Nat] /\ Visible(d).save \in Doc
      /\ Older(save, Visible(d).save)
      /\ Visible(d).save.gold = StartGold + log.gold + pending.gold
      /\ Visible(d).save.potions = log.potions + pending.potions
      /\ Visible(d).save.steps = log.steps + pending.steps
  BY <1>2, VisibleFacts
<1>5. draft' \in [save : Doc, consumed : Nat] /\ draft'.save = Visible(d).save
  BY <1>2, <1>3, <1>4
<1>6. /\ Steps' /\ seen' \in [Devices -> Doc] /\ seen'[d] = copy[d]
      /\ \A e \in Devices : e # d => step'[e] = step[e] /\ seen'[e] = seen[e]
  BY <1>1, <1>2, DoneSteps
<1>7. /\ pending' \in Log /\ pending'.gold = pending.gold
      /\ pending'.potions = pending.potions /\ pending'.steps = pending.steps
  BY <1>1, <1>2, EffectLog DEF Log
<1>8. Shape'
  BY <1>2, <1>5, <1>6, <1>7 DEF Shape, Working
<1>9. Books'
  BY <1>1, <1>2, <1>4, <1>5, <1>7 DEF Books, Working
<1>10. Chain'
  <2>1. \A e \in Devices : e # d => Visible(e)' = Visible(e)
    BY <1>2 DEF Visible, CanLock, Working
  <2>2. Visible(d)'.save = Visible(d).save
    BY <1>2, <1>5 DEF Visible
  <2>3. Older(copy[d], Visible(d).save) /\ copy[d].rev <= copy[d].rev
    <3>1. Older(copy[d], save) /\ save \in Doc
      BY DEF Chain, Shape
    <3>. QED
      BY <3>1, <1>1, <1>4, OlderTransitive, DocFields
  <2>4. \A e \in Devices : step'[e] \in {"write", "commit"} =>
          Older(seen'[e], Visible(e)'.save) /\ copy[e].rev <= seen'[e].rev
    BY <2>1, <2>2, <2>3, <1>6 DEF Chain
  <2>. QED
    BY <2>4, <1>2, <1>4, <1>5 DEF Chain, Working, Older
<1>. QED
  BY <1>6, <1>8, <1>9, <1>10

(* How many dungeons are found is well defined.                               *)
LEMMA DiscoveriesCount ==
  ASSUME NEW s \in Doc, NEW closed \in SUBSET Dungeons
  PROVE  \E k \in 0 .. MaxExplored :
           /\ k <= MaxUnlocked - Len(s.unlocked)
           /\ k <= Cardinality(closed) /\ k <= Cardinality(Milestones(s))
           /\ \/ k = MaxUnlocked - Len(s.unlocked) \/ k = Cardinality(closed)
              \/ k = Cardinality(Milestones(s))
<1>. DEFINE room == MaxUnlocked - Len(s.unlocked)
<1>1. s.unlocked \in Seq(Entries) /\ Len(s.unlocked) <= MaxUnlocked /\ s.explored \in 0 .. MaxExplored
  BY DocFields DEF Lists, Explored
<1>2. room \in Nat
  <2>1. MaxUnlocked \in Nat
    BY AdventureAssumption
  <2>2. Len(s.unlocked) \in Nat
    BY <1>1
  <2>. QED
    BY <1>1, <2>1, <2>2
<1>3. Cardinality(closed) \in Nat
  BY FS_Subset, FS_CardinalityType
<1>4. Cardinality(Milestones(s)) \in 0 .. MaxExplored
  <2>1. Milestones(s) \in SUBSET (1 .. s.explored) /\ s.explored \in Nat
    BY <1>1 DEF Milestones
  <2>2. IsFiniteSet(1 .. s.explored) /\ Cardinality(1 .. s.explored) = s.explored
    <3>1. /\ IsFiniteSet(1 .. s.explored)
          /\ Cardinality(1 .. s.explored) = IF 1 > s.explored THEN 0 ELSE s.explored - 1 + 1
      <4>1. 1 \in Int /\ s.explored \in Int
        BY <2>1
      <4>. QED
        BY <4>1, FS_Interval
    <3>. QED
      BY <3>1, <2>1
  <2>3. IsFiniteSet(Milestones(s)) /\ Cardinality(Milestones(s)) <= s.explored
    BY <2>1, <2>2, FS_Subset
  <2>4. Cardinality(Milestones(s)) \in Nat
    BY <2>3, FS_CardinalityType
  <2>. QED
    BY <1>1, <2>3, <2>4
<1>. HIDE DEF room
<1>5. PICK r \in Nat, n \in Nat, m \in 0 .. MaxExplored :
        r = room /\ n = Cardinality(closed) /\ m = Cardinality(Milestones(s))
  BY <1>2, <1>3, <1>4
<1>6. \E k \in 0 .. MaxExplored : /\ k <= r /\ k <= n /\ k <= m
                                 /\ (k = r \/ k = n \/ k = m)
  <2>1. CASE r <= n /\ r <= m
    BY <2>1
  <2>2. CASE n <= r /\ n <= m
    BY <2>2
  <2>3. CASE m <= r /\ m <= n
    BY <2>3
  <2>. QED
    BY <2>1, <2>2, <2>3
<1>7. r = MaxUnlocked - Len(s.unlocked) /\ n = Cardinality(closed)
      /\ m = Cardinality(Milestones(s))
  BY <1>5 DEF room
<1>8. PICK k \in 0 .. MaxExplored : k <= r /\ k <= n /\ k <= m /\ (k = r \/ k = n \/ k = m)
  BY <1>6
<1>9. /\ k <= MaxUnlocked - Len(s.unlocked)
      /\ k <= Cardinality(closed) /\ k <= Cardinality(Milestones(s))
  BY <1>7, <1>8
<1>10. \/ k = MaxUnlocked - Len(s.unlocked) \/ k = Cardinality(closed)
       \/ k = Cardinality(Milestones(s))
  BY <1>7, <1>8
<1>. QED
  BY <1>9, <1>10

(* Dungeons found on the way were closed, their milestones not served, and they fit
   into the list.                                                              *)
LEMMA DiscoveriesFit ==
  ASSUME NEW s \in Doc, NEW owned \in SUBSET Dungeons, NEW found \in Discoveries(s, owned)
  PROVE  /\ s.unlocked \o found \in Lists
         /\ found \in Seq(Entries) /\ s.unlocked \in Seq(Entries)
         /\ \A i \in DOMAIN found : /\ found[i].target \notin OpenDungeons(s)
                                    /\ found[i].step \in Milestones(s)
<1>. DEFINE closed == owned \ OpenDungeons(s)
            room   == MaxUnlocked - Len(s.unlocked)
            Fits(k) == /\ k <= room /\ k <= Cardinality(closed) /\ k <= Cardinality(Milestones(s))
                       /\ k = room \/ k = Cardinality(closed) \/ k = Cardinality(Milestones(s))
            count  == CHOOSE k \in 0 .. MaxExplored : Fits(k)
<1>1. s.unlocked \in Seq(Entries) /\ Len(s.unlocked) <= MaxUnlocked /\ s.explored \in 0 .. MaxExplored
  BY DocFields DEF Lists, Explored
<1>7. found \in [1 .. count -> [step : Milestones(s), target : closed]]
  BY DEF Discoveries, closed, room
<1>5. \E k \in 0 .. MaxExplored : Fits(k)
  BY DiscoveriesCount
<1>. HIDE DEF closed, room
<1>6. count \in 0 .. MaxExplored /\ Fits(count)
  BY <1>5
<1>. HIDE DEF count
<1>8. [step : Milestones(s), target : closed] \subseteq Entries
  <2>1. Milestones(s) \subseteq 0 .. MaxExplored
    BY <1>1 DEF Milestones
  <2>2. closed \subseteq Dungeons
    BY DEF closed
  <2>. QED
    BY <2>1, <2>2 DEF Entries
<1>9. found \in Seq(Entries) /\ Len(found) = count
  BY <1>6, <1>7, <1>8
<1>10. Len(s.unlocked) + Len(found) <= MaxUnlocked
  <2>1. count <= room
    BY <1>6
  <2>2. Len(found) <= MaxUnlocked - Len(s.unlocked)
    BY <1>9, <2>1 DEF room
  <2>3. MaxUnlocked \in Nat /\ Len(s.unlocked) \in Nat /\ Len(found) \in Nat
    BY <1>1, <1>9, AdventureAssumption
  <2>. HIDE DEF Fits
  <2>. QED
    BY <2>2, <2>3
<1>11. \A i \in DOMAIN found : found[i].target \notin OpenDungeons(s) /\ found[i].step \in Milestones(s)
  BY <1>7 DEF closed
<1>. QED
  BY <1>1, <1>9, <1>10, <1>11, ConcatList

LEMMA RefreshUnlocksInv ==
  ASSUME Inv, NEW d \in Devices, RefreshUnlocks(d), UNCHANGED kinds
  PROVE  Inv'
<1>1. seen[d] \in Doc
  BY DEF Inv, Shape
<1>. DEFINE New(found) == [seen[d] EXCEPT !.unlocked = @ \o found]
<1>2. /\ step[d] = "write" /\ Working
      /\ \E owned \in SUBSET Dungeons : \E found \in Discoveries(seen[d], owned) :
           \/ Done(d, seen[d]) /\ UNCHANGED stored
           \/ /\ CompareAndSave(d, seen[d].rev, New(found), 0)
              /\ EffectWith(Opened(found), 0)
              /\ Done(d, Stored(New(found), seen[d].rev))
           \/ Conflict(d, seen[d].rev, 0) /\ Done(d, Visible(d).save)
  BY DEF RefreshUnlocks, At
<1>3. ASSUME NEW owned \in SUBSET Dungeons, NEW found \in Discoveries(seen[d], owned),
             CompareAndSave(d, seen[d].rev, New(found), 0), EffectWith(Opened(found), 0),
             Done(d, Stored(New(found), seen[d].rev))
      PROVE  Inv'
  <2>. DEFINE new == New(found)
  <2>1. seen[d].unlocked \o found \in Lists
    BY <1>1, DiscoveriesFit
  <2>2. new \in Doc /\ new.gold = seen[d].gold /\ new.potions = seen[d].potions
        /\ new.steps = seen[d].steps
    BY <1>1, <2>1 DEF Doc, Form
  <2>3. /\ CompareAndSave(d, seen[d].rev, new, 0) /\ Done(d, Stored(new, seen[d].rev))
        /\ seen[d].rev = Visible(d).save.rev
    BY <1>3 DEF CompareAndSave
  <2>. HIDE DEF new
  <2>. QED
    BY <1>2, <1>3, <2>2, <2>3, EvenInv
<1>4. CASE Done(d, seen[d]) /\ UNCHANGED stored
  BY <1>2, <1>4, KeptInv
<1>5. CASE Conflict(d, seen[d].rev, 0) /\ Done(d, Visible(d).save)
  BY <1>2, <1>5, ConflictInv
<1>. QED
  BY <1>2, <1>3, <1>4, <1>5

(* What an honest screen sends.                                               *)
LEMMA SnapshotDoc ==
  ASSUME NEW c \in Doc, NEW s \in Snapshots(c)
  PROVE  s \in Doc
<1>1. /\ c.phase \in {"path", "rest", "battle"} /\ c.moves \in 0 .. MovesPerEvent
      /\ c.explored \in 0 .. MaxExplored /\ (c.phase = "path" => c.moves < MovesPerEvent)
  BY DocFields DEF Phases, Walks, Explored
<1>2. CASE c.phase = "path" /\ s \in Walked(c)
  <2>1. PICK n \in Explored :
          s = [c EXCEPT !.moves = @ + 1, !.explored = n,
                        !.phase = IF c.moves + 1 = MovesPerEvent THEN "rest" ELSE "path"]
    <3>1. PICK n \in c.explored .. (IF c.explored < MaxExplored THEN c.explored + 1 ELSE MaxExplored) :
            s = [c EXCEPT !.moves = @ + 1, !.explored = n,
                          !.phase = IF c.moves + 1 = MovesPerEvent THEN "rest" ELSE "path"]
      BY <1>2 DEF Walked
    <3>2. n \in Explored
      BY <1>1 DEF Explored
    <3>. QED
      BY <3>1, <3>2
  <2>2. PICK phase \in Phases :
          /\ phase = IF c.moves + 1 = MovesPerEvent THEN "rest" ELSE "path"
          /\ c.moves + 1 \in Walks /\ (phase = "path" => c.moves + 1 < MovesPerEvent)
    BY <1>1, <1>2 DEF Phases, Walks
  <2>3. s = [c EXCEPT !.moves = @ + 1, !.explored = n, !.phase = phase]
    BY <2>1, <2>2
  <2>. QED
    BY <2>2, <2>3 DEF Doc, Form
<1>3. CASE s = Met(c)
  <2>1. "battle" \in Phases
    BY DEF Phases
  <2>. QED
    BY <1>3, <2>1 DEF Met, Doc, Form
<1>4. CASE s = Refilled(c)
  <2>1. "path" \in Phases /\ 0 \in Walks /\ 0 < MovesPerEvent
    BY DEF Phases, Walks
  <2>. QED
    BY <1>4, <2>1 DEF Refilled, Doc, Form
<1>. QED
  BY <1>1, <1>2, <1>3, <1>4 DEF Snapshots

LEMMA PutStateInv ==
  ASSUME Inv, NEW d \in Devices, PutState(d), UNCHANGED kinds
  PROVE  Inv'
<1>. DEFINE c == copy[d]
            p == seen[d]
            walked(s) == IF s.moves > p.moves THEN s.moves - p.moves ELSE 0
            merged(s) == [p EXCEPT !.moves = s.moves, !.phase = s.phase, !.explored = s.explored,
                                   !.steps = @ + walked(s)]
            New(s, found) == [merged(s) EXCEPT !.unlocked = @ \o found]
<1>1. /\ c \in Doc /\ p \in Doc /\ pending \in Log /\ since[d] \in Nat /\ now \in Nat
  BY DEF Inv, Shape
<1>. DEFINE Put(s, found, slot) ==
              /\ CompareAndSave(d, c.rev, New(s, found), slot)
              /\ EffectWith(Opened(found)
                              \cup (IF walked(s) > 0 THEN {<<"walk", 0>>} ELSE {})
                              \cup (IF slot # 0 THEN {<<"slot", slot>>} ELSE {}),
                            walked(s))
              /\ Done(d, Stored(New(s, found), c.rev))
            SlotsOf == IF c.phase = "rest" THEN SlotNow(d) ELSE {0}
<1>w. step[d] = "write" /\ Working
  BY DEF PutState, At
<1>p. \E s \in Snapshots(c) : \E owned \in SUBSET Dungeons :
        \E found \in Discoveries(merged(s), owned) : \E slot \in SlotsOf : Put(s, found, slot)
  BY DEF PutState
<1>s. PICK s \in Snapshots(c) : \E owned \in SUBSET Dungeons :
        \E found \in Discoveries(merged(s), owned) : \E slot \in SlotsOf : Put(s, found, slot)
  BY <1>p
<1>o. PICK owned \in SUBSET Dungeons :
        \E found \in Discoveries(merged(s), owned) : \E slot \in SlotsOf : Put(s, found, slot)
  BY <1>s
<1>f. PICK found \in Discoveries(merged(s), owned) : \E slot \in SlotsOf : Put(s, found, slot)
  BY <1>o
<1>2. PICK slot \in SlotsOf : Put(s, found, slot)
  BY <1>f
<1>3. slot \in Nat
  BY <1>1, <1>2 DEF SlotNow
<1>4. s \in Doc
  BY <1>1, <1>2, SnapshotDoc
<1>5. PICK w \in Nat : w = walked(s)
  BY <1>1, <1>4, DocFields DEF Walks
<1>6. PICK m : m = merged(s)
  OBVIOUS
<1>7. m = [p EXCEPT !.moves = s.moves, !.phase = s.phase, !.explored = s.explored, !.steps = @ + w]
  BY <1>5, <1>6
<1>8. p.steps + w \in Nat
  BY <1>1, <1>5, DocFields
<1>9. m \in Doc /\ m.gold = p.gold /\ m.potions = p.potions /\ m.steps = p.steps + w
  BY <1>1, <1>4, <1>7, <1>8 DEF Doc, Form
<1>10. m.unlocked \o found \in Lists
  BY <1>2, <1>6, <1>9, DiscoveriesFit
<1>11. PICK new : new = [m EXCEPT !.unlocked = @ \o found]
  OBVIOUS
<1>12. new \in Doc /\ new.gold = p.gold /\ new.potions = p.potions /\ new.steps = p.steps + w
  BY <1>9, <1>10, <1>11 DEF Doc, Form
<1>13. /\ CompareAndSave(d, c.rev, new, slot) /\ Done(d, Stored(new, c.rev))
       /\ EffectWith(Opened(found)
                        \cup (IF walked(s) > 0 THEN {<<"walk", 0>>} ELSE {})
                        \cup (IF slot # 0 THEN {<<"slot", slot>>} ELSE {}), w)
  BY <1>2, <1>5, <1>6, <1>11
<1>14. p.rev = Visible(d).save.rev
  <2>1. c.rev = Visible(d).save.rev
    BY <1>13 DEF CompareAndSave
  <2>2. c.rev <= p.rev /\ p.rev <= Visible(d).save.rev
    BY <1>w DEF Inv, Chain, Older
  <2>3. p.rev \in Nat /\ Visible(d).save.rev \in Nat
    BY <1>1, VisibleFacts, DocFields
  <2>. QED
    BY <2>1, <2>2, <2>3
<1>. HIDE DEF c, p, walked, merged, New
<1>15. /\ pending' \in Log /\ pending'.gold = pending.gold
       /\ pending'.potions = pending.potions /\ pending'.steps = pending.steps + w
  BY <1>1, <1>13, EffectWithLog
<1>16. /\ pending'.gold = pending.gold + (new.gold - p.gold)
       /\ pending'.potions = pending.potions + (new.potions - p.potions)
       /\ pending'.steps = pending.steps + (new.steps - p.steps)
  BY <1>1, <1>12, <1>15, DocFields DEF Log
<1>. QED
  BY <1>w, <1>3, <1>12, <1>13, <1>14, <1>15, <1>16, StoreInv DEF p

----------------------------------------------------------------------------
(* Requests, the clock and the rest of the world.                            *)

LEMMA InitInv == Init => Inv
<1>. SUFFICES ASSUME Init PROVE Inv
  OBVIOUS
<1>1. AnyDungeon \in Dungeons
  BY DEF AnyDungeon
<1>2. Shape
  BY <1>1, FreshDoc, NoEffectLog DEF Init, Shape
<1>3. Steps
  BY DEF Init, Steps
<1>4. Fresh.rev = 0 /\ Fresh.gold = StartGold /\ Fresh.potions = 0 /\ Fresh.steps = 0
  BY DEF Fresh
<1>5. NoEffect.gold = 0 /\ NoEffect.potions = 0 /\ NoEffect.steps = 0
  BY DEF NoEffect
<1>6. Chain
  BY <1>4 DEF Init, Chain, Older
<1>7. Books
  BY <1>4, <1>5 DEF Init, Books
<1>. QED
  BY <1>2, <1>3, <1>6, <1>7 DEF Inv

LEMMA OneInSeq ==
  ASSUME NEW S, NEW a \in S
  PROVE  <<a>> \in Seq(S) /\ <<a>> # <<>>
OBVIOUS

LEMMA ThreeInSeq ==
  ASSUME NEW S, NEW a \in S, NEW b \in S, NEW c \in S
  PROVE  <<a, b, c>> \in Seq(S) /\ <<a, b, c>> # <<>>
OBVIOUS

LEMMA SendInv ==
  ASSUME Inv, NEW d \in Devices, Send(d), UNCHANGED kinds
  PROVE  Inv'
<1>. USE DEF Inv
<1>1. \A kind \in kinds : Program(kind) \in Seq(Operations) /\ Program(kind) # <<>>
  <2>. SUFFICES ASSUME NEW kind \in kinds
                PROVE  Program(kind) \in Seq(Operations) /\ Program(kind) # <<>>
    OBVIOUS
  <2>1. kind \in Operations
    BY DEF Shape, Operations
  <2>2. \/ Program(kind) = <<"review", "quiz", "unlock">>
        \/ Program(kind) = <<"put", "review", "quiz">>
        \/ Program(kind) = <<kind>>
    BY DEF Program
  <2>3. {"put", "review", "quiz", "unlock"} \subseteq Operations
    BY DEF Operations
  <2>4. CASE Program(kind) = <<"review", "quiz", "unlock">>
    BY <2>3, <2>4, ThreeInSeq
  <2>5. CASE Program(kind) = <<"put", "review", "quiz">>
    BY <2>3, <2>5, ThreeInSeq
  <2>6. CASE Program(kind) = <<kind>>
    BY <2>1, <2>6, OneInSeq
  <2>. QED
    BY <2>2, <2>4, <2>5, <2>6
<1>2. Steps'
  BY <1>1 DEF Send, Steps
<1>3. Shape'
  BY DEF Send, Shape, stored
<1>4. Chain' /\ Books'
  BY DEF Send, Chain, Books, Visible, stored, Steps
<1>. QED
  BY <1>2, <1>3, <1>4

LEMMA ReadInv ==
  ASSUME Inv, NEW d \in Devices, Read(d), UNCHANGED kinds
  PROVE  Inv'
<1>. USE DEF Inv
<1>1. Visible(d).save \in Doc /\ Older(save, Visible(d).save)
  BY VisibleFacts
<1>2. Steps'
  BY DEF Read, Steps
<1>3. Shape'
  BY <1>1 DEF Read, Shape, stored
<1>4. Books'
  BY DEF Read, Books, stored
<1>5. Chain'
  <2>1. \A e \in Devices : Visible(e)' = Visible(e)
    BY DEF Read, Visible, stored
  <2>2. \A e \in Devices : e # d => seen'[e] = seen[e] /\ step'[e] = step[e]
    BY DEF Read, Shape, Steps
  <2>3. seen'[d] = Visible(d).save
    BY DEF Read, Shape
  <2>4. Older(Visible(d).save, Visible(d).save) /\ copy[d].rev <= Visible(d).save.rev
    BY <1>1, DocFields DEF Older, Chain, Shape
  <2>5. \A e \in Devices : step'[e] \in {"write", "commit"} =>
          Older(seen'[e], Visible(e)'.save) /\ copy[e].rev <= seen'[e].rev
    BY <2>1, <2>2, <2>3, <2>4 DEF Chain
  <2>. QED
    BY <2>5 DEF Read, Chain, Older, stored
<1>. QED
  BY <1>2, <1>3, <1>4, <1>5

LEMMA ForgetShape ==
  ASSUME Inv, NEW d \in Devices, Forget(d)
  PROVE  /\ seen' \in [Devices -> Doc] /\ since' \in [Devices -> Nat \ {0}]
         /\ reviewed' \in [Devices -> SUBSET Rewards] /\ want' \in [Devices -> Dungeons]
         /\ Steps' /\ step'[d] = "idle"
         /\ \A e \in Devices : e # d => seen'[e] = seen[e] /\ step'[e] = step[e]
<1>. USE DEF Inv
<1>1. AnyDungeon \in Dungeons
  BY DEF AnyDungeon
<1>2. seen' \in [Devices -> Doc] /\ since' \in [Devices -> Nat \ {0}]
  BY FreshDoc DEF Forget, Shape
<1>3. reviewed' \in [Devices -> SUBSET Rewards] /\ want' \in [Devices -> Dungeons]
  BY <1>1 DEF Forget, Shape
<1>4. Steps' /\ step'[d] = "idle"
  BY DEF Forget, Steps
<1>5. \A e \in Devices : e # d => seen'[e] = seen[e] /\ step'[e] = step[e]
  BY DEF Forget, Shape, Steps
<1>. QED
  BY <1>2, <1>3, <1>4, <1>5

LEMMA AbortInv ==
  ASSUME Inv, NEW d \in Devices, Abort(d), UNCHANGED kinds
  PROVE  Inv'
<1>. USE DEF Inv
<1>1. Forget(d) /\ UNCHANGED <<save, consumed, copy, now, finished, resets, log>>
  BY DEF Abort
<1>2. \/ lock = d /\ Released
      \/ lock # d /\ UNCHANGED stored
  BY DEF Abort
<1>3. Shape' /\ Steps'
  <2>1. lock' \in Devices \cup {NoDevice} /\ draft' \in [save : Doc, consumed : Nat] /\ pending' \in Log
    BY <1>2, FreshDoc, NoEffectLog DEF Released, Shape, stored
  <2>. QED
    BY <1>1, <2>1, ForgetShape DEF Shape
<1>4. Books'
  BY <1>1, <1>2 DEF Books, Released, stored
<1>5. Chain'
  <2>1. \A e \in Devices : e # d => Visible(e)'.save = Visible(e).save
    BY <1>1, <1>2 DEF Visible, Released, stored
  <2>2. \A e \in Devices : step'[e] \in {"write", "commit"} =>
          Older(seen'[e], Visible(e)'.save) /\ copy[e].rev <= seen'[e].rev
    BY <1>1, <2>1, ForgetShape DEF Chain
  <2>3. lock' # NoDevice => Older(save, draft'.save)
    BY <1>2 DEF Chain, Released, stored
  <2>. QED
    BY <1>1, <2>2, <2>3 DEF Chain, Older
<1>. QED
  BY <1>3, <1>4, <1>5

LEMMA CommitInv ==
  ASSUME Inv, NEW d \in Devices, Commit(d), UNCHANGED kinds
  PROVE  Inv'
<1>. USE DEF Inv
<1>1. /\ step[d] = "commit" /\ Forget(d) /\ UNCHANGED <<now, finished, resets>>
      /\ copy' = [copy EXCEPT ![d] = seen[d]] \/ copy' = copy
      /\ d # NoDevice
  BY DEF Commit
<1>2. /\ Visible(d) \in [save : Doc, consumed : Nat] /\ Visible(d).save \in Doc
      /\ Older(save, Visible(d).save) /\ Older(seen[d], Visible(d).save)
      /\ save \in Doc /\ seen[d] \in Doc
  BY <1>1, VisibleFacts DEF Chain, Shape
<1>3. save' = Visible(d).save /\ consumed' \in Nat
  BY DEF Commit, Visible, Shape
<1>4. \/ lock = d /\ Released
      \/ lock # d /\ UNCHANGED <<stored, log>>
  BY DEF Commit
<1>5. log' \in Log /\ save'.gold = StartGold + log'.gold /\ save'.potions = log'.potions
      /\ save'.steps = log'.steps
  <2>1. CASE lock = d
    <3>. DEFINE times == [e \in Event |-> log.times[e] + pending.times[e]]
    <3>1. log' = [gold |-> log.gold + pending.gold, potions |-> log.potions + pending.potions,
                  steps |-> log.steps + pending.steps, times |-> times] /\ save' = draft.save
      BY <2>1 DEF Commit
    <3>2. /\ log.times \in [Event -> Nat] /\ pending.times \in [Event -> Nat]
          /\ log.gold \in Int /\ pending.gold \in Int /\ log.potions \in Int
          /\ pending.potions \in Int /\ log.steps \in Nat /\ pending.steps \in Nat
      BY DEF Shape, Log
    <3>3. times \in [Event -> Nat]
      BY <3>2
    <3>. HIDE DEF times
    <3>4. log' \in Log /\ log'.gold = log.gold + pending.gold
          /\ log'.potions = log.potions + pending.potions /\ log'.steps = log.steps + pending.steps
      BY <3>1, <3>2, <3>3 DEF Log
    <3>5. StartGold \in Nat
      OBVIOUS
    <3>. QED
      BY <2>1, <1>1, <3>1, <3>2, <3>4, <3>5 DEF Books
  <2>2. CASE lock # d
    BY <2>2, <1>3, <1>4 DEF Books, Shape, Visible
  <2>. QED
    BY <2>1, <2>2
<1>6. copy' \in [Devices -> Doc]
  BY <1>1, <1>2 DEF Shape
<1>7. Shape' /\ Steps'
  <2>1. lock' \in Devices \cup {NoDevice} /\ draft' \in [save : Doc, consumed : Nat] /\ pending' \in Log
    BY <1>4, FreshDoc, NoEffectLog DEF Released, Shape, stored
  <2>. QED
    BY <1>1, <1>2, <1>3, <1>5, <1>6, <2>1, ForgetShape DEF Shape
<1>8. Books'
  BY <1>4, <1>5, <1>3 DEF Books, Released, stored, Visible
<1>9. \A e \in Devices : Older(copy'[e], save')
  <2>1. \A e \in Devices : copy[e] \in Doc /\ Older(copy[e], save)
    BY DEF Shape, Chain
  <2>2. \A e \in Devices : Older(copy[e], save')
    BY <2>1, <1>2, <1>3, OlderTransitive
  <2>3. \A e \in Devices : copy'[e] = copy[e] \/ copy'[e] = seen[d]
    BY <1>1 DEF Shape
  <2>. QED
    BY <2>2, <2>3, <1>2, <1>3
<1>10. \A e \in Devices : e # d /\ step[e] \in {"write", "commit"} =>
          Older(seen[e], Visible(e)'.save) /\ copy'[e].rev <= seen[e].rev
  <2>. SUFFICES ASSUME NEW e \in Devices, e # d, step[e] \in {"write", "commit"}
                PROVE  Older(seen[e], Visible(e)'.save) /\ copy'[e].rev <= seen[e].rev
    OBVIOUS
  <2>1. copy'[e] = copy[e]
    BY <1>1 DEF Shape
  <2>2. Older(seen[e], Visible(e).save) /\ copy[e].rev <= seen[e].rev /\ seen[e] \in Doc
    BY DEF Chain, Shape
  <2>3. CASE lock = d
    <3>1. Visible(e).save = save /\ Visible(e)'.save = save'
      BY <2>3, <1>1, <1>4 DEF Visible, Released
    <3>. QED
      BY <2>1, <2>2, <3>1, <1>2, <1>3, OlderTransitive
  <2>4. CASE lock # d
    <3>1. Visible(e)'.save = Visible(e).save
      BY <2>4, <1>3, <1>4 DEF Visible, stored
    <3>. QED
      BY <2>1, <2>2, <3>1
  <2>. QED
    BY <2>3, <2>4
<1>11. lock' # NoDevice => Older(save', draft'.save)
  BY <1>3, <1>4 DEF Released, Chain, stored, Visible
<1>12. Chain'
  BY <1>1, <1>9, <1>10, <1>11, ForgetShape DEF Chain, Older
<1>. QED
  BY <1>7, <1>8, <1>12

(* Nothing of a request or of the save changes, but the clock or the world.     *)
LEMMA WorldInv ==
  ASSUME Inv, UNCHANGED <<save, stored, request, copy, log, kinds>>,
         consumed' \in Nat, now' \in Nat \ {0}, resets' \in Nat, finished' \subseteq Rewards \X Nat,
         lock = NoDevice \/ UNCHANGED consumed
  PROVE  Inv'
<1>. USE DEF Inv
<1>1. Shape' /\ Steps'
  BY DEF Shape, Steps, stored, request
<1>2. Books'
  BY DEF Books, stored
<1>3. \A e \in Devices : Visible(e)'.save = Visible(e).save
  BY DEF Visible, stored
<1>4. Chain'
  BY <1>3 DEF Chain, stored, request, Older
<1>. QED
  BY <1>1, <1>2, <1>4

LEMMA EnvironmentInv ==
  ASSUME Inv, UNCHANGED kinds, ResetAccess \/ Tick \/ \E m \in Rewards : FinishReview(m)
  PROVE  Inv'
<1>0. consumed \in Nat /\ now \in Nat \ {0} /\ resets \in Nat /\ finished \subseteq Rewards \X Nat
  BY DEF Inv, Shape
<1>1. CASE ResetAccess
  BY <1>0, <1>1, WorldInv DEF ResetAccess
<1>2. CASE Tick
  BY <1>0, <1>2, WorldInv DEF Tick
<1>3. ASSUME NEW m \in Rewards, FinishReview(m) PROVE Inv'
  <2>1. Day(now) \in Nat
    BY <1>0, DayNat
  <2>. QED
    BY <1>0, <1>3, <2>1, WorldInv DEF FinishReview
<1>. QED
  BY <1>1, <1>2, <1>3

LEMMA NextInv == Inv /\ [Next]_vars => Inv'
<1>. SUFFICES ASSUME Inv, [Next]_vars PROVE Inv'
  OBVIOUS
<1>1. ASSUME NEW d \in Devices, UNCHANGED kinds, Operation(d) PROVE Inv'
  BY <1>1, PutStateInv, RefreshUnlocksInv, GrantReviewInv, RecoverInv, BuyInv, UsePotionInv,
     UseKeyInv, OpenChestInv, GrantKeyInv, ClaimKeyInv, LeaveBattleInv, ConsumeAccessInv
     DEF Operation
<1>2. ASSUME NEW d \in Devices, UNCHANGED kinds, Send(d) \/ Read(d) \/ Commit(d) \/ Abort(d)
      PROVE  Inv'
  BY <1>2, SendInv, ReadInv, CommitInv, AbortInv
<1>3. ASSUME UNCHANGED vars PROVE Inv'
  <2>1. consumed \in Nat /\ now \in Nat \ {0} /\ resets \in Nat /\ finished \subseteq Rewards \X Nat
    BY DEF Inv, Shape
  <2>. QED
    BY <1>3, <2>1, WorldInv DEF vars
<1>. QED
  BY <1>1, <1>2, <1>3, EnvironmentInv DEF Next

----------------------------------------------------------------------------
(* The theorems.                                                             *)

THEOREM AdventureInvariant == Spec => []Inv
<1>. QED
  BY InitInv, NextInv, PTL DEF Spec

(* A device or a request that carries the current revision has the current save, so
   comparing revisions is enough (state.py:465-516).                               *)
THEOREM AdventureRevisions == Spec => []RevisionNamesContent
<1>1. Inv => RevisionNamesContent
  <2>. SUFFICES ASSUME Inv PROVE RevisionNamesContent
    OBVIOUS
  <2>1. \A d \in Devices : copy[d].rev = save.rev => copy[d] = save
    BY DEF Inv, Chain, Older
  <2>2. \A d \in Devices :
          step[d] = "write" /\ lock # d /\ seen[d].rev = save.rev => seen[d] = save
    BY DEF Inv, Chain, Older, Visible
  <2>. QED
    BY <2>1, <2>2 DEF RevisionNamesContent
<1>. QED
  BY <1>1, AdventureInvariant, PTL

(* Nothing earned, spent or walked is lost or counts twice, and nobody is overdrawn,
   however many devices write the whole document (state.py:465-516).               *)
THEOREM AdventureBooks == Spec => []BooksBalance
<1>1. Inv => BooksBalance
  <2>. SUFFICES ASSUME Inv PROVE BooksBalance
    OBVIOUS
  <2>1. TypeOK
    <3>1. /\ save \in Save /\ draft \in [save : Save, consumed : Nat]
          /\ seen \in [Devices -> Save] /\ copy \in [Devices -> Save]
      BY DocTyped DEF Inv, Shape
    <3>2. since \in [Devices -> Nat]
      BY DEF Inv, Shape
    <3>. QED
      BY <3>1, <3>2 DEF Inv, Shape, Steps, TypeOK
  <2>. QED
    BY <2>1 DEF Inv, Books, BooksBalance
<1>. QED
  BY <1>1, AdventureInvariant, PTL


----------------------------------------------------------------------------
(* What happens at most once.                                                *)

Served(s, n) == \E i \in DOMAIN s.unlocked : s.unlocked[i].step = n

(* What a save, and the slot consumed last, show to be done already.           *)
Had(s, used, e) ==
  \/ e[1] = "chest" /\ e[2] \in s.opened
  \/ e[1] = "key" /\ s.keys[e[2]] # "none"
  \/ e[1] = "open" /\ e[2] \in OpenDungeons(s)
  \/ e[1] = "unlock" /\ Served(s, e[2])
  \/ e[1] \in Rewards /\ e[2] <= s.marker[e[1]]
  \/ e[1] = "slot" /\ e[2] <= used

(* A request under way at midnight may be rewarded for the day before once more.  *)
Repeatable(e) == e[1] \in {"buy", "drink", "walk"} \/ (Overnight /\ e[1] \in Rewards)
Again(e, times) == IF e[1] = "slot" THEN times ELSE 0

(* Nothing was done more often than the save shows, but for the resets.         *)
Tally(s, used, times, again) ==
  \A e \in Event :
     Repeatable(e) \/ times[e] <= Again(e, again) + IF Had(s, used, e) THEN 1 ELSE 0

Total(p) == [e \in Event |-> log.times[e] + p.times[e]]

(* Nothing is rewarded ahead of its day, and requests end on the day they read.  *)
Marks(s) == Overnight \/ \A m \in Rewards : s.marker[m] <= Day(now)
Today == Overnight \/ \A d \in Devices : step[d] = "write" => Day(since[d]) = Day(now)

Singles ==
  /\ Today /\ Marks(save) /\ Tally(save, consumed, log.times, resets)
  /\ lock # NoDevice => /\ Marks(draft.save)
                        /\ Tally(draft.save, draft.consumed, Total(pending), resets)

LEMMA DivGrows ==
  ASSUME NEW n \in Nat, NEW k \in Nat \ {0}
  PROVE  n \div k <= (n + 1) \div k
OBVIOUS

LEMMA DayGrows ==
  ASSUME NEW n \in Nat \ {0}
  PROVE  Day(n) \in Nat /\ Day(n + 1) \in Nat /\ Day(n) <= Day(n + 1)
<1>1. n - 1 \in Nat /\ SlotsPerDay \in Nat \ {0} /\ (n - 1) + 1 = n /\ (n + 1) - 1 = n
  OBVIOUS
<1>2. (n - 1) \div SlotsPerDay <= n \div SlotsPerDay
  BY <1>1, DivGrows
<1>3. Day(n) = 1 + (n - 1) \div SlotsPerDay /\ Day(n + 1) = 1 + n \div SlotsPerDay
  BY <1>1 DEF Day
<1>4. Day(n) \in Nat /\ Day(n + 1) \in Nat
  BY <1>1, DayNat
<1>5. (n - 1) \div SlotsPerDay \in Int /\ n \div SlotsPerDay \in Int
  BY <1>1
<1>. QED
  BY <1>2, <1>3, <1>4, <1>5

LEMMA EventFields ==
  ASSUME NEW e \in Event
  PROVE  /\ e[1] = "chest" => e[2] \in Chests
         /\ e[1] \in {"key", "open"} => e[2] \in Dungeons
         /\ e[1] \in Rewards => e[2] \in Days
         /\ e[1] = "slot" => e[2] \in Slots
         /\ e[1] = "unlock" => e[2] \in 1 .. MaxExplored
<1>1. CASE e \in {"buy", "drink", "walk"} \X {0}
  BY <1>1 DEF Rewards
<1>2. CASE e \in {"chest"} \X Chests
  BY <1>2 DEF Rewards
<1>3. CASE e \in {"key", "open"} \X Dungeons
  BY <1>3 DEF Rewards
<1>4. CASE e \in {"unlock"} \X (1 .. MaxExplored)
  BY <1>4 DEF Rewards
<1>5. CASE e \in Rewards \X Days
  BY <1>5 DEF Rewards
<1>6. CASE e \in {"slot"} \X Slots
  BY <1>6 DEF Rewards
<1>. QED
  BY <1>1, <1>2, <1>3, <1>4, <1>5, <1>6 DEF Event

(* What was done stays done.                                                   *)
Grows(s, n) ==
  /\ s.opened \subseteq n.opened
  /\ \A r \in Dungeons : n.keys[r] = "none" => s.keys[r] = "none"
  /\ OpenDungeons(s) \subseteq OpenDungeons(n)
  /\ \A k : Served(s, k) => Served(n, k)
  /\ Overnight \/ \A m \in Rewards : s.marker[m] <= n.marker[m]

LEMMA HadKept ==
  ASSUME NEW s \in Doc, NEW n \in Doc, Grows(s, n), NEW u \in Nat, NEW v \in Nat, u <= v,
         NEW e \in Event, ~Repeatable(e), Had(s, u, e)
  PROVE  Had(n, v, e)
<1>1. CASE e[1] = "chest" /\ e[2] \in s.opened
  BY <1>1 DEF Grows, Had
<1>2. CASE e[1] = "key" /\ s.keys[e[2]] # "none"
  BY <1>2, EventFields DEF Grows, Had
<1>3. CASE e[1] = "open" /\ e[2] \in OpenDungeons(s)
  BY <1>3 DEF Grows, Had
<1>4. CASE e[1] = "unlock" /\ Served(s, e[2])
  BY <1>4 DEF Grows, Had
<1>5. CASE e[1] \in Rewards /\ e[2] <= s.marker[e[1]]
  <2>1. e[2] \in Nat /\ s.marker[e[1]] \in Nat /\ n.marker[e[1]] \in Nat
    <3>1. e[2] \in Days
      BY <1>5, EventFields
    <3>. QED
      BY <1>5, <3>1, DocFields DEF Markers, Days
  <2>2. s.marker[e[1]] <= n.marker[e[1]]
    BY <1>5 DEF Grows, Repeatable
  <2>3. e[2] <= n.marker[e[1]]
    BY <1>5, <2>1, <2>2
  <2>. QED
    BY <1>5, <2>3 DEF Had
<1>6. CASE e[1] = "slot" /\ e[2] <= u
  <2>1. e[2] \in Nat
    BY <1>6, EventFields DEF Slots
  <2>. QED
    BY <1>6, <2>1 DEF Had
<1>. QED
  BY <1>1, <1>2, <1>3, <1>4, <1>5, <1>6 DEF Had

LEMMA TallyGrows ==
  ASSUME NEW s \in Doc, NEW n \in Doc, Grows(s, n), NEW u \in Nat, NEW v \in Nat, u <= v,
         NEW t \in [Event -> Nat], NEW w \in [Event -> Nat], NEW again \in Nat,
         Tally(s, u, t, again), NEW R,
         \A e \in Event : w[e] <= t[e] + IF e \in R THEN 1 ELSE 0,
         \A e \in Event : e \in R => Repeatable(e) \/ (~Had(s, u, e) /\ Had(n, v, e))
  PROVE  Tally(n, v, w, again)
<1>. SUFFICES ASSUME NEW e \in Event, ~Repeatable(e)
              PROVE  w[e] <= Again(e, again) + IF Had(n, v, e) THEN 1 ELSE 0
  BY DEF Tally
<1>1. /\ t[e] <= Again(e, again) + IF Had(s, u, e) THEN 1 ELSE 0
      /\ t[e] \in Nat /\ w[e] \in Nat /\ Again(e, again) \in Nat
  BY DEF Tally, Again
<1>2. CASE e \in R
  BY <1>1, <1>2
<1>3. CASE e \notin R
  BY <1>1, <1>3, HadKept
<1>. QED
  BY <1>2, <1>3

LEMMA GrowsSame == ASSUME NEW s \in Doc PROVE Grows(s, s)
<1>1. \A m \in Rewards : s.marker[m] \in Nat
  BY DocFields DEF Markers
<1>. QED
  BY <1>1 DEF Grows

----------------------------------------------------------------------------
(* What the operations have in common.                                       *)

LEMMA TotalLog ==
  ASSUME log \in Log, NEW p \in Log
  PROVE  /\ Total(p) \in [Event -> Nat]
         /\ \A e \in Event : Total(p)[e] = log.times[e] + p.times[e]
<1>1. log.times \in [Event -> Nat] /\ p.times \in [Event -> Nat]
  BY DEF Log
<1>. QED
  BY <1>1 DEF Total

LEMMA TotalNothing == ASSUME log \in Log PROVE Total(NoEffect) = log.times
<1>1. log.times \in [Event -> Nat] /\ NoEffect.times = [e \in Event |-> 0]
  BY DEF Log, NoEffect
<1>. QED
  BY <1>1 DEF Total

LEMMA VisibleTally ==
  ASSUME Inv, Singles, NEW d \in Devices, CanLock(d)
  PROVE  /\ Visible(d).save \in Doc /\ Visible(d).consumed \in Nat /\ Marks(Visible(d).save)
         /\ Tally(Visible(d).save, Visible(d).consumed, Total(pending), resets)
<1>0. d # NoDevice
  OBVIOUS
<1>1. CASE lock = d
  BY <1>0, <1>1 DEF Inv, Shape, Visible, Singles
<1>2. CASE lock # d
  <2>1. Visible(d).save = save /\ Visible(d).consumed = consumed /\ pending = NoEffect
    BY <1>2 DEF Visible, CanLock, Inv, Books
  <2>2. log \in Log /\ save \in Doc /\ consumed \in Nat
    BY DEF Inv, Shape
  <2>. QED
    BY <2>1, <2>2, TotalNothing DEF Singles
<1>. QED
  BY <1>1, <1>2

LEMMA TodayDone ==
  ASSUME Inv, Singles, NEW d \in Devices, step[d] = "write",
         UNCHANGED <<since, now>>,
         \A e \in Devices : e # d => step'[e] = step[e]
  PROVE  Today'
BY DEF Singles, Today, Day

LEMMA DoneOthers ==
  ASSUME Inv, NEW d \in Devices, NEW s, Done(d, s)
  PROVE  \A e \in Devices : e # d => step'[e] = step[e]
BY DEF Done, Inv, Steps

LEMMA KeptOnce ==
  ASSUME Inv, Singles, NEW d \in Devices, step[d] = "write", Done(d, seen[d]),
         UNCHANGED stored, Working
  PROVE  Singles'
<1>1. Today'
  BY DoneOthers, TodayDone DEF Working
<1>. QED
  BY <1>1 DEF Singles, Working, stored, Marks, Total, Day

LEMMA ConflictOnce ==
  ASSUME Inv, Singles, NEW d \in Devices, step[d] = "write", NEW base, NEW slot,
         Conflict(d, base, slot),
         Done(d, Visible(d).save) \/ UNCHANGED step,
         Working
  PROVE  Singles'
<1>1. Today'
  BY DoneOthers, TodayDone DEF Working
<1>2. CanLock(d) /\ draft' = Visible(d) /\ pending' = pending
  BY DEF Conflict
<1>3. Marks(Visible(d).save) /\ Tally(Visible(d).save, Visible(d).consumed, Total(pending), resets)
  BY <1>2, VisibleTally
<1>. QED
  BY <1>1, <1>2, <1>3 DEF Singles, Working, Marks, Total, Day

(* A save is stored that shows the events R, which the one before did not.      *)
LEMMA StoreOnce ==
  ASSUME Inv, Singles, NEW d \in Devices, step[d] = "write", NEW base, NEW slot \in Nat,
         seen[d].rev = Visible(d).save.rev, NEW new \in Doc,
         CompareAndSave(d, base, new, slot), Done(d, Stored(new, base)),
         Grows(seen[d], new), Marks(new), pending' \in Log, NEW R,
         \A e \in Event : pending'.times[e] <= pending.times[e] + IF e \in R THEN 1 ELSE 0,
         \A e \in Event : e \in R =>
            \/ Repeatable(e)
            \/ e[1] # "slot" /\ ~Had(seen[d], 0, e) /\ Had(new, 0, e)
            \/ e = <<"slot", slot>>,
         Working
  PROVE  Singles'
<1>. DEFINE used == IF slot # 0 THEN slot ELSE Visible(d).consumed
            next == Stored(new, base)
<1>1. Today'
  BY DoneOthers, TodayDone DEF Working
<1>2. CanLock(d) /\ draft'.save = next /\ draft'.consumed = used
      /\ (slot # 0 => Visible(d).consumed < slot) /\ Visible(d).save.rev = base
  BY DEF CompareAndSave, Stored
<1>3. /\ Visible(d).save \in Doc /\ Visible(d).consumed \in Nat
      /\ Tally(Visible(d).save, Visible(d).consumed, Total(pending), resets)
  BY <1>2, VisibleTally
<1>4. seen[d] = Visible(d).save /\ seen[d] \in Doc /\ base \in Nat
  BY <1>2, <1>3, DocFields DEF Inv, Chain, Older
<1>5. used \in Nat /\ Visible(d).consumed <= used
  BY <1>2, <1>3
<1>6. next \in Doc /\ next = [new EXCEPT !.rev = base + 1]
  BY <1>4, StoredDoc DEF Stored
<1>7. /\ next.opened = new.opened /\ next.keys = new.keys /\ next.unlocked = new.unlocked
      /\ next.marker = new.marker
  BY <1>6 DEF Doc, Form
<1>. HIDE DEF next, used
<1>8. Grows(seen[d], next) /\ Marks(next)
  <2>1. OpenDungeons(next) = OpenDungeons(new) /\ \A k : Served(next, k) <=> Served(new, k)
    BY <1>7 DEF OpenDungeons, Served
  <2>2. Marks(next)
    BY <1>7 DEF Marks
  <2>. QED
    BY <1>7, <2>1, <2>2 DEF Grows
<1>9. pending \in Log /\ log \in Log /\ resets \in Nat
  BY DEF Inv, Shape
<1>10. \A e \in Event : Total(pending')[e] <= Total(pending)[e] + IF e \in R THEN 1 ELSE 0
  <2>. SUFFICES ASSUME NEW e \in Event
                PROVE  Total(pending')[e] <= Total(pending)[e] + IF e \in R THEN 1 ELSE 0
    OBVIOUS
  <2>1. /\ Total(pending)[e] = log.times[e] + pending.times[e]
        /\ Total(pending')[e] = log.times[e] + pending'.times[e]
    BY <1>9, TotalLog
  <2>2. log.times[e] \in Nat /\ pending.times[e] \in Nat /\ pending'.times[e] \in Nat
    BY <1>9 DEF Log
  <2>3. pending'.times[e] <= pending.times[e] + IF e \in R THEN 1 ELSE 0
    OBVIOUS
  <2>. QED
    BY <2>1, <2>2, <2>3
<1>11. \A e \in Event : e \in R =>
          Repeatable(e) \/ (~Had(seen[d], Visible(d).consumed, e) /\ Had(next, used, e))
  <2>. SUFFICES ASSUME NEW e \in Event, e \in R, ~Repeatable(e)
                PROVE  ~Had(seen[d], Visible(d).consumed, e) /\ Had(next, used, e)
    OBVIOUS
  <2>1. CASE e[1] # "slot" /\ ~Had(seen[d], 0, e) /\ Had(new, 0, e)
    BY <2>1, <1>7 DEF Had, OpenDungeons, Served
  <2>2. CASE e = <<"slot", slot>>
    <3>1. slot \in Slots /\ e[1] = "slot" /\ e[2] = slot /\ "slot" \notin Rewards
      BY <2>2, EventFields DEF Rewards
    <3>2. used = slot /\ Visible(d).consumed < slot
      BY <1>2, <3>1 DEF used, Slots
    <3>3. ~Had(seen[d], Visible(d).consumed, e)
      BY <1>3, <3>1, <3>2 DEF Had, Slots
    <3>4. Had(next, used, e)
      BY <3>1, <3>2 DEF Had, Slots
    <3>. QED
      BY <3>3, <3>4
  <2>. QED
    BY <2>1, <2>2
<1>12. Tally(next, used, Total(pending'), resets)
  <2>1. Total(pending) \in [Event -> Nat] /\ Total(pending') \in [Event -> Nat]
    BY <1>9, TotalLog
  <2>. QED
    BY <1>3, <1>4, <1>5, <1>6, <1>8, <1>9, <1>10, <1>11, <2>1, TallyGrows
<1>. QED
  BY <1>1, <1>2, <1>8, <1>12 DEF Singles, Working, Marks, Total, Day

----------------------------------------------------------------------------
(* What is counted.                                                          *)

LEMMA EffectTimes ==
  ASSUME pending \in Log, NEW e, NEW gold, NEW potions, NEW steps,
         Effect(e, gold, potions, steps)
  PROVE  \A x \in Event : pending'.times[x] <= pending.times[x] + IF x \in {e} THEN 1 ELSE 0
<1>1. pending.times \in [Event -> Nat]
  BY DEF Log
<1>2. pending'.times = [pending.times EXCEPT ![e] = @ + 1]
  BY DEF Effect, Log
<1>3. ASSUME NEW x \in Event
      PROVE  pending'.times[x] <= pending.times[x] + IF x \in {e} THEN 1 ELSE 0
  <2>1. pending.times[x] \in Nat
    BY <1>1
  <2>2. CASE x = e
    BY <1>1, <1>2, <2>1, <2>2
  <2>3. CASE x # e
    BY <1>1, <1>2, <2>1, <2>3
  <2>. QED
    BY <2>2, <2>3
<1>. QED
  BY <1>3

LEMMA EffectWithTimes ==
  ASSUME pending \in Log, NEW events, NEW steps, EffectWith(events, steps)
  PROVE  \A x \in Event : pending'.times[x] <= pending.times[x] + IF x \in events THEN 1 ELSE 0
<1>1. pending.times \in [Event -> Nat]
  BY DEF Log
<1>2. pending'.times = [x \in Event |-> IF x \in events THEN pending.times[x] + 1
                                        ELSE pending.times[x]]
  BY DEF EffectWith, Log
<1>. QED
  BY <1>1, <1>2

LEMMA SeenToday ==
  ASSUME Inv, Singles, NEW d \in Devices, step[d] = "write", CanLock(d),
         seen[d].rev = Visible(d).save.rev
  PROVE  seen[d] \in Doc /\ Marks(seen[d])
BY VisibleTally DEF Inv, Chain, Older

(* An event that is stored without an access right.                             *)
LEMMA EventOnce ==
  ASSUME Inv, Singles, NEW d \in Devices, step[d] = "write", NEW new \in Doc,
         CompareAndSave(d, seen[d].rev, new, 0), Done(d, Stored(new, seen[d].rev)),
         Grows(seen[d], new), Marks(new), NEW e, NEW gold \in Int, NEW potions \in Int,
         Effect(e, gold, potions, 0),
         e \in Event => \/ Repeatable(e)
                        \/ e[1] # "slot" /\ ~Had(seen[d], 0, e) /\ Had(new, 0, e),
         Working
  PROVE  Singles'
<1>1. pending \in Log /\ seen[d].rev = Visible(d).save.rev
  BY DEF Inv, Shape, CompareAndSave
<1>2. pending' \in Log
  BY <1>1, EffectLog
<1>3. \A x \in Event : pending'.times[x] <= pending.times[x] + IF x \in {e} THEN 1 ELSE 0
  BY <1>1, EffectTimes
<1>. DEFINE R == {e}
<1>4. \A x \in Event : x \in R =>
         \/ Repeatable(x)
         \/ x[1] # "slot" /\ ~Had(seen[d], 0, x) /\ Had(new, 0, x)
         \/ x = <<"slot", 0>>
  OBVIOUS
<1>5. \A x \in Event : pending'.times[x] <= pending.times[x] + IF x \in R THEN 1 ELSE 0
  BY <1>3
<1>. HIDE DEF R
<1>. QED
  BY <1>1, <1>2, <1>4, <1>5, StoreOnce

(* A save is stored and nothing is counted.                                     *)
LEMMA PlainOnce ==
  ASSUME Inv, Singles, NEW d \in Devices, step[d] = "write", NEW new \in Doc,
         CompareAndSave(d, seen[d].rev, new, 0), Done(d, Stored(new, seen[d].rev)),
         Grows(seen[d], new), Marks(new), UNCHANGED pending, Working
  PROVE  Singles'
<1>1. pending \in Log /\ seen[d].rev = Visible(d).save.rev
  BY DEF Inv, Shape, CompareAndSave
<1>2. pending.times \in [Event -> Nat]
  BY <1>1 DEF Log
<1>3. \A x \in Event : pending'.times[x] <= pending.times[x] + IF x \in {} THEN 1 ELSE 0
  BY <1>2
<1>. DEFINE R == {}
<1>4. \A x \in Event : x \in R =>
         \/ Repeatable(x)
         \/ x[1] # "slot" /\ ~Had(seen[d], 0, x) /\ Had(new, 0, x)
         \/ x = <<"slot", 0>>
  OBVIOUS
<1>5. \A x \in Event : pending'.times[x] <= pending.times[x] + IF x \in R THEN 1 ELSE 0
  BY <1>3
<1>. HIDE DEF R
<1>. QED
  BY <1>1, <1>4, <1>5, StoreOnce

----------------------------------------------------------------------------
(* The operations.                                                           *)

LEMMA BuyOnce ==
  ASSUME Inv, Singles, NEW d \in Devices, Buy(d)
  PROVE  Singles'
<1>. DEFINE new == [seen[d] EXCEPT !.gold = @ - Price]
<1>1. /\ step[d] = "write" /\ CompareAndSave(d, seen[d].rev, new, 0) /\ CanLock(d)
      /\ Done(d, Stored(new, seen[d].rev)) /\ Working /\ seen[d].gold >= Price
      /\ Effect(<<"buy", 0>>, -Price, 0, 0) /\ seen[d].rev = Visible(d).save.rev
  BY DEF Buy, Asked, At, CompareAndSave
<1>2. seen[d] \in Doc /\ Marks(seen[d])
  BY <1>1, SeenToday
<1>3. seen[d].gold - Price \in Nat /\ -Price \in Int
  BY <1>1, <1>2, DocFields
<1>4. /\ new \in Doc /\ new.opened = seen[d].opened /\ new.keys = seen[d].keys
      /\ new.unlocked = seen[d].unlocked /\ new.marker = seen[d].marker
  BY <1>2, <1>3 DEF Doc, Form
<1>. HIDE DEF new
<1>5. Grows(seen[d], new) /\ Marks(new)
  BY <1>2, <1>4, GrowsSame DEF Grows, Marks, OpenDungeons, Served
<1>6. Repeatable(<<"buy", 0>>)
  BY DEF Repeatable
<1>. QED
  BY <1>1, <1>3, <1>4, <1>5, <1>6, EventOnce

LEMMA UsePotionOnce ==
  ASSUME Inv, Singles, NEW d \in Devices, UsePotion(d)
  PROVE  Singles'
<1>. DEFINE left == IF seen[d].moves > PotionSteps THEN seen[d].moves - PotionSteps ELSE 0
            new == [seen[d] EXCEPT !.potions = @ - 1, !.moves = left, !.phase = "path"]
<1>1. /\ step[d] = "write" /\ CompareAndSave(d, seen[d].rev, new, 0) /\ CanLock(d)
      /\ Done(d, Stored(new, seen[d].rev)) /\ Working
      /\ seen[d].potions > 0 /\ seen[d].moves > 0
      /\ Effect(<<"drink", 0>>, 0, -1, 0) /\ seen[d].rev = Visible(d).save.rev
  BY DEF UsePotion, Asked, At, CompareAndSave
<1>2. seen[d] \in Doc /\ Marks(seen[d])
  BY <1>1, SeenToday
<1>3. seen[d].potions - 1 \in Nat /\ left \in Walks /\ left < MovesPerEvent /\ "path" \in Phases
  BY <1>1, <1>2, DocFields DEF Walks, Phases
<1>. HIDE DEF left
<1>4. /\ new \in Doc /\ new.opened = seen[d].opened /\ new.keys = seen[d].keys
      /\ new.unlocked = seen[d].unlocked /\ new.marker = seen[d].marker
  BY <1>2, <1>3 DEF Doc, Form
<1>. HIDE DEF new
<1>5. Grows(seen[d], new) /\ Marks(new)
  BY <1>2, <1>4, GrowsSame DEF Grows, Marks, OpenDungeons, Served
<1>6. Repeatable(<<"drink", 0>>)
  BY DEF Repeatable
<1>. QED
  BY <1>1, <1>4, <1>5, <1>6, EventOnce

LEMMA AppendKeeps ==
  ASSUME NEW S, NEW u \in Seq(S), NEW a \in S
  PROVE  /\ Len(Append(u, a)) = Len(u) + 1 /\ Append(u, a)[Len(u) + 1] = a
         /\ \A i \in 1 .. Len(u) : Append(u, a)[i] = u[i]
         /\ DOMAIN Append(u, a) = 1 .. (Len(u) + 1) /\ DOMAIN u = 1 .. Len(u) /\ Len(u) \in Nat
OBVIOUS

LEMMA UseKeyOnce ==
  ASSUME Inv, Singles, NEW d \in Devices, UseKey(d)
  PROVE  Singles'
<1>. DEFINE r == want[d]
            entry == [step |-> 0, target |-> r]
            keys == [seen[d].keys EXCEPT ![r] = "spent"]
            list == Append(seen[d].unlocked, entry)
            new == [seen[d] EXCEPT !.keys[r] = "spent", !.unlocked = Append(@, entry)]
<1>1. /\ step[d] = "write" /\ CompareAndSave(d, seen[d].rev, new, 0) /\ CanLock(d)
      /\ Done(d, Stored(new, seen[d].rev)) /\ Working
      /\ Len(seen[d].unlocked) < MaxUnlocked /\ r \notin OpenDungeons(seen[d])
      /\ Effect(<<"open", r>>, 0, 0, 0) /\ seen[d].rev = Visible(d).save.rev
      /\ r \in Dungeons /\ seen[d].keys[r] = "held"
  BY DEF UseKey, Asked, At, CompareAndSave, Inv, Shape
<1>2. seen[d] \in Doc /\ Marks(seen[d]) /\ seen[d].keys \in KeyRing
  BY <1>1, SeenToday, DocFields
<1>3. keys \in KeyRing /\ (\A x \in Dungeons : keys[x] = "none" => seen[d].keys[x] = "none")
  BY <1>1, <1>2 DEF KeyRing
<1>4. seen[d].unlocked \in Seq(Entries) /\ entry \in Entries /\ list \in Lists
  <2>1. seen[d].unlocked \in Seq(Entries) /\ Len(seen[d].unlocked) < MaxUnlocked
    BY <1>1, <1>2, DocFields DEF Lists
  <2>2. entry \in Entries
    BY <1>1 DEF Entries
  <2>. QED
    BY <2>1, <2>2 DEF Lists
<1>5. new = [seen[d] EXCEPT !.keys = keys, !.unlocked = list]
  OBVIOUS
<1>. DEFINE n == Len(seen[d].unlocked)
<1>x. entry.target = r
  OBVIOUS
<1>. HIDE DEF entry
<1>6. /\ list[n + 1] = entry /\ \A i \in 1 .. n : list[i] = seen[d].unlocked[i]
      /\ DOMAIN list = 1 .. (n + 1) /\ DOMAIN seen[d].unlocked = 1 .. n /\ n \in Nat
  <2>1. PICK u \in Seq(Entries) : u = seen[d].unlocked
    BY <1>4
  <2>2. /\ Len(Append(u, entry)) = Len(u) + 1 /\ Append(u, entry)[Len(u) + 1] = entry
        /\ \A i \in 1 .. Len(u) : Append(u, entry)[i] = u[i]
        /\ DOMAIN Append(u, entry) = 1 .. (Len(u) + 1) /\ DOMAIN u = 1 .. Len(u) /\ Len(u) \in Nat
    BY <1>4, <2>1, AppendKeeps
  <2>. QED
    BY <2>1, <2>2
<1>. HIDE DEF keys, list
<1>7. /\ new \in Doc /\ new.opened = seen[d].opened /\ new.keys = keys
      /\ new.unlocked = list /\ new.marker = seen[d].marker
  BY <1>2, <1>3, <1>4, <1>5 DEF Doc, Form
<1>. HIDE DEF new
<1>8. /\ OpenDungeons(seen[d]) \subseteq OpenDungeons(new) /\ r \in OpenDungeons(new)
      /\ \A k : Served(seen[d], k) => Served(new, k)
  <2>. HIDE DEF n
  <2>1. \A i \in 1 .. n : i \in 1 .. (n + 1) /\ new.unlocked[i] = seen[d].unlocked[i]
    BY <1>6, <1>7
  <2>2. n + 1 \in DOMAIN new.unlocked /\ new.unlocked[n + 1].target = r
    BY <1>6, <1>x, <1>7
  <2>3. r \in OpenDungeons(new)
    BY <2>2 DEF OpenDungeons
  <2>4. OpenDungeons(seen[d]) \subseteq OpenDungeons(new)
    BY <1>6, <1>7, <2>1 DEF OpenDungeons
  <2>5. \A k : Served(seen[d], k) => Served(new, k)
    BY <1>6, <1>7, <2>1 DEF Served
  <2>. QED
    BY <2>3, <2>4, <2>5
<1>9. Grows(seen[d], new) /\ Marks(new)
  BY <1>2, <1>3, <1>7, <1>8, GrowsSame DEF Grows, Marks
<1>10. LET e == <<"open", r>> IN e[1] # "slot" /\ ~Had(seen[d], 0, e) /\ Had(new, 0, e)
  BY <1>1, <1>8 DEF Had, Rewards
<1>. QED
  BY <1>1, <1>7, <1>9, <1>10, EventOnce

LEMMA OpenChestOnce ==
  ASSUME Inv, Singles, NEW d \in Devices, OpenChest(d)
  PROVE  Singles'
<1>. DEFINE New(c) == [seen[d] EXCEPT !.opened = @ \cup {c}, !.gold = @ + ChestGold,
                                      !.potions = @ + ChestPotions]
<1>1. PICK c \in Chests :
           \/ /\ CompareAndSave(d, seen[d].rev, seen[d], 0) /\ UNCHANGED pending
              /\ Done(d, Stored(seen[d], seen[d].rev))
           \/ /\ CompareAndSave(d, seen[d].rev, New(c), 0) /\ c \notin seen[d].opened
              /\ Effect(<<"chest", c>>, ChestGold, ChestPotions, 0)
              /\ Done(d, Stored(New(c), seen[d].rev))
  BY DEF OpenChest
<1>2. step[d] = "write" /\ Working /\ CanLock(d) /\ seen[d].rev = Visible(d).save.rev
  BY <1>1 DEF OpenChest, Asked, At, CompareAndSave
<1>3. seen[d] \in Doc /\ Marks(seen[d]) /\ Grows(seen[d], seen[d])
  BY <1>2, SeenToday, GrowsSame
<1>4. CASE /\ CompareAndSave(d, seen[d].rev, seen[d], 0) /\ UNCHANGED pending
           /\ Done(d, Stored(seen[d], seen[d].rev))
  BY <1>2, <1>3, <1>4, PlainOnce
<1>5. CASE /\ CompareAndSave(d, seen[d].rev, New(c), 0) /\ c \notin seen[d].opened
           /\ Effect(<<"chest", c>>, ChestGold, ChestPotions, 0)
           /\ Done(d, Stored(New(c), seen[d].rev))
  <2>. DEFINE new == New(c)
  <2>1. /\ seen[d].gold + ChestGold \in Nat /\ seen[d].potions + ChestPotions \in Nat
        /\ seen[d].opened \cup {c} \in Found /\ ChestGold \in Int /\ ChestPotions \in Int
    BY <1>3, DocFields DEF Found
  <2>2. /\ new \in Doc /\ new.opened = seen[d].opened \cup {c} /\ new.keys = seen[d].keys
        /\ new.unlocked = seen[d].unlocked /\ new.marker = seen[d].marker
    BY <1>3, <2>1 DEF Doc, Form
  <2>3. CompareAndSave(d, seen[d].rev, new, 0) /\ Done(d, Stored(new, seen[d].rev))
    BY <1>5
  <2>. HIDE DEF new
  <2>4. Grows(seen[d], new) /\ Marks(new)
    BY <1>3, <2>2 DEF Grows, Marks, OpenDungeons, Served
  <2>5. LET e == <<"chest", c>> IN e[1] # "slot" /\ ~Had(seen[d], 0, e) /\ Had(new, 0, e)
    BY <1>5, <2>2 DEF Had, Rewards
  <2>. QED
    BY <1>2, <1>5, <2>1, <2>2, <2>3, <2>4, <2>5, EventOnce
<1>. QED
  BY <1>1, <1>4, <1>5

LEMMA LeaveBattleOnce ==
  ASSUME Inv, Singles, NEW d \in Devices, LeaveBattle(d)
  PROVE  Singles'
<1>. DEFINE phase == IF seen[d].moves >= MovesPerEvent THEN "rest" ELSE "path"
            new == [seen[d] EXCEPT !.phase = phase]
<1>1. /\ step[d] = "write" /\ CompareAndSave(d, seen[d].rev, new, 0) /\ CanLock(d)
      /\ Done(d, Stored(new, seen[d].rev)) /\ Working
      /\ UNCHANGED pending /\ seen[d].rev = Visible(d).save.rev
  BY DEF LeaveBattle, At, CompareAndSave
<1>2. seen[d] \in Doc /\ Marks(seen[d])
  BY <1>1, SeenToday
<1>3. phase \in Phases /\ (phase = "path" => seen[d].moves < MovesPerEvent)
  BY <1>2, DocFields DEF Phases, Walks
<1>. HIDE DEF phase
<1>4. /\ new \in Doc /\ new.opened = seen[d].opened /\ new.keys = seen[d].keys
      /\ new.unlocked = seen[d].unlocked /\ new.marker = seen[d].marker
  BY <1>2, <1>3 DEF Doc, Form
<1>. HIDE DEF new
<1>5. Grows(seen[d], new) /\ Marks(new)
  BY <1>2, <1>4, GrowsSame DEF Grows, Marks, OpenDungeons, Served
<1>. QED
  BY <1>1, <1>4, <1>5, PlainOnce

(* A key is granted where there was none.                                       *)
LEMMA KeyOnce ==
  ASSUME Inv, Singles, NEW d \in Devices, step[d] = "write", NEW r \in Dungeons,
         NEW state \in {"held", "spent"}, seen[d].keys[r] = "none",
         NEW new, new = [seen[d] EXCEPT !.keys[r] = state],
         CompareAndSave(d, seen[d].rev, new, 0), Done(d, Stored(new, seen[d].rev)), Effect(<<"key", r>>, 0, 0, 0), Working
  PROVE  Singles'
<1>. DEFINE keys == [seen[d].keys EXCEPT ![r] = state]
<1>1. CanLock(d) /\ seen[d].rev = Visible(d).save.rev
  BY DEF CompareAndSave
<1>2. seen[d] \in Doc /\ Marks(seen[d]) /\ seen[d].keys \in KeyRing
  BY <1>1, SeenToday, DocFields
<1>3. /\ keys \in KeyRing /\ keys[r] # "none"
      /\ \A x \in Dungeons : keys[x] = "none" => seen[d].keys[x] = "none"
  BY <1>2 DEF KeyRing
<1>4. new = [seen[d] EXCEPT !.keys = keys]
  OBVIOUS
<1>. HIDE DEF keys
<1>5. /\ new \in Doc /\ new.opened = seen[d].opened /\ new.keys = keys
      /\ new.unlocked = seen[d].unlocked /\ new.marker = seen[d].marker
  BY <1>2, <1>3, <1>4 DEF Doc, Form
<1>7. Grows(seen[d], new) /\ Marks(new)
  BY <1>2, <1>3, <1>5, GrowsSame DEF Grows, Marks, OpenDungeons, Served
<1>8. LET e == <<"key", r>> IN e[1] # "slot" /\ ~Had(seen[d], 0, e) /\ Had(new, 0, e)
  BY <1>3, <1>5 DEF Had, Rewards
<1>. QED
  <2>1. \A e : e = <<"key", r>> => e[1] # "slot" /\ ~Had(seen[d], 0, e) /\ Had(new, 0, e)
    BY <1>8
  <2>2. new \in Doc /\ 0 \in Int
    BY <1>5
  <2>. QED
    BY <1>7, <2>1, <2>2, EventOnce, ZenonT(30)

LEMMA GrantKeyOnce ==
  ASSUME Inv, Singles, NEW d \in Devices, GrantKey(d)
  PROVE  Singles'
<1>. DEFINE r == want[d]
            state == IF r \in OpenDungeons(seen[d]) THEN "spent" ELSE "held"
            new == [seen[d] EXCEPT !.keys[r] = state]
<1>1. /\ step[d] = "write" /\ Working /\ r \in Dungeons
      /\ \/ Done(d, seen[d]) /\ UNCHANGED stored
         \/ /\ CompareAndSave(d, seen[d].rev, new, 0) /\ Effect(<<"key", r>>, 0, 0, 0)
            /\ Done(d, Stored(new, seen[d].rev)) /\ seen[d].keys[r] = "none"
         \/ /\ Conflict(d, seen[d].rev, 0)
            /\ seen' = [seen EXCEPT ![d] = Visible(d).save] /\ UNCHANGED <<step, todo>>
  BY DEF GrantKey, At, Inv, Shape
<1>2. state \in {"held", "spent"}
  OBVIOUS
<1>. HIDE DEF state
<1>. QED
  BY <1>1, <1>2, KeptOnce, KeyOnce, ConflictOnce

LEMMA ClaimKeyOnce ==
  ASSUME Inv, Singles, NEW d \in Devices, ClaimKey(d)
  PROVE  Singles'
<1>. DEFINE r == want[d]
            new == [seen[d] EXCEPT !.keys[r] = "held"]
<1>1. /\ step[d] = "write" /\ Working /\ r \in Dungeons
      /\ \/ Done(d, seen[d]) /\ UNCHANGED stored
         \/ /\ CompareAndSave(d, seen[d].rev, new, 0) /\ Effect(<<"key", r>>, 0, 0, 0)
            /\ Done(d, Stored(new, seen[d].rev)) /\ seen[d].keys[r] = "none"
  BY DEF ClaimKey, Asked, At, Inv, Shape
<1>. QED
  BY <1>1, KeptOnce, KeyOnce

LEMMA RecoverOnce ==
  ASSUME Inv, Singles, NEW d \in Devices, Recover(d)
  PROVE  Singles'
<1>. DEFINE phase == IF seen[d].phase = "rest" THEN "path" ELSE seen[d].phase
            new == [seen[d] EXCEPT !.moves = 0, !.phase = phase]
<1>1. /\ step[d] = "write" /\ Working
      /\ \/ Done(d, seen[d]) /\ UNCHANGED stored
         \/ \E slot \in SlotNow(d) :
              \/ /\ CompareAndSave(d, seen[d].rev, new, slot)
                 /\ Effect(<<"slot", slot>>, 0, 0, 0)
                 /\ Done(d, Stored(new, seen[d].rev))
              \/ Conflict(d, seen[d].rev, slot) /\ Done(d, Visible(d).save)
  BY DEF Recover, At
<1>2. CASE Done(d, seen[d]) /\ UNCHANGED stored
  BY <1>1, <1>2, KeptOnce
<1>3. ASSUME NEW slot \in SlotNow(d), Conflict(d, seen[d].rev, slot), Done(d, Visible(d).save)
      PROVE  Singles'
  BY <1>1, <1>3, ConflictOnce
<1>4. ASSUME NEW slot \in SlotNow(d), CompareAndSave(d, seen[d].rev, new, slot),
             Effect(<<"slot", slot>>, 0, 0, 0), Done(d, Stored(new, seen[d].rev))
      PROVE  Singles'
  <2>1. /\ seen[d].rev = Visible(d).save.rev /\ CanLock(d) /\ slot \in Nat
        /\ pending \in Log /\ 0 \in Int
    BY <1>4 DEF CompareAndSave, Inv, Shape, SlotNow
  <2>2. seen[d] \in Doc /\ Marks(seen[d])
    BY <1>1, <2>1, SeenToday
  <2>3. phase \in Phases /\ 0 \in Walks /\ 0 < MovesPerEvent
    BY <2>2, DocFields DEF Phases, Walks
  <2>. HIDE DEF phase
  <2>4. /\ new \in Doc /\ new.opened = seen[d].opened /\ new.keys = seen[d].keys
        /\ new.unlocked = seen[d].unlocked /\ new.marker = seen[d].marker
    BY <2>2, <2>3 DEF Doc, Form
  <2>. HIDE DEF new
  <2>5. Grows(seen[d], new) /\ Marks(new)
    BY <2>2, <2>4, GrowsSame DEF Grows, Marks, OpenDungeons, Served
  <2>. DEFINE R == {<<"slot", slot>>}
  <2>6. \A x \in Event : pending'.times[x] <= pending.times[x] + IF x \in R THEN 1 ELSE 0
    BY <1>4, <2>1, EffectTimes
  <2>7. \A x \in Event : x \in R =>
           \/ Repeatable(x)
           \/ x[1] # "slot" /\ ~Had(seen[d], 0, x) /\ Had(new, 0, x)
           \/ x = <<"slot", slot>>
    OBVIOUS
  <2>8. pending' \in Log
    BY <1>4, <2>1, EffectLog
  <2>. HIDE DEF R
  <2>. QED
    BY <1>1, <1>4, <2>1, <2>4, <2>5, <2>6, <2>7, <2>8, StoreOnce
<1>. QED
  BY <1>1, <1>2, <1>3, <1>4

(* The marker of the day is tested under the lock, on the day the review was read.  *)
LEMMA GrantReviewOnce ==
  ASSUME Inv, Singles, NEW d \in Devices, NEW m \in Rewards, GrantReview(d, m)
  PROVE  Singles'
<1>. DEFINE day == Day(since[d])
            marker == [seen[d].marker EXCEPT ![m] = day]
            new == [seen[d] EXCEPT !.potions = @ + 1, !.marker[m] = day]
<1>1. /\ step[d] = "write" /\ Working
      /\ \/ Done(d, seen[d]) /\ UNCHANGED stored
         \/ /\ CompareAndSave(d, seen[d].rev, new, 0) /\ Effect(<<m, day>>, 0, 1, 0)
            /\ Done(d, Stored(new, seen[d].rev)) /\ seen[d].marker[m] # day
         \/ /\ Conflict(d, seen[d].rev, 0)
            /\ seen' = [seen EXCEPT ![d] = Visible(d).save] /\ UNCHANGED <<step, todo>>
  BY DEF GrantReview, At
<1>2. CASE /\ CompareAndSave(d, seen[d].rev, new, 0) /\ Effect(<<m, day>>, 0, 1, 0)
           /\ Done(d, Stored(new, seen[d].rev)) /\ seen[d].marker[m] # day
  <2>1. CanLock(d) /\ seen[d].rev = Visible(d).save.rev
    BY <1>2 DEF CompareAndSave
  <2>2. seen[d] \in Doc /\ Marks(seen[d]) /\ seen[d].marker \in Markers
    BY <1>1, <2>1, SeenToday, DocFields
  <2>3. day \in Nat /\ (Overnight \/ day = Day(now))
    BY <1>1, DayNat DEF Inv, Shape, Singles, Today
  <2>. HIDE DEF day
  <2>4. Overnight \/ seen[d].marker[m] < day
    BY <1>2, <2>2, <2>3 DEF Marks, Markers
  <2>5. /\ marker \in Markers /\ marker[m] = day /\ seen[d].potions + 1 \in Nat
        /\ Overnight \/ \A x \in Rewards : seen[d].marker[x] <= marker[x] /\ marker[x] <= Day(now)
    BY <2>2, <2>3, <2>4, DocFields DEF Markers, Marks
  <2>6. new = [seen[d] EXCEPT !.potions = @ + 1, !.marker = marker]
    OBVIOUS
  <2>. HIDE DEF marker
  <2>7. /\ new \in Doc /\ new.opened = seen[d].opened /\ new.keys = seen[d].keys
        /\ new.unlocked = seen[d].unlocked /\ new.marker = marker
    BY <2>2, <2>5, <2>6 DEF Doc, Form
  <2>8. CompareAndSave(d, seen[d].rev, new, 0) /\ Done(d, Stored(new, seen[d].rev))
    BY <1>2
  <2>. HIDE DEF new
  <2>9. Grows(seen[d], new) /\ Marks(new)
    BY <2>5, <2>7 DEF Grows, Marks, OpenDungeons, Served
  <2>10. LET e == <<m, day>>
         IN Repeatable(e) \/ (e[1] # "slot" /\ ~Had(seen[d], 0, e) /\ Had(new, 0, e))
    <3>1. m \notin {"chest", "key", "open", "unlock", "slot"}
      BY DEF Rewards
    <3>2. Overnight \/ (~(day <= seen[d].marker[m]) /\ day <= new.marker[m])
      BY <2>2, <2>3, <2>4, <2>5, <2>7 DEF Markers
    <3>. QED
      BY <3>1, <3>2 DEF Had, Repeatable
  <2>11. 0 \in Int /\ 1 \in Int
    OBVIOUS
  <2>. QED
    BY <1>1, <1>2, <2>7, <2>8, <2>9, <2>10, <2>11, EventOnce
<1>. QED
  BY <1>1, <1>2, KeptOnce, ConflictOnce

LEMMA ConsumeAccessOnce ==
  ASSUME Inv, Singles, NEW d \in Devices, ConsumeAccess(d)
  PROVE  Singles'
<1>1. PICK slot \in SlotNow(d) :
        /\ step[d] = "write" /\ Working /\ CanLock(d) /\ Done(d, copy[d])
        /\ lock' = d /\ draft' = [Visible(d) EXCEPT !.consumed = slot]
        /\ Effect(<<"slot", slot>>, 0, 0, 0) /\ Visible(d).consumed < slot
  BY DEF ConsumeAccess, At
<1>2. slot \in Nat /\ pending \in Log /\ log \in Log /\ resets \in Nat
  BY <1>1 DEF SlotNow, Inv, Shape
<1>3. /\ Visible(d).save \in Doc /\ Visible(d).consumed \in Nat /\ Marks(Visible(d).save)
      /\ Tally(Visible(d).save, Visible(d).consumed, Total(pending), resets)
  BY <1>1, VisibleTally
<1>4. draft'.save = Visible(d).save /\ draft'.consumed = slot
  BY <1>1, VisibleFacts
<1>5. Today'
  BY <1>1, DoneOthers, TodayDone DEF Working
<1>. DEFINE R == {<<"slot", slot>>}
<1>6. pending' \in Log
  BY <1>1, <1>2, EffectLog
<1>7. \A e \in Event : Total(pending')[e] <= Total(pending)[e] + IF e \in R THEN 1 ELSE 0
  <2>. SUFFICES ASSUME NEW e \in Event
                PROVE  Total(pending')[e] <= Total(pending)[e] + IF e \in R THEN 1 ELSE 0
    OBVIOUS
  <2>1. /\ Total(pending)[e] = log.times[e] + pending.times[e]
        /\ Total(pending')[e] = log.times[e] + pending'.times[e]
    BY <1>2, <1>6, TotalLog
  <2>2. log.times[e] \in Nat /\ pending.times[e] \in Nat /\ pending'.times[e] \in Nat
    BY <1>2, <1>6 DEF Log
  <2>3. pending'.times[e] <= pending.times[e] + IF e \in R THEN 1 ELSE 0
    BY <1>1, <1>2, EffectTimes
  <2>. QED
    BY <2>1, <2>2, <2>3
<1>8. \A e \in Event : e \in R =>
        ~Had(Visible(d).save, Visible(d).consumed, e) /\ Had(Visible(d).save, slot, e)
  BY <1>1, <1>2, <1>3 DEF Had, Rewards
<1>. HIDE DEF R
<1>9. Tally(Visible(d).save, slot, Total(pending'), resets)
  <2>1. Total(pending) \in [Event -> Nat] /\ Total(pending') \in [Event -> Nat]
    BY <1>2, <1>6, TotalLog
  <2>2. Visible(d).consumed <= slot
    BY <1>1, <1>2, <1>3
  <2>. QED
    BY <1>2, <1>3, <1>7, <1>8, <2>1, <2>2, GrowsSame, TallyGrows
<1>. QED
  BY <1>1, <1>3, <1>4, <1>5, <1>9 DEF Singles, Working, Marks, Total, Day

LEMMA ConcatKeeps ==
  ASSUME NEW S, NEW u \in Seq(S), NEW v \in Seq(S)
  PROVE  /\ DOMAIN (u \o v) = 1 .. (Len(u) + Len(v)) /\ DOMAIN u = 1 .. Len(u)
         /\ DOMAIN v = 1 .. Len(v) /\ Len(u) \in Nat /\ Len(v) \in Nat
         /\ \A i \in 1 .. Len(u) : (u \o v)[i] = u[i]
         /\ \A i \in 1 .. Len(v) : (u \o v)[Len(u) + i] = v[i]
OBVIOUS

(* The dungeons found were closed and their milestones not served.               *)
LEMMA FoundNew ==
  ASSUME NEW s \in Doc, NEW owned \in SUBSET Dungeons, NEW found \in Discoveries(s, owned)
  PROVE  /\ found \in Seq(Entries) /\ s.unlocked \in Seq(Entries)
         /\ \A i \in DOMAIN found : /\ found[i].target \notin OpenDungeons(s)
                                    /\ ~Served(s, found[i].step)
<1>1. \A n \in Milestones(s) : ~Served(s, n)
  BY DEF Milestones, Served
<1>. QED
  BY <1>1, DiscoveriesFit

LEMMA ListGrows ==
  ASSUME NEW s \in Doc, NEW owned \in SUBSET Dungeons, NEW found \in Discoveries(s, owned),
         NEW new \in Doc, new.unlocked = s.unlocked \o found
  PROVE  /\ OpenDungeons(s) \subseteq OpenDungeons(new)
         /\ \A k : Served(s, k) => Served(new, k)
         /\ \A e \in Opened(found) : e[1] # "slot" /\ ~Had(s, 0, e) /\ Had(new, 0, e)
<1>1. PICK u \in Seq(Entries) : u = s.unlocked
  BY FoundNew
<1>2. PICK v \in Seq(Entries) : v = found
  BY FoundNew
<1>3. PICK w : w = u \o v /\ w = new.unlocked
  BY <1>1, <1>2
<1>4. /\ DOMAIN w = 1 .. (Len(u) + Len(v)) /\ DOMAIN u = 1 .. Len(u) /\ DOMAIN v = 1 .. Len(v)
      /\ Len(u) \in Nat /\ Len(v) \in Nat
      /\ \A i \in 1 .. Len(u) : w[i] = u[i]
      /\ \A i \in 1 .. Len(v) : w[Len(u) + i] = v[i]
  BY <1>1, <1>2, <1>3, ConcatKeeps
<1>5. \A i \in DOMAIN u : i \in DOMAIN w /\ w[i] = u[i]
  BY <1>4
<1>6. \A i \in DOMAIN v : Len(u) + i \in DOMAIN w /\ w[Len(u) + i] = v[i]
  <2>1. \A p, q \in Nat : \A i \in 1 .. q : p + i \in 1 .. (p + q)
    OBVIOUS
  <2>2. \A i \in 1 .. Len(v) : Len(u) + i \in 1 .. (Len(u) + Len(v))
    BY <1>4, <2>1, Zenon
  <2>. QED
    BY <1>4, <2>2, Zenon
<1>7. OpenDungeons(s) \subseteq OpenDungeons(new)
  BY <1>1, <1>3, <1>5 DEF OpenDungeons
<1>8. \A k : Served(s, k) => Served(new, k)
  BY <1>1, <1>3, <1>5 DEF Served
<1>9. ASSUME NEW e \in Opened(found)
      PROVE  e[1] # "slot" /\ ~Had(s, 0, e) /\ Had(new, 0, e)
  <2>1. PICK i \in DOMAIN v : e = <<"unlock", v[i].step>> \/ e = <<"open", v[i].target>>
    BY <1>2 DEF Opened
  <2>2. v[i].target \notin OpenDungeons(s) /\ ~Served(s, v[i].step)
    BY <1>2, FoundNew
  <2>3. v[i].target \in OpenDungeons(new)
    BY <1>3, <1>6 DEF OpenDungeons
  <2>4. Served(new, v[i].step)
    BY <1>3, <1>6 DEF Served
  <2>5. CASE e = <<"unlock", v[i].step>>
    <3>1. e[1] = "unlock" /\ e[2] = v[i].step /\ "unlock" \notin Rewards
      BY <2>5 DEF Rewards
    <3>. QED
      BY <3>1, <2>2, <2>4 DEF Had
  <2>6. CASE e = <<"open", v[i].target>>
    <3>1. e[1] = "open" /\ e[2] = v[i].target /\ "open" \notin Rewards
      BY <2>6 DEF Rewards
    <3>. QED
      BY <3>1, <2>2, <2>3 DEF Had
  <2>. QED
    BY <2>1, <2>5, <2>6
<1>. QED
  BY <1>7, <1>8, <1>9

LEMMA RefreshUnlocksOnce ==
  ASSUME Inv, Singles, NEW d \in Devices, RefreshUnlocks(d)
  PROVE  Singles'
<1>. DEFINE New(found) == [seen[d] EXCEPT !.unlocked = @ \o found]
<1>2. /\ step[d] = "write" /\ Working
      /\ \E owned \in SUBSET Dungeons : \E found \in Discoveries(seen[d], owned) :
           \/ Done(d, seen[d]) /\ UNCHANGED stored
           \/ /\ CompareAndSave(d, seen[d].rev, New(found), 0)
              /\ EffectWith(Opened(found), 0)
              /\ Done(d, Stored(New(found), seen[d].rev))
           \/ Conflict(d, seen[d].rev, 0) /\ Done(d, Visible(d).save)
  BY DEF RefreshUnlocks, At
<1>3. ASSUME NEW owned \in SUBSET Dungeons, NEW found \in Discoveries(seen[d], owned),
             CompareAndSave(d, seen[d].rev, New(found), 0), EffectWith(Opened(found), 0),
             Done(d, Stored(New(found), seen[d].rev))
      PROVE  Singles'
  <2>. DEFINE new == New(found)
  <2>1. CanLock(d) /\ seen[d].rev = Visible(d).save.rev /\ pending \in Log /\ 0 \in Nat
    BY <1>3 DEF CompareAndSave, Inv, Shape
  <2>2. seen[d] \in Doc /\ Marks(seen[d])
    BY <1>2, <2>1, SeenToday
  <2>3. seen[d].unlocked \o found \in Lists
    BY <2>2, DiscoveriesFit
  <2>4. /\ new \in Doc /\ new.opened = seen[d].opened /\ new.keys = seen[d].keys
        /\ new.unlocked = seen[d].unlocked \o found /\ new.marker = seen[d].marker
    BY <2>2, <2>3 DEF Doc, Form
  <2>5. CompareAndSave(d, seen[d].rev, new, 0) /\ Done(d, Stored(new, seen[d].rev))
    BY <1>3
  <2>. HIDE DEF new
  <2>6. /\ OpenDungeons(seen[d]) \subseteq OpenDungeons(new)
        /\ \A k : Served(seen[d], k) => Served(new, k)
        /\ \A e \in Opened(found) : e[1] # "slot" /\ ~Had(seen[d], 0, e) /\ Had(new, 0, e)
    BY <2>2, <2>4, ListGrows
  <2>7. Grows(seen[d], new) /\ Marks(new)
    BY <2>2, <2>4, <2>6, GrowsSame DEF Grows, Marks
  <2>. DEFINE R == Opened(found)
  <2>8. pending' \in Log
    BY <1>3, <2>1, EffectWithLog
  <2>9. \A x \in Event : pending'.times[x] <= pending.times[x] + IF x \in R THEN 1 ELSE 0
    BY <1>3, <2>1, EffectWithTimes
  <2>10. \A x \in Event : x \in R =>
           \/ Repeatable(x)
           \/ x[1] # "slot" /\ ~Had(seen[d], 0, x) /\ Had(new, 0, x)
           \/ x = <<"slot", 0>>
    BY <2>6
  <2>. HIDE DEF R
  <2>. QED
    BY <1>2, <2>1, <2>4, <2>5, <2>7, <2>8, <2>9, <2>10, StoreOnce
<1>4. CASE Done(d, seen[d]) /\ UNCHANGED stored
  BY <1>2, <1>4, KeptOnce
<1>5. CASE Conflict(d, seen[d].rev, 0) /\ Done(d, Visible(d).save)
  BY <1>2, <1>5, ConflictOnce
<1>. QED
  BY <1>2, <1>3, <1>4, <1>5

LEMMA PutStateOnce ==
  ASSUME Inv, Singles, NEW d \in Devices, PutState(d)
  PROVE  Singles'
<1>. DEFINE c == copy[d]
            p == seen[d]
            walked(s) == IF s.moves > p.moves THEN s.moves - p.moves ELSE 0
            merged(s) == [p EXCEPT !.moves = s.moves, !.phase = s.phase, !.explored = s.explored,
                                   !.steps = @ + walked(s)]
            New(s, found) == [merged(s) EXCEPT !.unlocked = @ \o found]
            Did(s, found, slot) == Opened(found)
                              \cup (IF walked(s) > 0 THEN {<<"walk", 0>>} ELSE {})
                              \cup (IF slot # 0 THEN {<<"slot", slot>>} ELSE {})
            Put(s, found, slot) ==
              /\ CompareAndSave(d, c.rev, New(s, found), slot)
              /\ EffectWith(Did(s, found, slot), walked(s))
              /\ Done(d, Stored(New(s, found), c.rev))
            SlotsOf == IF c.phase = "rest" THEN SlotNow(d) ELSE {0}
<1>1. /\ c \in Doc /\ p \in Doc /\ pending \in Log /\ since[d] \in Nat /\ now \in Nat
  BY DEF Inv, Shape
<1>w. step[d] = "write" /\ Working
  BY DEF PutState, At
<1>p. \E s \in Snapshots(c) : \E owned \in SUBSET Dungeons :
        \E found \in Discoveries(merged(s), owned) : \E slot \in SlotsOf : Put(s, found, slot)
  BY DEF PutState
<1>s. PICK s \in Snapshots(c) : \E owned \in SUBSET Dungeons :
        \E found \in Discoveries(merged(s), owned) : \E slot \in SlotsOf : Put(s, found, slot)
  BY <1>p
<1>o. PICK owned \in SUBSET Dungeons :
        \E found \in Discoveries(merged(s), owned) : \E slot \in SlotsOf : Put(s, found, slot)
  BY <1>s
<1>f. PICK found \in Discoveries(merged(s), owned) : \E slot \in SlotsOf : Put(s, found, slot)
  BY <1>o
<1>2. PICK slot \in SlotsOf : Put(s, found, slot)
  BY <1>f
<1>3. slot \in Nat
  BY <1>1, <1>2 DEF SlotNow
<1>4. s \in Doc
  BY <1>1, <1>2, SnapshotDoc
<1>5. PICK w \in Nat : w = walked(s)
  BY <1>1, <1>4, DocFields DEF Walks
<1>6. PICK m : m = merged(s)
  OBVIOUS
<1>7. m = [p EXCEPT !.moves = s.moves, !.phase = s.phase, !.explored = s.explored, !.steps = @ + w]
  BY <1>5, <1>6
<1>8. p.steps + w \in Nat
  BY <1>1, <1>5, DocFields
<1>9. /\ m \in Doc /\ m.opened = p.opened /\ m.keys = p.keys
      /\ m.unlocked = p.unlocked /\ m.marker = p.marker
  BY <1>1, <1>4, <1>7, <1>8 DEF Doc, Form
<1>10. m.unlocked \o found \in Lists /\ found \in Discoveries(m, owned)
  BY <1>2, <1>6, <1>9, DiscoveriesFit
<1>11. PICK new : new = [m EXCEPT !.unlocked = @ \o found]
  OBVIOUS
<1>12. /\ new \in Doc /\ new.opened = p.opened /\ new.keys = p.keys
       /\ new.unlocked = m.unlocked \o found /\ new.marker = p.marker
  BY <1>9, <1>10, <1>11 DEF Doc, Form
<1>13. /\ CompareAndSave(d, c.rev, new, slot) /\ Done(d, Stored(new, c.rev))
       /\ EffectWith(Did(s, found, slot), w)
  BY <1>2, <1>5, <1>6, <1>11
<1>14. p.rev = Visible(d).save.rev /\ CanLock(d)
  <2>1. c.rev = Visible(d).save.rev /\ CanLock(d)
    BY <1>13 DEF CompareAndSave
  <2>2. c.rev <= p.rev /\ p.rev <= Visible(d).save.rev
    BY <1>w DEF Inv, Chain, Older
  <2>3. p.rev \in Nat /\ Visible(d).save.rev \in Nat
    BY <1>1, VisibleFacts, DocFields
  <2>. QED
    BY <2>1, <2>2, <2>3
<1>15. Marks(p)
  BY <1>w, <1>14, SeenToday
<1>. DEFINE R == Did(s, found, slot)
<1>16. pending' \in Log
  BY <1>1, <1>13, EffectWithLog
<1>17. \A x \in Event : pending'.times[x] <= pending.times[x] + IF x \in R THEN 1 ELSE 0
  BY <1>1, <1>13, EffectWithTimes
<1>18. /\ OpenDungeons(m) \subseteq OpenDungeons(new)
       /\ \A k : Served(m, k) => Served(new, k)
       /\ \A e \in Opened(found) : e[1] # "slot" /\ ~Had(m, 0, e) /\ Had(new, 0, e)
  BY <1>9, <1>10, <1>12, ListGrows
<1>19. \A e : Had(p, 0, e) => Had(m, 0, e)
  BY <1>9 DEF Had, OpenDungeons, Served
<1>20. Grows(p, new) /\ Marks(new)
  <2>1. OpenDungeons(p) = OpenDungeons(m) /\ \A k : Served(p, k) = Served(m, k)
    BY <1>9 DEF OpenDungeons, Served
  <2>. QED
    BY <2>1, <1>1, <1>12, <1>15, <1>18, GrowsSame DEF Grows, Marks
<1>21. \A x \in Event : x \in R =>
         \/ Repeatable(x)
         \/ x[1] # "slot" /\ ~Had(p, 0, x) /\ Had(new, 0, x)
         \/ x = <<"slot", slot>>
  <2>. SUFFICES ASSUME NEW x \in Event, x \in R
                PROVE  \/ Repeatable(x)
                       \/ x[1] # "slot" /\ ~Had(p, 0, x) /\ Had(new, 0, x)
                       \/ x = <<"slot", slot>>
    OBVIOUS
  <2>1. x \in Opened(found) \/ x = <<"walk", 0>> \/ x = <<"slot", slot>>
    OBVIOUS
  <2>. QED
    BY <2>1, <1>18, <1>19 DEF Repeatable
<1>. HIDE DEF c, p, walked, merged, New, R, Did
<1>22. p.rev = Visible(d).save.rev
  BY <1>14
<1>. QED
  BY <1>w, <1>3, <1>12, <1>13, <1>22, <1>16, <1>17, <1>20, <1>21, StoreOnce DEF p

----------------------------------------------------------------------------
(* Requests, the clock and the rest of the world.                            *)

LEMMA ForgetToday ==
  ASSUME Inv, Singles, NEW d \in Devices, Forget(d), now' = now
  PROVE  Today'
<1>. SUFFICES ASSUME ~Overnight, NEW e \in Devices, step'[e] = "write"
              PROVE  Day(since'[e]) = Day(now)
  BY DEF Today, Day
<1>1. e # d
  BY DEF Forget, Inv, Steps
<1>. QED
  BY <1>1 DEF Forget, Singles, Today, Inv, Shape, Steps

LEMMA InitOnce == Init => Singles
<1>. SUFFICES ASSUME Init PROVE Singles
  OBVIOUS
<1>1. Today
  BY DEF Init, Today
<1>2. Fresh.marker = [m \in Rewards |-> 0] /\ Day(1) \in Nat
  BY DayNat DEF Fresh
<1>3. Marks(save)
  BY <1>2 DEF Init, Marks
<1>4. resets = 0 /\ \A e \in Event : log.times[e] = 0
  BY DEF Init, NoEffect
<1>5. Tally(save, consumed, log.times, resets)
  BY <1>4 DEF Tally, Again
<1>. QED
  BY <1>1, <1>3, <1>5 DEF Singles, Init

LEMMA SendOnce ==
  ASSUME Inv, Singles, NEW d \in Devices, Send(d)
  PROVE  Singles'
<1>1. Today'
  BY DEF Send, Singles, Today, Inv, Steps, Day
<1>. QED
  BY <1>1 DEF Send, Singles, stored, Marks, Total, Day

LEMMA ReadOnce ==
  ASSUME Inv, Singles, NEW d \in Devices, Read(d)
  PROVE  Singles'
<1>1. Today'
  <2>. SUFFICES ASSUME ~Overnight, NEW e \in Devices, step'[e] = "write"
                PROVE  Day(since'[e]) = Day(now)
    BY DEF Read, Today, Day
  <2>1. CASE e = d
    BY <2>1 DEF Read, Inv, Shape
  <2>2. CASE e # d
    BY <2>2 DEF Read, Singles, Today, Inv, Shape, Steps
  <2>. QED
    BY <2>1, <2>2
<1>. QED
  BY <1>1 DEF Read, Singles, stored, Marks, Total, Day

LEMMA AbortOnce ==
  ASSUME Inv, Singles, NEW d \in Devices, Abort(d)
  PROVE  Singles'
<1>1. /\ Forget(d) /\ UNCHANGED <<save, consumed, copy, now, finished, resets, log>>
      /\ lock' = NoDevice \/ UNCHANGED stored
  BY DEF Abort, Released
<1>2. Today'
  BY <1>1, ForgetToday
<1>3. CASE lock' = NoDevice
  BY <1>1, <1>2, <1>3 DEF Singles, Marks, Day
<1>4. CASE UNCHANGED stored
  BY <1>1, <1>2, <1>4 DEF Singles, stored, Marks, Total, Day
<1>. QED
  BY <1>1, <1>3, <1>4

LEMMA CommitOnce ==
  ASSUME Inv, Singles, NEW d \in Devices, Commit(d)
  PROVE  Singles'
<1>1. Forget(d) /\ UNCHANGED <<now, finished, resets>> /\ d # NoDevice
  BY DEF Commit
<1>2. Today'
  BY <1>1, ForgetToday
<1>3. CASE lock = d
  <2>1. /\ save' = draft.save /\ consumed' = draft.consumed /\ lock' = NoDevice
        /\ log' = [gold |-> log.gold + pending.gold, potions |-> log.potions + pending.potions,
                   steps |-> log.steps + pending.steps, times |-> Total(pending)]
    BY <1>3 DEF Commit, Released, Total
  <2>2. log'.times = Total(pending)
    BY <2>1
  <2>3. Marks(draft.save) /\ Tally(draft.save, draft.consumed, Total(pending), resets)
    BY <1>1, <1>3 DEF Singles
  <2>. QED
    BY <1>1, <1>2, <2>1, <2>2, <2>3 DEF Singles, Marks, Day
<1>4. CASE lock # d
  <2>1. UNCHANGED <<save, consumed, log, stored>>
    BY <1>4 DEF Commit
  <2>. QED
    BY <1>1, <1>2, <2>1 DEF Singles, stored, Marks, Total, Day
<1>. QED
  BY <1>3, <1>4

LEMMA TickOnce ==
  ASSUME Inv, Singles, Tick
  PROVE  Singles'
<1>1. now \in Nat \ {0} /\ now' = now + 1
  BY DEF Tick, Inv, Shape
<1>2. Day(now) \in Nat /\ Day(now') \in Nat /\ Day(now) <= Day(now')
  BY <1>1, DayGrows
<1>3. Today'
  <2>. SUFFICES ASSUME ~Overnight, NEW e \in Devices, step'[e] = "write"
                PROVE  Day(since'[e]) = Day(now')
    BY DEF Today, Day
  <2>1. step[e] = "write" /\ since'[e] = since[e] /\ Day(since[e]) = Day(now)
    BY DEF Tick, request, Singles, Today
  <2>2. Day(now') = Day(now)
    BY <1>1, <2>1 DEF Tick, Active
  <2>. QED
    BY <2>1, <2>2
<1>4. \A s \in Doc : Marks(s) => Marks(s)'
  <2>. SUFFICES ASSUME NEW s \in Doc, Marks(s), ~Overnight, NEW m \in Rewards
                PROVE  s.marker[m] <= Day(now')
    BY DEF Marks, Day
  <2>1. s.marker[m] \in Nat /\ s.marker[m] <= Day(now)
    BY DocFields DEF Markers, Marks
  <2>. QED
    BY <2>1, <1>2
<1>5. save \in Doc /\ draft.save \in Doc
  BY DEF Inv, Shape
<1>6. UNCHANGED <<save, consumed, stored, log, resets>>
  BY DEF Tick
<1>7. Marks(save)' /\ (lock # NoDevice => Marks(draft.save)')
  BY <1>4, <1>5, <1>6 DEF Singles, Marks, Day, stored
<1>. QED
  BY <1>3, <1>6, <1>7 DEF Singles, stored, Total

LEMMA ResetOnce ==
  ASSUME Inv, Singles, ResetAccess
  PROVE  Singles'
<1>1. /\ lock' = NoDevice /\ consumed' = 0 /\ resets' = resets + 1
      /\ UNCHANGED <<save, stored, request, now, log>>
  BY DEF ResetAccess, stored
<1>2. /\ log.times \in [Event -> Nat] /\ resets \in Nat /\ consumed \in Nat
  BY DEF Inv, Shape, Log
<1>3. ASSUME NEW e \in Event, ~Repeatable(e)
      PROVE  log.times[e] <= Again(e, resets + 1) + IF Had(save, 0, e) THEN 1 ELSE 0
  <2>1. log.times[e] <= Again(e, resets) + IF Had(save, consumed, e) THEN 1 ELSE 0
    BY <1>3 DEF Singles, Tally
  <2>2. log.times[e] \in Nat
    BY <1>2
  <2>3. CASE e[1] = "slot"
    BY <1>2, <2>1, <2>2, <2>3 DEF Again
  <2>4. CASE e[1] # "slot"
    <3>1. Had(save, consumed, e) => Had(save, 0, e)
      BY <2>4 DEF Had
    <3>. QED
      BY <2>1, <2>2, <2>4, <3>1 DEF Again
  <2>. QED
    BY <2>3, <2>4
<1>4. Tally(save, 0, log.times, resets + 1)
  BY <1>3 DEF Tally
<1>5. Today'
  BY <1>1 DEF Singles, Today, request, Day
<1>. QED
  BY <1>1, <1>4, <1>5 DEF Singles, Marks, Day

LEMMA NextOnce == Inv /\ Singles /\ [Next]_vars => Singles'
<1>. SUFFICES ASSUME Inv, Singles, [Next]_vars PROVE Singles'
  OBVIOUS
<1>1. ASSUME NEW d \in Devices, Operation(d) PROVE Singles'
  BY <1>1, PutStateOnce, RefreshUnlocksOnce, GrantReviewOnce, RecoverOnce, BuyOnce, UsePotionOnce,
     UseKeyOnce, OpenChestOnce, GrantKeyOnce, ClaimKeyOnce, LeaveBattleOnce, ConsumeAccessOnce
     DEF Operation
<1>2. ASSUME NEW d \in Devices, Send(d) \/ Read(d) \/ Commit(d) \/ Abort(d)
      PROVE  Singles'
  BY <1>2, SendOnce, ReadOnce, CommitOnce, AbortOnce
<1>3. ASSUME UNCHANGED <<save, consumed, stored, request, now, resets, log>> PROVE Singles'
  <2>1. Today'
    BY <1>3 DEF Singles, Today, request, Day
  <2>. QED
    BY <1>3, <2>1 DEF Singles, stored, Marks, Total, Day
<1>4. ASSUME NEW m \in Rewards, FinishReview(m) PROVE Singles'
  BY <1>3, <1>4 DEF FinishReview
<1>5. CASE UNCHANGED vars
  BY <1>3, <1>5 DEF vars
<1>. QED
  BY <1>1, <1>2, <1>4, <1>5, TickOnce, ResetOnce DEF Next

LEMMA SinglesHold == Spec => []Singles
<1>. QED
  BY InitInv, NextInv, InitOnce, NextOnce, PTL DEF Spec

LEMMA SinglesTell ==
  ASSUME Inv, Singles
  PROVE  FindsOnce /\ SlotUsedOnce /\ (~Overnight => RewardOncePerDay)
<1>1. log.times \in [Event -> Nat] /\ resets \in Nat
  BY DEF Inv, Shape, Log
<1>2. \A e \in Event : Repeatable(e) \/ log.times[e] <= Again(e, resets) + 1
  <2>. SUFFICES ASSUME NEW e \in Event, ~Repeatable(e)
                PROVE  log.times[e] <= Again(e, resets) + 1
    OBVIOUS
  <2>1. log.times[e] <= Again(e, resets) + IF Had(save, consumed, e) THEN 1 ELSE 0
    BY DEF Singles, Tally
  <2>2. log.times[e] \in Nat /\ Again(e, resets) \in Nat
    BY <1>1 DEF Again
  <2>. QED
    BY <2>1, <2>2
<1>3. FindsOnce
  <2>. SUFFICES ASSUME NEW e \in Event, e[1] \in {"chest", "key", "open", "unlock"}
                PROVE  log.times[e] <= 1
    BY DEF FindsOnce
  <2>1. ~Repeatable(e) /\ Again(e, resets) = 0
    BY DEF Repeatable, Again, Rewards
  <2>. QED
    BY <1>1, <1>2, <2>1
<1>4. SlotUsedOnce
  <2>. SUFFICES ASSUME NEW n \in Slots PROVE log.times[<<"slot", n>>] <= 1 + resets
    BY DEF SlotUsedOnce
  <2>. DEFINE e == <<"slot", n>>
  <2>1. e \in Event /\ ~Repeatable(e) /\ Again(e, resets) = resets
    BY DEF Event, Repeatable, Again, Rewards
  <2>. QED
    BY <1>1, <1>2, <2>1
<1>5. ASSUME ~Overnight PROVE RewardOncePerDay
  <2>. SUFFICES ASSUME NEW m \in Rewards, NEW n \in Days PROVE log.times[<<m, n>>] <= 1
    BY DEF RewardOncePerDay
  <2>. DEFINE e == <<m, n>>
  <2>1. e \in Event /\ ~Repeatable(e) /\ Again(e, resets) = 0
    BY <1>5 DEF Event, Repeatable, Again, Rewards
  <2>. QED
    BY <1>1, <1>2, <2>1
<1>. QED
  BY <1>3, <1>4, <1>5

(* A chest pays once, a resource gives one key, a dungeon is opened once, a milestone
   is served once and an access right is used once for each reset, also when requests
   are under way at midnight (treasure.py:115-129, dungeon_keys.py:75-116,
   unlocks.py:42-96, access.py:44-64).                                              *)
THEOREM AdventureFinds == Spec => [](FindsOnce /\ SlotUsedOnce)
<1>1. Inv /\ Singles => FindsOnce /\ SlotUsedOnce
  BY SinglesTell
<1>. QED
  BY <1>1, AdventureInvariant, SinglesHold, PTL

(* When no request is under way at midnight, a review is also rewarded once a day:
   everything that must count once does (economy.py:200-247).                     *)
THEOREM AdventureOnce == ASSUME ~Overnight PROVE Spec => []OnceOnly
<1>1. Inv /\ Singles => OnceOnly
  BY SinglesTell DEF OnceOnly
<1>. QED
  BY <1>1, AdventureInvariant, SinglesHold, PTL
=============================================================================
