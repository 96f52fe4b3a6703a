--------------------------- MODULE CombatTurnProofs ---------------------------
(***************************************************************************)
(* Proofs about CombatTurn for every number of devices and enemies and     *)
(* every bound: a stored battle can always be gone on with, nothing is     *)
(* recorded or paid twice, a defeat ends at the entrance, and the turns    *)
(* and receipts implement BattleLedger.                                    *)
(***************************************************************************)
EXTENDS CombatTurn, FiniteSetTheorems, TLAPS

USE BattleAssumption

----------------------------------------------------------------------------
(* The invariant.                                                            *)

Saves ==
  [phase : {"path", "battle", "rest", "defeated", "cleared"},
   alive : BOOLEAN, moves : 0 .. MovesPerEvent, kills : 0 .. EnemiesToClear,
   bossWon : BOOLEAN, spot : {"entrance", "checkpoint", "ahead"}, feedback : BOOLEAN,
   endReceipt : [on : Turns, id : Turns] \cup {None}, battle : Marker \cup {None}]

(* A marker of a battle whose result is on the screen, or not.  What waits for its
   answer was called in this turn or an earlier one; an end action that waits keeps the
   HP the server has.                                                               *)
Sound(m, feedback) ==
  /\ m.enemies # {}
  /\ m.scheduled => /\ \A e \in m.enemies : m.hp[e] > 0
                    /\ m.actor # None <=> ~feedback
                    /\ ~feedback => m.quiz \in Enemies
  /\ m.skill # None => feedback /\ m.skill <= m.turn
  /\ m.endAction # None =>
        /\ feedback /\ m.endAction.turn <= m.turn
        /\ m.endAction.turn = m.turn => m.endDone
        /\ m.scheduled => \A e \in m.enemies : m.endAction.hp[e] = m.hp[e]

(* Whoever is in a battle lives, and defeat leaves nothing behind.            *)
Good(s) ==
  /\ s.phase = "battle" => s.alive
  /\ s.phase = "defeated" => s.spot = "entrance" /\ s.battle = None
  /\ s.battle # None => s.phase = "battle" /\ Sound(s.battle, s.feedback)

Docs == {s \in Saves : Good(s)}

(* A request under way, unless another save made it stale, still finds what it was
   accepted for.                                                                    *)
Finds(s, op) ==
  LET m == s.battle IN
  /\ op \in {"start", "leaveOld"} => s.phase = "battle" /\ m = None
  /\ op = "boss" => /\ m = None /\ s.alive /\ s.phase \in {"path", "cleared"}
                    /\ s.moves < MovesPerEvent
  /\ op \in Ops \ {"start", "leaveOld", "boss"} => m # None
  /\ op = "turn" /\ m.scheduled => ~s.feedback
  /\ op \in {"next", "leave"} => s.feedback /\ ~Pending(m)
  /\ op = "skill" => s.feedback /\ m.skill = None
  /\ op = "skillAnswer" => m.skill # None
  /\ op = "end" => s.feedback /\ m.endAction = None /\ ~m.endDone
  /\ op = "endAnswer" => m.endAction # None

Shape ==
  /\ save \in Docs
  /\ turnReceipt \in [id : Turns, results : SUBSET Enemies] \cup {None}
  /\ skillReceipt \in Turns \cup {None}
  /\ begun \in 0 .. MaxBattles
  /\ save.battle # None => save.battle.id <= begun
  /\ watched \in Facts /\ count \in 0 .. 2

Calls ==
  /\ call \in [Devices -> {Idle, Stale} \cup [op : Ops, quit : BOOLEAN]]
  /\ \A d \in Devices : Finds(save, call[d].op)

(* A fact of battle id that can no longer be recorded.                        *)
Over(f, m, feedback) ==
  LET turn == f[2][2] IN
  /\ f[1] = "answer" => turn < m.turn
  /\ f[1] = "fall" => f[3] \notin m.enemies
  /\ f[1] = "skill" => turn < m.turn \/ (turn = m.turn /\ m.skill = turn)
  /\ f[1] = "skillAnswer" => turn < m.turn /\ m.skill # turn
  /\ f[1] \in {"end", "endAnswer"} =>
        turn < m.turn \/ (turn = m.turn /\ (m.endDone \/ ~feedback))
  /\ f[1] = "endAnswer" /\ m.endAction # None => m.endAction.turn # turn
Spent(f, s, battles) ==
  /\ f[2][1] <= battles
  /\ s.battle # None /\ s.battle.id = f[2][1] => Over(f, s.battle, s.feedback)

Once == watched[1] = "gambit" \/ count = 0 \/ (count = 1 /\ Spent(watched, save, begun))

Inv == Shape /\ Calls /\ Once

----------------------------------------------------------------------------
(* Saves and markers.                                                        *)

LEMMA SaveFields ==
  ASSUME NEW s \in Saves
  PROVE  /\ s.phase \in {"path", "battle", "rest", "defeated", "cleared"}
         /\ s.alive \in BOOLEAN /\ s.moves \in 0 .. MovesPerEvent
         /\ s.kills \in 0 .. EnemiesToClear /\ s.bossWon \in BOOLEAN
         /\ s.spot \in {"entrance", "checkpoint", "ahead"} /\ s.feedback \in BOOLEAN
         /\ s.endReceipt \in [on : Turns, id : Turns] \cup {None}
         /\ s.battle \in Marker \cup {None}
BY DEF Saves

LEMMA MarkerFields ==
  ASSUME NEW m \in Marker
  PROVE  /\ m # None
         /\ m.id \in 1 .. MaxBattles /\ m.turn \in 0 .. MaxTurns
         /\ m.boss \in BOOLEAN /\ m.scheduled \in BOOLEAN
         /\ m.enemies \in SUBSET Enemies /\ m.hp \in [Enemies -> 0 .. EnemyHp]
         /\ m.actor \in Enemies \cup {"player", None} /\ m.quiz \in Enemies \cup {None}
         /\ m.gambit \in {"none", "free", "costs"} /\ m.sealed \in 0 .. MaxTurns
         /\ m.endDone \in BOOLEAN
         /\ m.endAction \in [turn : 0 .. MaxTurns, hp : [Enemies -> 0 .. EnemyHp]] \cup {None}
         /\ m.skill \in (0 .. MaxTurns) \cup {None} /\ m.skillUsed \in BOOLEAN
<1>1. m # None
  BY NullAssumption
<1>. QED
  BY <1>1 DEF Marker

LEMMA RestingPhase == \A s : Resting(s) \in {"rest", "path"}
BY DEF Resting

LEMMA KillsBounded ==
  ASSUME NEW s \in Saves, NEW S \in SUBSET Enemies
  PROVE  KillsWith(s, Cardinality(S)) \in 0 .. EnemiesToClear
<1>1. IsFiniteSet(S) /\ Cardinality(S) \in Nat
  BY FS_Subset, FS_CardinalityType
<1>. QED
  BY <1>1, SaveFields DEF KillsWith

(* The marker of the next turn.                                               *)
Onward(m, fallen) ==
  [m EXCEPT !.enemies = m.enemies \ fallen, !.turn = m.turn + 1, !.endDone = FALSE]

IsOnward(n, m, fallen) ==
  /\ n \in Marker /\ n.id = m.id /\ n.turn = m.turn + 1 /\ n.scheduled = m.scheduled
  /\ n.enemies = m.enemies \ fallen /\ n.hp = m.hp /\ n.actor = m.actor
  /\ n.endAction = m.endAction /\ n.skill = m.skill

LEMMA OnwardMarker ==
  ASSUME NEW m \in Marker, NEW fallen, m.turn < MaxTurns
  PROVE  IsOnward(Onward(m, fallen), m, fallen)
<1>1. m.turn + 1 \in 0 .. MaxTurns /\ m.enemies \ fallen \in SUBSET Enemies
  BY MarkerFields
<1>. QED
  BY <1>1 DEF Onward, IsOnward, Marker

(* The result of a turn is a save in which the battle is lost, over, or in its next
   turn.                                                                            *)
TurnResult(s, n, fallen) ==
  /\ n \in Saves /\ n.feedback = TRUE
  /\ n.phase = "battle" => n.alive
  /\ n.phase = "defeated" => n.spot = "entrance" /\ n.battle = None
  /\ n.battle # None => /\ n.phase = "battle" /\ s.battle.turn < MaxTurns
                        /\ n.battle = Onward(s.battle, fallen)
                        /\ s.battle.enemies \ fallen # {}

LEMMA AfterTurnSave ==
  ASSUME NEW s \in Docs, s.battle # None, NEW fallen \in SUBSET s.battle.enemies,
         NEW alive \in BOOLEAN, NEW retreat \in BOOLEAN,
         s.battle.turn < MaxTurns \/ retreat
  PROVE  TurnResult(s, AfterTurn(s, fallen, alive, retreat), fallen)
<1>. DEFINE m == s.battle
            left == Standing(m, fallen)
            kills == KillsWith(s, Cardinality(fallen))
            phase == CASE retreat -> Resting(s)
                       [] ~retreat /\ left # {} -> "battle"
                       [] OTHER -> IF kills = EnemiesToClear /\ ~m.boss
                                   THEN "cleared" ELSE Resting(s)
            counted == [s EXCEPT !.kills = kills, !.feedback = TRUE]
            won == s.bossWon \/ (m.boss /\ left = {} /\ ~retreat)
            next == IF phase = "battle"
                    THEN [m EXCEPT !.enemies = left, !.turn = TurnAfter(m), !.endDone = FALSE]
                    ELSE None
            on == [counted EXCEPT !.phase = phase, !.alive = TRUE,
                     !.bossWon = @ \/ (m.boss /\ left = {} /\ ~retreat),
                     !.spot = IF retreat THEN "checkpoint" ELSE @, !.battle = next]
<1>1. s \in Saves /\ m \in Marker /\ fallen \in SUBSET Enemies
  BY SaveFields, MarkerFields DEF Docs
<1>2. kills \in 0 .. EnemiesToClear
  BY <1>1, KillsBounded
<1>3. counted \in Saves /\ counted.feedback = TRUE /\ counted.spot = s.spot
  BY <1>1, <1>2 DEF Saves
<1>4. AfterTurn(s, fallen, alive, retreat) = IF ~alive THEN Defeated(counted) ELSE on
  BY DEF AfterTurn
<1>5. CASE ~alive
  <2>1. Defeated(counted) \in Saves /\ Defeated(counted).feedback = TRUE
    BY <1>3 DEF Defeated, Saves
  <2>2. /\ Defeated(counted).phase = "defeated" /\ Defeated(counted).spot = "entrance"
        /\ Defeated(counted).battle = None
    BY <1>3 DEF Defeated, Saves
  <2>. QED
    BY <1>4, <1>5, <2>1, <2>2 DEF TurnResult
<1>6. CASE alive
  <2>1. phase \in {"path", "rest", "battle", "cleared"}
    BY RestingPhase
  <2>2. phase = "battle" => ~retreat /\ left # {}
    BY RestingPhase
  <2>3. next = IF phase = "battle" THEN Onward(m, fallen) ELSE None
    BY DEF Onward, Standing, TurnAfter
  <2>4. next \in Marker \cup {None}
    <3>. HIDE DEF phase, next
    <3>1. CASE phase = "battle"
      <4>1. m.turn < MaxTurns
        BY <2>2, <3>1
      <4>2. Onward(m, fallen) \in Marker
        BY <1>1, <4>1, OnwardMarker DEF IsOnward
      <4>. QED
        BY <2>3, <3>1, <4>2
    <3>. QED
      BY <2>3, <3>1
  <2>5. on \in Saves /\ on.feedback = TRUE /\ on.phase = phase /\ on.alive = TRUE
        /\ on.battle = next
    <3>. HIDE DEF phase, next, left
    <3>1. (counted.bossWon \/ (m.boss /\ left = {} /\ ~retreat)) \in BOOLEAN
      OBVIOUS
    <3>2. (IF retreat THEN "checkpoint" ELSE counted.spot) \in {"entrance", "checkpoint", "ahead"}
      BY <1>3, SaveFields
    <3>. DEFINE boss == counted.bossWon \/ (m.boss /\ left = {} /\ ~retreat)
                place == IF retreat THEN "checkpoint" ELSE counted.spot
    <3>3. on = [counted EXCEPT !.phase = phase, !.alive = TRUE, !.bossWon = boss,
                               !.spot = place, !.battle = next]
      OBVIOUS
    <3>4. boss \in BOOLEAN /\ place \in {"entrance", "checkpoint", "ahead"}
      BY <3>1, <3>2
    <3>. HIDE DEF counted, boss, place, on
    <3>5. /\ on.phase = phase /\ on.alive = TRUE /\ on.battle = next
          /\ on.feedback = counted.feedback /\ on \in Saves
      BY <1>3, <2>1, <2>4, <3>3, <3>4 DEF Saves
    <3>. QED
      BY <1>3, <3>5
  <2>. HIDE DEF phase, next, on
  <2>. QED
    BY <1>4, <1>6, <2>1, <2>2, <2>3, <2>5 DEF Standing, TurnResult
<1>. QED
  BY <1>5, <1>6

(* What a step of battle m does to it, seen by the facts recorded of it: turns only
   go on, enemies only fall, and what waits for its answer stays or is answered.     *)
Forward(m, shown, n, showing) ==
  /\ n.id = m.id /\ n.turn >= m.turn /\ n.enemies \subseteq m.enemies
  /\ n.turn > m.turn \/ m.skill = None \/ n.skill = m.skill
  /\ n.skill \in {m.skill, None, m.turn}
  /\ m.endDone \/ ~shown => n.turn > m.turn \/ n.endDone \/ ~showing
  /\ \/ n.endAction \in {m.endAction, None}
     \/ n.endAction.turn = m.turn /\ shown /\ ~m.endDone

LEMMA FactFields ==
  ASSUME NEW f \in Facts
  PROVE  /\ f[1] \in {"answer", "skill", "skillAnswer", "end", "endAnswer", "gambit", "fall"}
         /\ f[2][1] \in Nat /\ f[2][2] \in Nat /\ f[2][2] # None
         /\ f[1] # "fall" => f[2][2] \in 0 .. MaxTurns
<1>1. CASE f \in {"answer"} \X Turns \X Enemies
  BY <1>1, NullAssumption DEF Turns
<1>2. CASE f \in {"skill", "skillAnswer", "end", "endAnswer", "gambit"} \X Turns \X {None}
  BY <1>2, NullAssumption DEF Turns
<1>3. CASE f \in {"fall"} \X ((1 .. MaxBattles) \X {0}) \X Enemies
  BY <1>3, NullAssumption DEF Turns
<1>. QED
  BY <1>1, <1>2, <1>3 DEF Facts

LEMMA OverForward ==
  ASSUME NEW m \in Marker, NEW n \in Marker, NEW shown \in BOOLEAN, NEW showing \in BOOLEAN,
         NEW f \in Facts, Forward(m, shown, n, showing), Over(f, m, shown)
  PROVE  Over(f, n, showing)
<1>. DEFINE turn == f[2][2]
<1>1. turn \in Nat /\ turn # None /\ m.turn \in Nat /\ n.turn \in Nat
  BY FactFields, MarkerFields
<1>2. n.turn >= m.turn /\ n.enemies \subseteq m.enemies
  BY DEF Forward
<1>3. f[1] = "answer" => turn < n.turn
  BY <1>1, <1>2 DEF Over
<1>4. f[1] = "fall" => f[3] \notin n.enemies
  BY <1>2 DEF Over
<1>5. f[1] = "skill" => turn < n.turn \/ (turn = n.turn /\ n.skill = turn)
  BY <1>1, <1>2 DEF Over, Forward
<1>6. f[1] = "skillAnswer" => turn < n.turn /\ n.skill # turn
  BY <1>1, <1>2 DEF Over, Forward
<1>7. f[1] \in {"end", "endAnswer"} =>
        turn < n.turn \/ (turn = n.turn /\ (n.endDone \/ ~showing))
  BY <1>1, <1>2 DEF Over, Forward
<1>8. f[1] = "endAnswer" /\ n.endAction # None => n.endAction.turn # turn
  BY <1>1, <1>2 DEF Over, Forward
<1>. QED
  BY <1>3, <1>4, <1>5, <1>6, <1>7, <1>8 DEF Over

(* From the save s to the save n its battle is over or has gone forward.         *)
Onto(s, n) ==
  n.battle = None \/ Forward(s.battle, s.feedback, n.battle, n.feedback)

LEMMA SpentKept ==
  ASSUME NEW s \in Docs, NEW n \in Docs, s.battle # None, Onto(s, n), NEW f \in Facts,
         NEW battles \in Nat, Spent(f, s, battles)
  PROVE  Spent(f, n, battles)
<1>1. CASE n.battle = None
  BY <1>1 DEF Spent
<1>2. CASE n.battle # None
  <2>1. s.battle \in Marker /\ n.battle \in Marker /\ s.feedback \in BOOLEAN
        /\ n.feedback \in BOOLEAN
    BY <1>2, SaveFields DEF Docs
  <2>2. Forward(s.battle, s.feedback, n.battle, n.feedback) /\ n.battle.id = s.battle.id
    BY <1>2 DEF Onto, Forward
  <2>3. n.battle.id = f[2][1] => Over(f, s.battle, s.feedback)
    BY <2>2 DEF Spent
  <2>. QED
    BY <2>1, <2>2, <2>3, OverForward DEF Spent
<1>. QED
  BY <1>1, <1>2

(* Recording facts that were not spent and now are, in a step that keeps what is.  *)
LEMMA OnceKept ==
  ASSUME Inv, NEW R, Record(R), watched' = watched,
         Spent(watched, save, begun) => Spent(watched, save', begun'),
         watched \in R =>
            watched[1] = "gambit"
            \/ (~Spent(watched, save, begun) /\ Spent(watched, save', begun'))
  PROVE  count' \in 0 .. 2 /\ Once'
<1>1. count \in 0 .. 2 /\ Once
  BY DEF Inv, Shape
<1>2. count' \in 0 .. 2
  BY <1>1 DEF Record
<1>3. CASE watched[1] = "gambit"
  BY <1>2, <1>3 DEF Once
<1>4. CASE watched[1] # "gambit"
  BY <1>1, <1>2, <1>4 DEF Once, Record
<1>. QED
  BY <1>2, <1>3, <1>4

LEMMA OnceStill ==
  ASSUME Inv, count' = count, watched' = watched,
         Spent(watched, save, begun) => Spent(watched, save', begun')
  PROVE  count' \in 0 .. 2 /\ Once'
BY DEF Inv, Shape, Once

(* The other requests under way become stale; this one is over or goes on.        *)
LEMMA CallsSaved ==
  ASSUME Calls, NEW d \in Devices, NEW then, Saved(d, then),
         then \in {Idle, Stale} \cup [op : Ops, quit : BOOLEAN], Finds(save', then.op)
  PROVE  Calls'
<1>1. call' \in [Devices -> {Idle, Stale} \cup [op : Ops, quit : BOOLEAN]]
  BY DEF Calls, Saved
<1>2. Finds(save', Idle.op) /\ Finds(save', Stale.op)
  BY DEF Finds, Idle, Stale, Ops
<1>3. ASSUME NEW x \in Devices PROVE Finds(save', call'[x].op)
  <2>1. call'[x] \in {then, Idle, Stale}
    BY DEF Saved
  <2>. QED
    BY <1>2, <2>1
<1>. QED
  BY <1>1, <1>3 DEF Calls

LEMMA CallsOver ==
  ASSUME Calls, NEW d \in Devices, Saved(d, Idle)
  PROVE  Calls'
<1>1. Finds(save', Idle.op)
  BY DEF Finds, Idle, Ops
<1>. QED
  BY <1>1, CallsSaved

(* A retreat finds what it goes on with.                                        *)
LEMMA RetreatFinds ==
  ASSUME NEW s \in Docs
  PROVE  /\ Retreat(s) \in {Idle} \cup [op : Ops, quit : BOOLEAN]
         /\ Finds(s, Retreat(s).op)
<1>1. Retreat(s) \in {Idle} \cup [op : Ops, quit : BOOLEAN]
  BY DEF Retreat, Request, Ops
<1>2. CASE s.battle = None
  BY <1>2 DEF Retreat, Request, Finds, Idle, Ops
<1>3. CASE s.battle # None /\ s.battle.endAction # None
  BY <1>3 DEF Retreat, Request, Finds, Ops
<1>4. CASE s.battle # None /\ s.battle.endAction = None /\ s.battle.skill # None
  BY <1>4 DEF Retreat, Request, Finds, Ops
<1>5. CASE s.battle # None /\ ~Pending(s.battle) /\ s.feedback
  BY <1>5 DEF Retreat, Request, Finds, Ops, Pending
<1>6. CASE s.battle # None /\ ~Pending(s.battle) /\ ~s.feedback
  BY <1>6 DEF Retreat, Request, Finds, Ops, Pending
<1>. QED
  BY <1>1, <1>2, <1>3, <1>4, <1>5, <1>6 DEF Pending

----------------------------------------------------------------------------
(* What the rules make of a save.                                            *)

(* The next turn of s.battle, in which `fallen` fell.                          *)
NextTurn(s, n, fallen) ==
  LET m == s.battle  k == n.battle IN
  k # None => /\ k.turn = m.turn + 1 /\ k.enemies = m.enemies \ fallen
              /\ k.id = m.id /\ n.feedback = TRUE
              /\ k.skill \in {m.skill, None} /\ k.endAction = m.endAction

LEMMA NextTurnOnto ==
  ASSUME NEW s \in Docs, NEW n \in Docs, s.battle # None, NEW fallen, NextTurn(s, n, fallen)
  PROVE  Onto(s, n)
<1>1. CASE n.battle = None
  BY <1>1 DEF Onto
<1>2. CASE n.battle # None
  <2>1. s.battle \in Marker /\ s.battle.turn \in Nat
    BY SaveFields, MarkerFields DEF Docs
  <2>. QED
    BY <1>2, <2>1 DEF Onto, Forward, NextTurn
<1>. QED
  BY <1>1, <1>2

LEMMA SettledSave ==
  ASSUME NEW s \in Docs, s.battle # None, NEW fallen \in SUBSET s.battle.enemies,
         NEW alive \in BOOLEAN, NEW retreat \in BOOLEAN,
         s.battle.turn < MaxTurns \/ retreat, ~s.battle.scheduled
  PROVE  /\ AfterTurn(s, fallen, alive, retreat) \in Docs
         /\ NextTurn(s, AfterTurn(s, fallen, alive, retreat), fallen)
<1>. DEFINE n == AfterTurn(s, fallen, alive, retreat)
            m == s.battle
<1>1. s \in Saves /\ m \in Marker /\ Sound(m, s.feedback)
  BY SaveFields DEF Docs, Good
<1>2. TurnResult(s, n, fallen)
  BY AfterTurnSave
<1>. HIDE DEF n
<1>3. ASSUME n.battle = None PROVE n \in Docs /\ NextTurn(s, n, fallen)
  BY <1>2, <1>3 DEF Docs, Good, NextTurn, TurnResult
<1>4. ASSUME n.battle # None PROVE n \in Docs /\ NextTurn(s, n, fallen)
  <2>1. m.turn \in Nat /\ m.turn < MaxTurns /\ n.battle = Onward(m, fallen)
    BY <1>1, <1>2, <1>4, MarkerFields DEF TurnResult
  <2>2. /\ n.battle.id = m.id /\ n.battle.turn = m.turn + 1
        /\ n.battle.scheduled = m.scheduled /\ n.battle.enemies = m.enemies \ fallen
        /\ n.battle.endAction = m.endAction /\ n.battle.skill = m.skill
    BY <1>1, <2>1, OnwardMarker DEF IsOnward
  <2>3. m.skill # None => m.skill \in Nat /\ m.skill <= m.turn
    BY <1>1, MarkerFields DEF Sound
  <2>4. m.endAction # None => m.endAction.turn \in Nat /\ m.endAction.turn <= m.turn
    BY <1>1, MarkerFields DEF Sound
  <2>5. Sound(n.battle, TRUE)
    BY <1>2, <1>4, <2>1, <2>2, <2>3, <2>4 DEF Sound, TurnResult
  <2>. QED
    BY <1>2, <1>4, <2>2, <2>5 DEF Docs, Good, NextTurn, TurnResult
<1>. QED
  BY <1>3, <1>4 DEF n

(* The marker with the server's view of a scheduled battle.                     *)
LEMMA ResolvedSave ==
  ASSUME NEW s \in Docs, s.battle # None, s.battle.scheduled, ~s.feedback,
         NEW alive \in BOOLEAN, NEW retreat \in BOOLEAN,
         s.battle.turn < MaxTurns \/ retreat, NEW h \in HpAfter(s.battle, retreat)
  PROVE  /\ Resolved(s, h, alive, retreat) \in Docs
         /\ NextTurn(s, Resolved(s, h, alive, retreat), {e \in s.battle.enemies : h[e] = 0})
<1>. DEFINE m == s.battle
            fallen == {e \in m.enemies : h[e] = 0}
            a == AfterTurn(s, fallen, alive, retreat)
            n == Resolved(s, h, alive, retreat)
            done == m.actor # "player" \/ m.gambit # "none"
            k == Onward(m, fallen)
<1>1. s \in Saves /\ m \in Marker /\ Sound(m, s.feedback) /\ fallen \in SUBSET m.enemies
  BY SaveFields DEF Docs, Good
<1>2. TurnResult(s, a, fallen)
  BY <1>1, AfterTurnSave
<1>3. n = IF a.battle = None THEN a
          ELSE [a EXCEPT !.battle.hp = h, !.battle.actor = None, !.battle.endDone = done]
  BY DEF Resolved
<1>4. h \in [Enemies -> 0 .. EnemyHp]
  BY DEF HpAfter
<1>. HIDE DEF a, n
<1>5. ASSUME a.battle = None PROVE n \in Docs /\ NextTurn(s, n, fallen)
  BY <1>2, <1>3, <1>5 DEF Docs, Good, NextTurn, TurnResult
<1>6. ASSUME a.battle # None PROVE n \in Docs /\ NextTurn(s, n, fallen)
  <2>1. m.turn \in Nat /\ m.turn < MaxTurns /\ a.battle = k
    BY <1>1, <1>2, <1>6, MarkerFields DEF TurnResult
  <2>2. /\ k \in Marker /\ k.id = m.id /\ k.turn = m.turn + 1 /\ k.scheduled = m.scheduled
        /\ k.enemies = m.enemies \ fallen /\ k.endAction = m.endAction /\ k.skill = m.skill
    <3>. HIDE DEF fallen
    <3>1. IsOnward(k, m, fallen)
      BY <1>1, <2>1, OnwardMarker
    <3>. QED
      BY <3>1 DEF IsOnward
  <2>. DEFINE r == [k EXCEPT !.hp = h, !.actor = None, !.endDone = done]
  <2>. HIDE DEF k, fallen
  <2>3. done \in BOOLEAN
    OBVIOUS
  <2>. HIDE DEF done
  <2>4. /\ r \in Marker /\ r.id = k.id /\ r.turn = k.turn /\ r.scheduled = k.scheduled
        /\ r.enemies = k.enemies /\ r.endAction = k.endAction /\ r.skill = k.skill
        /\ r.hp = h /\ r.actor = None
    BY <1>4, <2>2, <2>3 DEF Marker
  <2>5. n = [a EXCEPT !.battle = r]
    BY <1>2, <1>3, <1>6, <2>1, <2>2 DEF Saves, Marker, TurnResult
  <2>. HIDE DEF r
  <2>6. /\ n \in Saves /\ n.battle = r /\ n.feedback = TRUE /\ n.phase = "battle"
        /\ n.alive = a.alive /\ a.alive
    BY <1>2, <1>6, <2>4, <2>5 DEF Saves, TurnResult
  <2>7. r # None /\ m.skill = None /\ m.endAction = None
    BY <1>1, <2>4, MarkerFields DEF Sound
  <2>8. \A e \in m.enemies \ fallen : h[e] > 0
    BY <1>1, <1>4, MarkerFields DEF fallen
  <2>9. Sound(r, TRUE)
    BY <1>2, <1>6, <2>2, <2>4, <2>7, <2>8 DEF Sound, TurnResult
  <2>. QED
    BY <2>2, <2>4, <2>6, <2>7, <2>9 DEF Docs, Good, NextTurn, fallen
<1>. QED
  BY <1>5, <1>6 DEF n

LEMMA SkillResultSave ==
  ASSUME NEW s \in Docs, s.battle # None, s.battle.skill # None,
         NEW fallen \in SUBSET s.battle.enemies,
         NEW alive \in BOOLEAN, NEW retreat \in BOOLEAN,
         s.battle.turn < MaxTurns \/ retreat
  PROVE  /\ SkillResult(s, fallen, alive, retreat) \in Docs
         /\ NextTurn(s, SkillResult(s, fallen, alive, retreat), fallen)
         /\ SkillResult(s, fallen, alive, retreat).battle # None
              => SkillResult(s, fallen, alive, retreat).battle.skill = None
<1>. DEFINE m == s.battle
            a == AfterTurn(s, fallen, alive, retreat)
            n == SkillResult(s, fallen, alive, retreat)
            k == Onward(m, fallen)
<1>1. s \in Saves /\ m \in Marker /\ Sound(m, s.feedback)
  BY SaveFields DEF Docs, Good
<1>2. TurnResult(s, a, fallen)
  BY <1>1, AfterTurnSave
<1>3. n = IF a.battle = None THEN a ELSE [a EXCEPT !.battle.skill = None]
  BY DEF SkillResult
<1>. HIDE DEF a, n
<1>5. ASSUME a.battle = None PROVE n \in Docs /\ NextTurn(s, n, fallen) /\ (n.battle # None => n.battle.skill = None)
  BY <1>2, <1>3, <1>5 DEF Docs, Good, NextTurn, TurnResult
<1>6. ASSUME a.battle # None PROVE n \in Docs /\ NextTurn(s, n, fallen) /\ (n.battle # None => n.battle.skill = None)
  <2>1. m.turn \in Nat /\ m.turn < MaxTurns /\ a.battle = k
    BY <1>1, <1>2, <1>6, MarkerFields DEF TurnResult
  <2>2. /\ k \in Marker /\ k.id = m.id /\ k.turn = m.turn + 1 /\ k.scheduled = m.scheduled
        /\ k.enemies = m.enemies \ fallen /\ k.endAction = m.endAction
        /\ k.hp = m.hp /\ k.actor = m.actor
    BY <1>1, <2>1, OnwardMarker DEF IsOnward
  <2>. DEFINE r == [k EXCEPT !.skill = None]
  <2>. HIDE DEF k
  <2>4. /\ r \in Marker /\ r.id = k.id /\ r.turn = k.turn /\ r.scheduled = k.scheduled
        /\ r.enemies = k.enemies /\ r.endAction = k.endAction /\ r.skill = None
        /\ r.hp = k.hp /\ r.actor = k.actor
    BY <2>2 DEF Marker
  <2>5. n = [a EXCEPT !.battle = r]
    BY <1>2, <1>3, <1>6, <2>1, <2>2 DEF Saves, Marker, TurnResult
  <2>. HIDE DEF r
  <2>6. /\ n \in Saves /\ n.battle = r /\ n.feedback = TRUE /\ n.phase = "battle"
        /\ n.alive = a.alive /\ a.alive
    BY <1>2, <1>6, <2>4, <2>5 DEF Saves, TurnResult
  <2>7. s.feedback /\ r # None
    BY <1>1, <2>4, MarkerFields DEF Sound
  <2>8. m.endAction # None => m.endAction.turn \in Nat /\ m.endAction.turn <= m.turn
    BY <1>1, MarkerFields DEF Sound
  <2>9. Sound(r, TRUE)
    BY <1>1, <1>2, <1>6, <2>1, <2>2, <2>4, <2>7, <2>8 DEF Sound, TurnResult
  <2>. QED
    BY <2>2, <2>4, <2>6, <2>7, <2>9 DEF Docs, Good, NextTurn
<1>. QED
  BY <1>5, <1>6 DEF n

(* The end action leaves the battle over, or in the same turn with fewer enemies.  *)
FinishResult(s, n, fallen) ==
  /\ n \in Docs
  /\ n.battle # None =>
       /\ n.battle.turn = s.battle.turn /\ n.battle.id = s.battle.id
       /\ n.battle.enemies = s.battle.enemies \ fallen
       /\ n.battle.endDone = s.battle.endDone /\ n.battle.endAction = None
       /\ n.battle.skill = s.battle.skill /\ n.feedback

LEMMA FinishSave ==
  ASSUME NEW s \in Docs, s.battle # None, s.feedback, NEW called \in 0 .. MaxTurns,
         NEW fallen \in SUBSET s.battle.enemies, NEW alive \in BOOLEAN,
         NEW h \in [Enemies -> 0 .. EnemyHp],
         s.battle.scheduled => \A e \in s.battle.enemies \ fallen : h[e] > 0
  PROVE  FinishResult(s, Finish(s, called, fallen, alive, h), fallen)
<1>. DEFINE m == s.battle
            left == Standing(m, fallen)
            won == left = {}
            kills == KillsWith(s, Cardinality(fallen))
            phase == IF ~won THEN s.phase
                     ELSE IF kills = EnemiesToClear /\ ~m.boss THEN "cleared" ELSE Resting(s)
            bossWon == s.bossWon \/ (won /\ m.boss)
            receipt == [on |-> <<m.id, m.turn>>, id |-> <<m.id, called>>]
            r == [m EXCEPT !.enemies = left, !.endAction = None, !.hp = h]
            battle == IF won THEN None ELSE r
            over == [s EXCEPT !.phase = phase, !.kills = kills, !.bossWon = bossWon,
                              !.endReceipt = receipt, !.battle = battle]
            n == Finish(s, called, fallen, alive, h)
<1>1. s \in Saves /\ m \in Marker /\ Sound(m, s.feedback) /\ fallen \in SUBSET Enemies
  BY SaveFields, MarkerFields DEF Docs, Good
<1>2. n = IF alive THEN over ELSE Defeated(over)
  BY DEF Finish
<1>3. kills \in 0 .. EnemiesToClear
  BY <1>1, KillsBounded
<1>4. phase \in {"battle", "cleared", "rest", "path"} /\ (~won => phase = "battle")
      /\ s.alive
  BY RestingPhase DEF Docs, Good
<1>5. receipt \in [on : Turns, id : Turns]
  BY <1>1, MarkerFields DEF Turns
<1>6. /\ r \in Marker /\ r.turn = m.turn /\ r.id = m.id /\ r.enemies = left
      /\ r.endDone = m.endDone /\ r.endAction = None /\ r.skill = m.skill
      /\ r.scheduled = m.scheduled /\ r.actor = m.actor /\ r.hp = h
  BY <1>1, MarkerFields DEF Marker, Standing
<1>7. left = m.enemies \ fallen
  BY DEF Standing
<1>. HIDE DEF kills, phase, receipt, r, left, n
<1>8. /\ over \in Saves /\ over.phase = phase /\ over.battle = battle
      /\ over.feedback /\ over.alive = s.alive
  <2>1. battle \in Marker \cup {None} /\ bossWon \in BOOLEAN
    BY <1>6
  <2>. HIDE DEF battle, bossWon
  <2>. QED
    BY <1>1, <1>3, <1>4, <1>5, <2>1 DEF Saves
<1>9. ~won => Sound(r, TRUE)
  BY <1>1, <1>6, <1>7 DEF Sound
<1>. HIDE DEF over
<1>10. CASE alive
  <2>1. n = over
    BY <1>2, <1>10
  <2>2. n \in Docs
    BY <1>4, <1>6, <1>8, <1>9, <2>1 DEF Docs, Good
  <2>3. n.battle # None =>
              /\ n.battle.turn = s.battle.turn /\ n.battle.id = s.battle.id
              /\ n.battle.enemies = s.battle.enemies \ fallen
              /\ n.battle.endDone = s.battle.endDone /\ n.battle.endAction = None
              /\ n.battle.skill = s.battle.skill /\ n.feedback
    BY <1>6, <1>7, <1>8, <2>1
  <2>. QED
    BY <2>2, <2>3 DEF n, FinishResult
<1>11. CASE ~alive
  <2>1. n = Defeated(over)
    BY <1>2, <1>11
  <2>2. /\ n \in Saves /\ n.phase = "defeated" /\ n.spot = "entrance" /\ n.battle = None
    BY <1>8, <2>1 DEF Defeated, Saves
  <2>. QED
    BY <2>2 DEF Docs, Good, n, FinishResult
<1>. QED
  BY <1>10, <1>11

(* The action sealed for the next turn has an actor and a question.               *)
LEMMA SealedMarker ==
  ASSUME NEW m \in Marker, m.enemies # {}, NEW n \in Sealings(m)
  PROVE  /\ n \in Marker /\ n.id = m.id /\ n.turn = m.turn /\ n.enemies = m.enemies
         /\ n.scheduled = m.scheduled /\ n.hp = m.hp /\ n.skill = m.skill
         /\ n.endAction = m.endAction /\ n.actor # None /\ n.quiz \in Enemies
<1>1. PICK a \in m.enemies \cup {"player"}, g \in {"none", "free", "costs"} :
        n = Sealed(m, a, g)
  BY DEF Sealings
<1>2. First(m.enemies) \in m.enemies
  BY DEF First
<1>. DEFINE quiz == IF a = "player" THEN First(m.enemies) ELSE a
            gambit == IF a = "player" THEN g ELSE "none"
<1>3. /\ a \in Enemies \cup {"player"} /\ a # None /\ quiz \in Enemies
      /\ gambit \in {"none", "free", "costs"} /\ m.turn \in 0 .. MaxTurns
      /\ (a # "player") \in BOOLEAN
  BY <1>2, MarkerFields
<1>. DEFINE done == a # "player"
<1>. HIDE DEF quiz, gambit
<1>4. n = [m EXCEPT !.actor = a, !.quiz = quiz, !.gambit = gambit,
                    !.sealed = m.turn, !.endDone = done]
  BY <1>1 DEF quiz, gambit, Sealed
<1>5. done \in BOOLEAN
  OBVIOUS
<1>. HIDE DEF done
<1>6. /\ n.id = m.id /\ n.turn = m.turn /\ n.enemies = m.enemies
      /\ n.scheduled = m.scheduled /\ n.hp = m.hp /\ n.skill = m.skill
      /\ n.endAction = m.endAction /\ n.actor = a /\ n.quiz = quiz
  BY <1>4 DEF Marker
<1>7. n \in Marker
  BY <1>3, <1>4, <1>5 DEF Marker
<1>. QED
  BY <1>3, <1>6, <1>7

----------------------------------------------------------------------------
(* The steps.                                                                *)

LEMMA InBattle ==
  ASSUME Inv, NEW d \in Devices, call[d].op \in Ops \ {"start", "boss", "leaveOld"}
  PROVE  /\ save \in Docs /\ save \in Saves /\ save.battle \in Marker /\ save.battle # None
         /\ Sound(save.battle, save.feedback) /\ save.feedback \in BOOLEAN
         /\ save.battle.id <= begun /\ begun \in Nat
         /\ watched \in Facts
BY SaveFields DEF Inv, Shape, Calls, Finds, Docs, Good

(* What a step leaves to show when it saves n for the battle of s.               *)
LEMMA BattleStep ==
  ASSUME Inv, NEW d \in Devices, call[d].op \in Ops \ {"start", "boss", "leaveOld"},
         save' \in Docs, Onto(save, save'),
         turnReceipt' \in [id : Turns, results : SUBSET Enemies] \cup {None},
         skillReceipt' \in Turns \cup {None},
         UNCHANGED <<begun, watched>>, NEW R, Record(R),
         watched \in R =>
            watched[1] = "gambit"
            \/ (~Spent(watched, save, begun) /\ Spent(watched, save', begun)),
         Calls'
  PROVE  Inv'
<1>1. save \in Docs /\ save.battle # None /\ save.battle.id <= begun /\ begun \in Nat
      /\ watched \in Facts
  BY InBattle
<1>2. Spent(watched, save, begun) => Spent(watched, save', begun')
  BY <1>1, SpentKept
<1>3. count' \in 0 .. 2 /\ Once'
  BY <1>2, OnceKept
<1>4. save'.battle # None => save'.battle.id <= begun
  BY <1>1 DEF Onto, Forward
<1>5. Shape'
  BY <1>1, <1>3, <1>4 DEF Inv, Shape
<1>. QED
  BY <1>3, <1>5 DEF Inv

(* A step that records nothing.                                                *)
LEMMA QuietStep ==
  ASSUME Inv, NEW d \in Devices, call[d].op \in Ops \ {"start", "boss", "leaveOld"},
         save' \in Docs, Onto(save, save'),
         UNCHANGED <<turnReceipt, skillReceipt, begun, watched, count>>, Calls'
  PROVE  Inv'
<1>1. Record({})
  BY DEF Record
<1>. QED
  BY <1>1, BattleStep DEF Inv, Shape

LEMMA TakeStep ==
  ASSUME Inv, NEW d \in Devices, Take(d)
  PROVE  Inv'
<1>1. PICK op \in Ops \ {"leave", "leaveOld"}, at \in Turns :
        Accepts(op, at) /\ call' = [call EXCEPT ![d] = Request(op, FALSE)]
  BY DEF Take
<1>2. UNCHANGED <<save, turnReceipt, skillReceipt, begun, watched, count>>
  BY DEF Take, Plainly
<1>3. Finds(save, op)
  <2>1. CASE op \in {"start", "boss"}
    BY <1>1, <2>1 DEF Accepts, Finds, MeetsBoss, Ops
  <2>2. CASE op = "turn"
    BY <1>1, <2>2 DEF Accepts, Finds, AtTurn, Ops
  <2>3. CASE op = "next"
    BY <1>1, <2>3 DEF Accepts, Finds, AtTurn, Ops
  <2>4. CASE op = "skill"
    BY <1>1, <2>4 DEF Accepts, Finds, AtTurn, Ops
  <2>5. CASE op = "skillAnswer"
    BY <1>1, <2>5 DEF Accepts, Finds, Ops
  <2>6. CASE op = "end"
    BY <1>1, <2>6 DEF Accepts, Finds, AtTurn, Ops
  <2>7. CASE op = "endAnswer"
    BY <1>1, <2>7 DEF Accepts, Finds, Ops
  <2>. QED
    BY <2>1, <2>2, <2>3, <2>4, <2>5, <2>6, <2>7 DEF Ops
<1>4. Calls'
  <2>1. Request(op, FALSE) \in [op : Ops, quit : BOOLEAN] /\ Request(op, FALSE).op = op
    BY DEF Request
  <2>2. call \in [Devices -> {Idle, Stale} \cup [op : Ops, quit : BOOLEAN]]
        /\ \A x \in Devices : Finds(save, call[x].op)
    BY DEF Inv, Calls
  <2>3. call' \in [Devices -> {Idle, Stale} \cup [op : Ops, quit : BOOLEAN]]
    BY <1>1, <2>1, <2>2
  <2>4. \A x \in Devices : call'[x] = call[x] \/ call'[x] = Request(op, FALSE)
    BY <1>1, <2>2
  <2>5. \A x \in Devices : Finds(save, call'[x].op)
    BY <1>3, <2>1, <2>2, <2>4
  <2>. QED
    BY <1>2, <2>3, <2>5 DEF Calls
<1>. QED
  BY <1>2, <1>4 DEF Inv, Shape, Once

LEMMA TakeRetreatStep ==
  ASSUME Inv, NEW d \in Devices, TakeRetreat(d)
  PROVE  Inv'
<1>1. UNCHANGED <<save, turnReceipt, skillReceipt, begun, watched, count>>
      /\ call' = [call EXCEPT ![d] = Retreat(save)]
  BY DEF TakeRetreat, Plainly
<1>2. Retreat(save) \in {Idle} \cup [op : Ops, quit : BOOLEAN] /\ Finds(save, Retreat(save).op)
  BY RetreatFinds DEF Inv, Shape
<1>3. call \in [Devices -> {Idle, Stale} \cup [op : Ops, quit : BOOLEAN]]
      /\ \A x \in Devices : Finds(save, call[x].op)
  BY DEF Inv, Calls
<1>4. call' \in [Devices -> {Idle, Stale} \cup [op : Ops, quit : BOOLEAN]]
  BY <1>1, <1>2, <1>3
<1>5. \A x \in Devices : call'[x] = call[x] \/ call'[x] = Retreat(save)
  BY <1>1, <1>3
<1>6. \A x \in Devices : Finds(save, call'[x].op)
  BY <1>2, <1>3, <1>5
<1>. QED
  BY <1>1, <1>4, <1>6 DEF Inv, Shape, Once, Calls

LEMMA ConflictStep ==
  ASSUME Inv, NEW d \in Devices, Conflict(d)
  PROVE  Inv'
<1>1. UNCHANGED <<save, turnReceipt, skillReceipt, begun, watched, count>>
      /\ call' = [call EXCEPT ![d] = Idle]
  BY DEF Conflict, Plainly
<1>2. Finds(save, Idle.op)
  BY DEF Finds, Idle, Ops
<1>3. call \in [Devices -> {Idle, Stale} \cup [op : Ops, quit : BOOLEAN]]
      /\ \A x \in Devices : Finds(save, call[x].op)
  BY DEF Inv, Calls
<1>4. call' \in [Devices -> {Idle, Stale} \cup [op : Ops, quit : BOOLEAN]]
  BY <1>1, <1>3
<1>5. \A x \in Devices : call'[x] = call[x] \/ call'[x] = Idle
  BY <1>1, <1>3
<1>6. \A x \in Devices : Finds(save, call'[x].op)
  BY <1>2, <1>3, <1>5
<1>. QED
  BY <1>1, <1>4, <1>6 DEF Inv, Shape, Once, Calls

----------------------------------------------------------------------------
(* The steps of the ledger.                                                  *)

LedgerStep == [Ledger!Next]_(Ledger!ledgerVars)

Hand(s) == IF s.battle = None THEN None ELSE <<s.battle.id, s.battle.turn>>

LEMMA HandHeld ==
  ASSUME NEW s \in Docs
  PROVE  /\ Hand(s) = None <=> s.battle = None
         /\ s.battle # None => Hand(s)[1] = s.battle.id /\ Hand(s)[2] = s.battle.turn
<1>1. CASE s.battle = None
  BY <1>1 DEF Hand
<1>2. CASE s.battle # None
  <2>1. s.battle.id \in 1 .. MaxBattles /\ s.battle.turn \in 0 .. MaxTurns
    BY <1>2, SaveFields, MarkerFields DEF Docs
  <2>2. <<s.battle.id, s.battle.turn>> \in Turns
    BY <2>1 DEF Turns
  <2>. QED
    BY <1>2, <2>2, NullAssumption DEF Hand
<1>. QED
  BY <1>1, <1>2

LEMMA LedgerPasses ==
  ASSUME save \in Docs, save.battle # None,
         \/ save'.battle = None
         \/ save'.battle.id = save.battle.id /\ save'.battle.turn = save.battle.turn + 1,
         UNCHANGED <<turnReceipt, begun>>
  PROVE  LedgerStep
<1>1. Hand(save) # None /\ Hand(save') \in {<<Hand(save)[1], Hand(save)[2] + 1>>, None}
  BY HandHeld DEF Hand
<1>2. Ledger!Pass
  BY <1>1 DEF Ledger!Pass, Ledger!Following, Hand
<1>. QED
  BY <1>2 DEF LedgerStep, Ledger!Next

LEMMA LedgerSettles ==
  ASSUME save \in Docs, save.battle # None,
         \/ save'.battle = None
         \/ save'.battle.id = save.battle.id /\ save'.battle.turn = save.battle.turn + 1,
         NEW A \in SUBSET Enemies,
         turnReceipt' = [id |-> <<save.battle.id, save.battle.turn>>, results |-> A],
         UNCHANGED begun
  PROVE  LedgerStep
<1>1. /\ Hand(save) # None /\ Hand(save') \in {<<Hand(save)[1], Hand(save)[2] + 1>>, None}
      /\ Hand(save) = <<save.battle.id, save.battle.turn>>
  BY HandHeld DEF Hand
<1>2. Ledger!Settle
  BY <1>1 DEF Ledger!Settle, Ledger!Following, Hand
<1>. QED
  BY <1>2 DEF LedgerStep, Ledger!Next

LEMMA LedgerStays ==
  ASSUME \/ save.battle = None /\ save'.battle = None
         \/ /\ save.battle # None /\ save'.battle # None
            /\ save'.battle.id = save.battle.id /\ save'.battle.turn = save.battle.turn,
         UNCHANGED <<turnReceipt, begun>>
  PROVE  LedgerStep
BY DEF LedgerStep, Ledger!ledgerVars

LEMMA BeginStep ==
  ASSUME Inv, NEW d \in Devices, begun < MaxBattles, NEW s \in Docs, s.battle = None,
         s.phase = "battle", NEW boss \in BOOLEAN, Begin(s, boss), save.battle = None,
         begun' = begun + 1, Saved(d, Idle),
         UNCHANGED <<turnReceipt, skillReceipt, watched, count>>
  PROVE  Inv' /\ LedgerStep
<1>1. PICK E \in Encounters, scheduled \in BOOLEAN :
       LET m == [id |-> begun + 1, turn |-> 0, boss |-> boss, scheduled |-> scheduled,
                 enemies |-> E, hp |-> [e \in Enemies |-> EnemyHp], actor |-> None,
                 quiz |-> None, gambit |-> "none", sealed |-> 0, endDone |-> FALSE,
                 endAction |-> None, skill |-> None, skillUsed |-> FALSE]
       IN IF scheduled
          THEN \E n \in Sealings(m) : save' = [s EXCEPT !.battle = n, !.feedback = FALSE]
          ELSE save' = [s EXCEPT !.battle = m]
  BY Zenon DEF Begin
<1>. DEFINE m == [id |-> begun + 1, turn |-> 0, boss |-> boss, scheduled |-> scheduled,
                  enemies |-> E, hp |-> [e \in Enemies |-> EnemyHp], actor |-> None,
                  quiz |-> None, gambit |-> "none", sealed |-> 0, endDone |-> FALSE,
                  endAction |-> None, skill |-> None, skillUsed |-> FALSE]
<1>2. begun + 1 \in 1 .. MaxBattles /\ begun \in Nat
  BY DEF Inv, Shape
<1>3. /\ m \in Marker /\ m.enemies # {} /\ m.id = begun + 1 /\ m.turn = 0
      /\ m.scheduled = scheduled /\ m.skill = None /\ m.endAction = None
      /\ \A e \in Enemies : m.hp[e] = EnemyHp
  <2>1. [e \in Enemies |-> EnemyHp] \in [Enemies -> 0 .. EnemyHp]
    OBVIOUS
  <2>2. E \in SUBSET Enemies /\ E # {}
    BY DEF Encounters
  <2>. QED
    BY <1>2, <2>1, <2>2 DEF Marker
<1>. HIDE DEF m
<1>4. s \in Saves /\ s.alive /\ s.feedback \in BOOLEAN
  BY SaveFields DEF Docs, Good
<1>5. PICK n \in Marker, shown \in BOOLEAN :
        /\ save' = [s EXCEPT !.battle = n, !.feedback = shown]
        /\ n.id = begun + 1 /\ n.turn = 0 /\ Sound(n, shown)
  <2>1. CASE scheduled
    <3>1. PICK n \in Sealings(m) : save' = [s EXCEPT !.battle = n, !.feedback = FALSE]
      BY <1>1, <2>1 DEF m
    <3>2. /\ n \in Marker /\ n.id = m.id /\ n.turn = m.turn /\ n.enemies = m.enemies
          /\ n.scheduled = m.scheduled /\ n.hp = m.hp /\ n.skill = m.skill
          /\ n.endAction = m.endAction /\ n.actor # None /\ n.quiz \in Enemies
      BY <1>3, SealedMarker
    <3>3. \A e \in n.enemies : e \in Enemies /\ n.hp[e] > 0
      BY <1>3, <3>2, MarkerFields
    <3>4. Sound(n, FALSE)
      BY <1>3, <3>2, <3>3 DEF Sound
    <3>. QED
      BY <1>3, <3>1, <3>2, <3>4
  <2>2. CASE ~scheduled
    <3>1. save' = [s EXCEPT !.battle = m]
      BY <1>1, <2>2 DEF m
    <3>2. save' = [s EXCEPT !.battle = m, !.feedback = s.feedback]
      BY <1>4, <3>1 DEF Saves
    <3>3. Sound(m, s.feedback)
      BY <1>3, <2>2 DEF Sound
    <3>. QED
      BY <1>3, <1>4, <3>2, <3>3
  <2>. QED
    BY <2>1, <2>2
<1>6. /\ save' \in Saves /\ save'.battle = n /\ save'.feedback = shown
      /\ save'.phase = "battle" /\ save'.alive
  BY <1>4, <1>5 DEF Saves
<1>7. n # None
  BY MarkerFields
<1>8. save' \in Docs
  BY <1>5, <1>6 DEF Docs, Good
<1>9. Spent(watched, save, begun) => Spent(watched, save', begun')
  <2>1. watched[2][1] \in Nat
    BY FactFields DEF Inv, Shape
  <2>. QED
    BY <1>2, <1>5, <1>6, <2>1 DEF Spent
<1>10. count' \in 0 .. 2 /\ Once'
  BY <1>9, OnceStill
<1>11. Shape' /\ Calls'
  BY <1>2, <1>5, <1>6, <1>8, <1>10, CallsOver DEF Inv, Shape
<1>12. LedgerStep
  <2>1. Ledger!Begin
    BY <1>5, <1>6, <1>7 DEF Ledger!Begin
  <2>. QED
    BY <2>1 DEF LedgerStep, Ledger!Next
<1>. QED
  BY <1>10, <1>11, <1>12 DEF Inv

LEMMA SaveStartStep ==
  ASSUME Inv, NEW d \in Devices, SaveStart(d)
  PROVE  Inv' /\ LedgerStep
<1>1. save \in Docs /\ save.battle = None /\ save.phase = "battle"
  BY DEF Inv, Shape, Calls, Finds, SaveStart, Holds
<1>. QED
  BY <1>1, BeginStep DEF SaveStart

LEMMA SaveBossStep ==
  ASSUME Inv, NEW d \in Devices, SaveBoss(d)
  PROVE  Inv' /\ LedgerStep
<1>. DEFINE kills == IF save.phase = "cleared" THEN 0 ELSE save.kills
            s == [save EXCEPT !.phase = "battle", !.moves = @ + 1, !.kills = kills]
<1>1. /\ save \in Docs /\ save.battle = None /\ save.alive
      /\ save.moves < MovesPerEvent
  BY DEF Inv, Shape, Calls, Finds, SaveBoss, Holds
<1>2. save \in Saves /\ save.moves + 1 \in 0 .. MovesPerEvent /\ kills \in 0 .. EnemiesToClear
  BY <1>1, SaveFields DEF Docs
<1>3. Begin(s, TRUE)
  BY DEF SaveBoss
<1>. HIDE DEF kills
<1>4. s \in Docs /\ s.battle = None /\ s.phase = "battle"
  BY <1>1, <1>2 DEF Docs, Good, Saves
<1>. HIDE DEF s
<1>. QED
  BY <1>1, <1>3, <1>4, BeginStep DEF SaveBoss

----------------------------------------------------------------------------
(* What a turn records.                                                      *)

NewlySpent(f) == ~Spent(f, save, begun) /\ Spent(f, save', begun)

LEMMA AnswerSpent ==
  ASSUME save \in Docs, save.battle # None, save.battle.id <= begun, NEW fallen,
         NextTurn(save, save', fallen), NEW e
  PROVE  NewlySpent(<<"answer", <<save.battle.id, save.battle.turn>>, e>>)
<1>. DEFINE f == <<"answer", <<save.battle.id, save.battle.turn>>, e>>
<1>1. f[1] = "answer" /\ f[2][1] = save.battle.id /\ f[2][2] = save.battle.turn
  OBVIOUS
<1>2. save.battle.turn \in Nat
  BY SaveFields, MarkerFields DEF Docs
<1>. HIDE DEF f
<1>3. ~Spent(f, save, begun)
  BY <1>1, <1>2 DEF Spent, Over
<1>4. Spent(f, save', begun)
  BY <1>1, <1>2 DEF Spent, Over, NextTurn
<1>. QED
  BY <1>3, <1>4 DEF NewlySpent, f

LEMMA FallSpent ==
  ASSUME save \in Docs, save.battle # None, save.battle.id <= begun,
         NEW fallen \in SUBSET save.battle.enemies, NEW f \in Falls(save.battle, fallen),
         save'.battle # None => save'.battle.enemies = save.battle.enemies \ fallen
  PROVE  NewlySpent(f)
<1>1. PICK e \in fallen : f = <<"fall", <<save.battle.id, 0>>, e>>
  BY DEF Falls
<1>2. f[1] = "fall" /\ f[2][1] = save.battle.id /\ f[3] = e
  BY <1>1
<1>3. ~Spent(f, save, begun)
  BY <1>2 DEF Spent, Over
<1>4. Spent(f, save', begun)
  BY <1>2 DEF Spent, Over
<1>. QED
  BY <1>3, <1>4 DEF NewlySpent

LEMMA PaymentGambit ==
  ASSUME NEW m, NEW retreat, NEW f \in Payment(m, retreat)
  PROVE  f[1] = "gambit"
BY DEF Payment

LEMMA SavePlainTurnStep ==
  ASSUME Inv, NEW d \in Devices, SavePlainTurn(d)
  PROVE  Inv' /\ LedgerStep
<1>. DEFINE m == save.battle
<1>1. call[d].op \in Ops \ {"start", "boss", "leaveOld"} /\ ~m.scheduled
  BY DEF SavePlainTurn, Holds, Ops
<1>a. PICK retreat \in BOOLEAN, alive \in BOOLEAN, A \in Graded(m) :
        \E fallen \in SUBSET A :
        /\ m.turn < MaxTurns \/ retreat
        /\ call[d].quit => retreat /\ A = {}
        /\ save' = AfterTurn(save, fallen, alive, retreat)
        /\ turnReceipt' = [id |-> <<m.id, m.turn>>, results |-> A]
        /\ Record({<<"answer", <<m.id, m.turn>>, e>> : e \in A} \cup Falls(m, fallen))
  BY Zenon DEF SavePlainTurn
<1>2. PICK fallen \in SUBSET A :
        /\ m.turn < MaxTurns \/ retreat
        /\ save' = AfterTurn(save, fallen, alive, retreat)
        /\ turnReceipt' = [id |-> <<m.id, m.turn>>, results |-> A]
        /\ Record({<<"answer", <<m.id, m.turn>>, e>> : e \in A} \cup Falls(m, fallen))
  BY <1>a, Zenon
<1>3. Saved(d, Idle) /\ UNCHANGED <<skillReceipt, begun, watched>>
  BY DEF SavePlainTurn
<1>4. /\ save \in Docs /\ save.battle # None /\ m \in Marker /\ m.id <= begun
  BY <1>1, InBattle
<1>5. A \in SUBSET Enemies /\ fallen \in SUBSET m.enemies
  BY <1>1, <1>4, MarkerFields DEF Graded
<1>6. save' \in Docs /\ NextTurn(save, save', fallen)
  BY <1>1, <1>2, <1>4, <1>5, SettledSave
<1>7. Onto(save, save')
  BY <1>4, <1>6, NextTurnOnto
<1>8. <<m.id, m.turn>> \in Turns
  BY <1>4, MarkerFields DEF Turns
<1>9. turnReceipt' \in [id : Turns, results : SUBSET Enemies] \cup {None}
      /\ skillReceipt' \in Turns \cup {None}
  BY <1>2, <1>3, <1>5, <1>8 DEF Inv, Shape
<1>10. Calls'
  BY <1>3, CallsOver DEF Inv
<1>. DEFINE R == {<<"answer", <<m.id, m.turn>>, e>> : e \in A} \cup Falls(m, fallen)
<1>11. ASSUME watched \in R PROVE NewlySpent(watched)
  <2>1. CASE watched \in Falls(m, fallen)
    BY <1>4, <1>5, <1>6, <2>1, FallSpent DEF NextTurn
  <2>2. CASE watched \in {<<"answer", <<m.id, m.turn>>, e>> : e \in A}
    <3>1. PICK e \in A : watched = <<"answer", <<m.id, m.turn>>, e>>
      BY <2>2
    <3>. QED
      BY <1>4, <1>6, <3>1, AnswerSpent
  <2>. QED
    BY <1>11, <2>1, <2>2
<1>12. Record(R)
  BY <1>2
<1>. HIDE DEF R
<1>13. Inv'
  BY <1>1, <1>3, <1>6, <1>7, <1>9, <1>10, <1>11, <1>12, BattleStep DEF NewlySpent
<1>14. LedgerStep
  BY <1>2, <1>3, <1>4, <1>5, <1>6, LedgerSettles DEF NextTurn
<1>. QED
  BY <1>13, <1>14

LEMMA SaveScheduledTurnStep ==
  ASSUME Inv, NEW d \in Devices, SaveScheduledTurn(d)
  PROVE  Inv' /\ LedgerStep
<1>. DEFINE m == save.battle
<1>1. call[d].op \in Ops \ {"start", "boss", "leaveOld"} /\ m.scheduled /\ ~save.feedback
  BY DEF SaveScheduledTurn, Holds, Ops, Inv, Calls, Finds
<1>a. PICK retreat \in BOOLEAN, alive \in BOOLEAN, A \in Graded(m) :
        \E h \in HpAfter(m, retreat) :
        /\ m.turn < MaxTurns \/ retreat
        /\ call[d].quit => retreat /\ A = {}
        /\ save' = Resolved(save, h, alive, retreat)
        /\ turnReceipt' = [id |-> <<m.id, m.turn>>, results |-> A]
        /\ Record({<<"answer", <<m.id, m.turn>>, e>> : e \in A}
                  \cup Falls(m, {e \in m.enemies : h[e] = 0}) \cup Payment(m, retreat))
  BY Zenon DEF SaveScheduledTurn
<1>2. PICK h \in HpAfter(m, retreat) :
        /\ m.turn < MaxTurns \/ retreat
        /\ save' = Resolved(save, h, alive, retreat)
        /\ turnReceipt' = [id |-> <<m.id, m.turn>>, results |-> A]
        /\ Record({<<"answer", <<m.id, m.turn>>, e>> : e \in A}
                  \cup Falls(m, {e \in m.enemies : h[e] = 0}) \cup Payment(m, retreat))
  BY <1>a, Zenon
<1>3. Saved(d, Idle) /\ UNCHANGED <<skillReceipt, begun, watched>>
  BY DEF SaveScheduledTurn
<1>4. /\ save \in Docs /\ save.battle # None /\ m \in Marker /\ m.id <= begun
      /\ Sound(m, save.feedback)
  BY <1>1, InBattle
<1>5. A \in SUBSET Enemies
  BY <1>1, <1>4 DEF Graded, Sound
<1>. DEFINE fallen == {e \in m.enemies : h[e] = 0}
<1>6. save' \in Docs /\ NextTurn(save, save', fallen)
  BY <1>1, <1>2, <1>4, ResolvedSave
<1>7. Onto(save, save')
  <2>. HIDE DEF fallen
  <2>. QED
    BY <1>4, <1>6, NextTurnOnto
<1>8. <<m.id, m.turn>> \in Turns
  BY <1>4, MarkerFields DEF Turns
<1>9. turnReceipt' \in [id : Turns, results : SUBSET Enemies] \cup {None}
      /\ skillReceipt' \in Turns \cup {None}
  BY <1>2, <1>3, <1>5, <1>8 DEF Inv, Shape
<1>10. Calls'
  BY <1>3, CallsOver DEF Inv
<1>. DEFINE R == {<<"answer", <<m.id, m.turn>>, e>> : e \in A} \cup Falls(m, fallen)
                 \cup Payment(m, retreat)
<1>11. ASSUME watched \in R PROVE watched[1] = "gambit" \/ NewlySpent(watched)
  <2>1. CASE watched \in Falls(m, fallen)
    <3>1. fallen \in SUBSET m.enemies
      OBVIOUS
    <3>. HIDE DEF fallen
    <3>. QED
      BY <1>4, <1>6, <2>1, <3>1, FallSpent DEF NextTurn
  <2>2. CASE watched \in {<<"answer", <<m.id, m.turn>>, e>> : e \in A}
    <3>1. PICK e \in A : watched = <<"answer", <<m.id, m.turn>>, e>>
      BY <2>2
    <3>. HIDE DEF fallen
    <3>. QED
      BY <1>4, <1>6, <3>1, AnswerSpent
  <2>3. CASE watched \in Payment(m, retreat)
    BY <2>3, PaymentGambit
  <2>. QED
    BY <1>11, <2>1, <2>2, <2>3
<1>12. Record(R)
  BY <1>2
<1>. HIDE DEF R, fallen
<1>13. Inv'
  BY <1>1, <1>3, <1>6, <1>7, <1>9, <1>10, <1>11, <1>12, BattleStep DEF NewlySpent
<1>14. LedgerStep
  BY <1>2, <1>3, <1>4, <1>5, <1>6, LedgerSettles DEF NextTurn
<1>. QED
  BY <1>13, <1>14

LEMMA SaveSkillAnswerStep ==
  ASSUME Inv, NEW d \in Devices, SaveSkillAnswer(d)
  PROVE  Inv' /\ LedgerStep
<1>. DEFINE m == save.battle
            id == <<m.id, m.skill>>
<1>1. call[d].op \in Ops \ {"start", "boss", "leaveOld"} /\ m.skill # None
  BY DEF SaveSkillAnswer, Holds, Ops, Inv, Calls, Finds
<1>a. PICK retreat \in BOOLEAN, alive \in BOOLEAN, answered \in BOOLEAN :
        \E fallen \in SkillHits(m, answered) :
        /\ m.turn < MaxTurns \/ retreat
        /\ call[d].quit => retreat /\ ~answered
        /\ save' = SkillResult(save, fallen, alive, retreat)
        /\ Record((IF answered THEN {<<"skillAnswer", id, None>>} ELSE {})
                  \cup Falls(m, fallen) \cup Payment(m, retreat))
  BY Zenon DEF SaveSkillAnswer
<1>2. PICK fallen \in SkillHits(m, answered) :
        /\ m.turn < MaxTurns \/ retreat
        /\ save' = SkillResult(save, fallen, alive, retreat)
        /\ Record((IF answered THEN {<<"skillAnswer", id, None>>} ELSE {})
                  \cup Falls(m, fallen) \cup Payment(m, retreat))
  BY <1>a, Zenon
<1>3. Saved(d, Idle) /\ UNCHANGED <<turnReceipt, begun, watched>> /\ skillReceipt' = id
  BY DEF SaveSkillAnswer
<1>4. /\ save \in Docs /\ save.battle # None /\ m \in Marker /\ m.id <= begun
      /\ Sound(m, save.feedback)
  BY <1>1, InBattle
<1>5. fallen \in SUBSET m.enemies
  BY DEF SkillHits
<1>6. /\ save' \in Docs /\ NextTurn(save, save', fallen)
      /\ save'.battle # None => save'.battle.skill = None
  BY <1>1, <1>2, <1>4, <1>5, SkillResultSave
<1>7. Onto(save, save')
  BY <1>4, <1>6, NextTurnOnto
<1>8. id \in Turns /\ m.skill \in Nat /\ m.turn \in Nat /\ m.skill <= m.turn
  BY <1>1, <1>4, MarkerFields DEF Turns, Sound
<1>9. turnReceipt' \in [id : Turns, results : SUBSET Enemies] \cup {None}
      /\ skillReceipt' \in Turns \cup {None}
  BY <1>3, <1>8 DEF Inv, Shape
<1>10. Calls'
  BY <1>3, CallsOver DEF Inv
<1>. DEFINE R == (IF answered THEN {<<"skillAnswer", id, None>>} ELSE {})
                 \cup Falls(m, fallen) \cup Payment(m, retreat)
<1>11. ASSUME watched \in R PROVE watched[1] = "gambit" \/ NewlySpent(watched)
  <2>1. CASE watched \in Falls(m, fallen)
    BY <1>4, <1>5, <1>6, <2>1, FallSpent DEF NextTurn
  <2>2. CASE watched = <<"skillAnswer", id, None>>
    <3>1. watched[1] = "skillAnswer" /\ watched[2][1] = m.id /\ watched[2][2] = m.skill
      BY <2>2
    <3>2. ~Spent(watched, save, begun)
      BY <1>4, <3>1 DEF Spent, Over
    <3>3. Spent(watched, save', begun)
      BY <1>1, <1>4, <1>6, <1>8, <3>1 DEF Spent, Over, NextTurn
    <3>. QED
      BY <3>2, <3>3 DEF NewlySpent
  <2>3. CASE watched \in Payment(m, retreat)
    BY <2>3, PaymentGambit
  <2>. QED
    BY <1>11, <2>1, <2>2, <2>3
<1>12. Record(R)
  BY <1>2
<1>. HIDE DEF R, id
<1>13. Inv'
  BY <1>1, <1>3, <1>6, <1>7, <1>9, <1>10, <1>11, <1>12, BattleStep DEF NewlySpent
<1>14. LedgerStep
  BY <1>3, <1>4, <1>6, LedgerPasses DEF NextTurn
<1>. QED
  BY <1>13, <1>14

LEMMA SaveNextStep ==
  ASSUME Inv, NEW d \in Devices, SaveNext(d)
  PROVE  Inv' /\ LedgerStep
<1>. DEFINE m == save.battle
<1>1. /\ call[d].op \in Ops \ {"start", "boss", "leaveOld"} /\ save.feedback
      /\ ~Pending(m)
  BY DEF SaveNext, Holds, Ops, Inv, Calls, Finds
<1>2. Saved(d, Idle) /\ UNCHANGED <<turnReceipt, skillReceipt, begun, watched, count>>
  BY DEF SaveNext, Plainly
<1>3. /\ save \in Docs /\ save \in Saves /\ save.battle # None /\ m \in Marker
      /\ Sound(m, save.feedback) /\ m.skill = None /\ m.endAction = None
  BY <1>1, InBattle DEF Pending
<1>4. PICK n \in Marker :
        /\ save' = [save EXCEPT !.battle = n, !.feedback = FALSE]
        /\ n.id = m.id /\ n.turn = m.turn /\ n.enemies = m.enemies /\ n.skill = m.skill
        /\ n.endAction = m.endAction /\ Sound(n, FALSE)
  <2>1. CASE m.scheduled
    <3>1. PICK n \in Sealings(m) : save' = [save EXCEPT !.battle = n, !.feedback = FALSE]
      BY <2>1 DEF SaveNext
    <3>2. /\ n \in Marker /\ n.id = m.id /\ n.turn = m.turn /\ n.enemies = m.enemies
          /\ n.scheduled = m.scheduled /\ n.hp = m.hp /\ n.skill = m.skill
          /\ n.endAction = m.endAction /\ n.actor # None /\ n.quiz \in Enemies
      BY <1>3, SealedMarker DEF Sound
    <3>3. Sound(n, FALSE)
      BY <1>3, <2>1, <3>2 DEF Sound
    <3>. QED
      BY <3>1, <3>2, <3>3
  <2>2. CASE ~m.scheduled
    <3>1. save' = [save EXCEPT !.battle.skillUsed = FALSE, !.feedback = FALSE]
      BY <2>2 DEF SaveNext
    <3>. DEFINE n == [m EXCEPT !.skillUsed = FALSE]
    <3>2. save' = [save EXCEPT !.battle = n, !.feedback = FALSE]
      BY <1>3, <3>1 DEF Saves, Marker
    <3>3. /\ n \in Marker /\ n.id = m.id /\ n.turn = m.turn /\ n.enemies = m.enemies
          /\ n.skill = m.skill /\ n.endAction = m.endAction /\ n.scheduled = m.scheduled
      BY <1>3 DEF Marker
    <3>. HIDE DEF n
    <3>4. Sound(n, FALSE)
      BY <1>3, <2>2, <3>3 DEF Sound
    <3>. QED
      BY <3>2, <3>3, <3>4
  <2>. QED
    BY <2>1, <2>2
<1>5. /\ save' \in Saves /\ save'.battle = n /\ save'.feedback = FALSE
      /\ save'.phase = save.phase /\ save'.alive = save.alive
  BY <1>3, <1>4 DEF Saves
<1>6. n # None /\ m.turn \in Nat
  BY <1>3, MarkerFields
<1>7. save' \in Docs
  BY <1>3, <1>4, <1>5, <1>6 DEF Docs, Good
<1>8. Onto(save, save')
  BY <1>1, <1>3, <1>4, <1>5, <1>6 DEF Onto, Forward
<1>9. Inv'
  BY <1>1, <1>2, <1>7, <1>8, QuietStep, CallsOver DEF Inv
<1>10. LedgerStep
  BY <1>2, <1>3, <1>4, <1>5, <1>6, LedgerStays
<1>. QED
  BY <1>9, <1>10

LEMMA SaveSkillStep ==
  ASSUME Inv, NEW d \in Devices, SaveSkill(d)
  PROVE  Inv' /\ LedgerStep
<1>. DEFINE m == save.battle
            n == [m EXCEPT !.skill = m.turn, !.skillUsed = TRUE]
            f == <<"skill", <<m.id, m.turn>>, None>>
<1>1. /\ call[d].op \in Ops \ {"start", "boss", "leaveOld"} /\ save.feedback
      /\ m.skill = None
  BY DEF SaveSkill, Holds, Ops, Inv, Calls, Finds
<1>2. /\ Saved(d, Idle) /\ UNCHANGED <<turnReceipt, skillReceipt, begun, watched>>
      /\ Record({f})
      /\ save' = [save EXCEPT !.battle.skill = m.turn, !.battle.skillUsed = TRUE]
  BY DEF SaveSkill
<1>3. /\ save \in Docs /\ save \in Saves /\ save.battle # None /\ m \in Marker
      /\ Sound(m, save.feedback) /\ m.turn \in 0 .. MaxTurns /\ m.id <= begun
  BY <1>1, InBattle, MarkerFields
<1>4. save' = [save EXCEPT !.battle = n]
  BY <1>2, <1>3 DEF Saves, Marker
<1>5. /\ n \in Marker /\ n.id = m.id /\ n.turn = m.turn /\ n.enemies = m.enemies
      /\ n.skill = m.turn /\ n.endAction = m.endAction /\ n.scheduled = m.scheduled
      /\ n.endDone = m.endDone /\ n.hp = m.hp /\ n.actor = m.actor /\ n.quiz = m.quiz
  BY <1>3 DEF Marker
<1>6. f[1] = "skill" /\ f[2][1] = m.id /\ f[2][2] = m.turn
  OBVIOUS
<1>. HIDE DEF n, f
<1>7. /\ save' \in Saves /\ save'.battle = n /\ save'.feedback = save.feedback
      /\ save'.phase = save.phase /\ save'.alive = save.alive
  BY <1>3, <1>4, <1>5 DEF Saves
<1>8. Sound(n, save.feedback)
  BY <1>1, <1>3, <1>5 DEF Sound
<1>9. save' \in Docs
  BY <1>3, <1>5, <1>7, <1>8, MarkerFields DEF Docs, Good
<1>10. Onto(save, save')
  BY <1>1, <1>3, <1>5, <1>7 DEF Onto, Forward
<1>11. NewlySpent(f)
  <2>1. ~Spent(f, save, begun)
    BY <1>1, <1>3, <1>6, NullAssumption DEF Spent, Over
  <2>2. Spent(f, save', begun)
    BY <1>3, <1>5, <1>6, <1>7 DEF Spent, Over
  <2>. QED
    BY <2>1, <2>2 DEF NewlySpent
<1>12. Inv'
  BY <1>1, <1>2, <1>9, <1>10, <1>11, BattleStep, CallsOver DEF Inv, Shape, NewlySpent
<1>13. LedgerStep
  BY <1>2, <1>3, <1>5, <1>7, MarkerFields, LedgerStays
<1>. QED
  BY <1>12, <1>13

LEMMA SaveLeaveStep ==
  ASSUME Inv, NEW d \in Devices, SaveLeave(d)
  PROVE  Inv' /\ LedgerStep
<1>1. call[d].op \in Ops \ {"start", "boss", "leaveOld"}
  BY DEF SaveLeave, Holds, Ops
<1>2. /\ Saved(d, Idle) /\ UNCHANGED <<turnReceipt, skillReceipt, begun, watched, count>>
      /\ save' = [save EXCEPT !.battle = None, !.phase = Resting(save), !.spot = "checkpoint"]
  BY DEF SaveLeave, Plainly
<1>3. save \in Docs /\ save \in Saves /\ save.battle # None
  BY <1>1, InBattle
<1>4. save' \in Saves /\ save'.battle = None /\ save'.phase \in {"rest", "path"}
  BY <1>2, <1>3, RestingPhase DEF Saves
<1>5. save' \in Docs
  BY <1>4 DEF Docs, Good
<1>6. Onto(save, save')
  BY <1>4 DEF Onto
<1>7. Inv'
  BY <1>1, <1>2, <1>5, <1>6, QuietStep, CallsOver DEF Inv
<1>8. LedgerStep
  BY <1>2, <1>3, <1>4, LedgerPasses
<1>. QED
  BY <1>7, <1>8

(* Outside a battle nothing recorded of one can be disturbed.                    *)
LEMMA OutsideStep ==
  ASSUME Inv, save' \in Docs, save'.battle = None, save.battle = None, Calls',
         UNCHANGED <<turnReceipt, skillReceipt, begun, watched, count>>
  PROVE  Inv' /\ LedgerStep
<1>1. Spent(watched, save, begun) => Spent(watched, save', begun')
  BY DEF Spent
<1>2. count' \in 0 .. 2 /\ Once'
  BY <1>1, OnceStill
<1>3. LedgerStep
  BY LedgerStays
<1>. QED
  BY <1>2, <1>3 DEF Inv, Shape

LEMMA SaveLeaveOldStep ==
  ASSUME Inv, NEW d \in Devices, SaveLeaveOld(d)
  PROVE  Inv' /\ LedgerStep
<1>1. PICK alive \in BOOLEAN :
        save' = [save EXCEPT !.alive = alive, !.feedback = TRUE,
                             !.phase = IF alive THEN Resting(save) ELSE "defeated",
                             !.spot = IF alive THEN "checkpoint" ELSE "entrance"]
  BY DEF SaveLeaveOld
<1>2. Saved(d, Idle) /\ UNCHANGED <<turnReceipt, skillReceipt, begun, watched, count>>
  BY DEF SaveLeaveOld, Plainly
<1>3. save \in Docs /\ save \in Saves /\ save.battle = None
  BY DEF SaveLeaveOld, Holds, Inv, Shape, Calls, Finds, Docs
<1>4. /\ save' \in Saves /\ save'.battle = None
      /\ save'.phase \in {"rest", "path", "defeated"}
      /\ save'.phase = "defeated" => save'.spot = "entrance"
  BY <1>1, <1>3, RestingPhase DEF Saves
<1>5. save' \in Docs
  BY <1>4 DEF Docs, Good
<1>. QED
  BY <1>2, <1>3, <1>4, <1>5, OutsideStep, CallsOver DEF Inv

LEMMA ExploreStep ==
  ASSUME Inv, Explore
  PROVE  Inv' /\ LedgerStep
<1>1. PICK phase \in {"path", "battle", "rest"}, moves \in 0 .. MovesPerEvent,
           kills \in {0, save.kills}, feedback \in BOOLEAN :
        save' = [save EXCEPT !.phase = phase, !.moves = moves, !.kills = kills,
                             !.feedback = feedback, !.alive = TRUE, !.spot = "ahead"]
  BY DEF Explore
<1>2. /\ call' = [d \in Devices |-> IF call[d] = Idle THEN Idle ELSE Stale]
      /\ UNCHANGED <<turnReceipt, skillReceipt, begun, watched, count>>
      /\ save.battle = None /\ save \in Docs /\ save \in Saves
  BY DEF Explore, Plainly, Inv, Shape, Docs
<1>3. save' \in Saves /\ save'.battle = None /\ save'.phase # "defeated" /\ save'.alive
  <2>1. kills \in 0 .. EnemiesToClear /\ phase \in {"path", "battle", "rest", "defeated", "cleared"}
    BY <1>2, SaveFields
  <2>. QED
    BY <1>1, <1>2, <2>1 DEF Saves
<1>4. save' \in Docs
  BY <1>3 DEF Docs, Good
<1>5. Calls'
  <2>1. Finds(save', Idle.op) /\ Finds(save', Stale.op)
    BY DEF Finds, Idle, Stale, Ops
  <2>. QED
    BY <1>2, <2>1 DEF Calls
<1>. QED
  BY <1>2, <1>3, <1>4, <1>5, OutsideStep

(* The end action of the battle of s, which is the one saved but for what calling it
   changes: who falls is newly spent, and whoever stands keeps HP.                  *)
SameBattle(s) ==
  /\ s \in Docs /\ s.battle # None /\ s.feedback /\ s.battle.id = save.battle.id
  /\ s.battle.turn = save.battle.turn /\ s.battle.enemies = save.battle.enemies
  /\ s.battle.skill = save.battle.skill
  /\ save.battle.endDone => s.battle.endDone

LEMMA FinishedStep ==
  ASSUME Inv, NEW d \in Devices, call[d].op \in Ops \ {"start", "boss", "leaveOld"},
         save.feedback, NEW s, SameBattle(s), NEW called \in 0 .. MaxTurns,
         NEW hp, \A e \in s.battle.enemies : hp[e] \in 0 .. EnemyHp,
         s.battle.scheduled => \A e \in s.battle.enemies : hp[e] = s.battle.hp[e],
         NEW facts, Finished(s, called, hp, facts)
  PROVE  /\ save' \in Docs /\ Onto(save, save')
         /\ save'.battle # None =>
              /\ save'.battle.turn = save.battle.turn /\ save'.battle.id = save.battle.id
              /\ save'.battle.endDone = s.battle.endDone /\ save'.battle.endAction = None
              /\ save'.feedback
         /\ \E R : Record(facts \cup R) /\ \A f \in R : NewlySpent(f)
<1>. DEFINE m == s.battle
            left(b, e) == IF e \notin m.enemies \/ ~m.scheduled THEN m.hp[e]
                          ELSE IF b[e] >= m.hp[e] THEN 0 ELSE m.hp[e] - b[e]
            Down(b) == {e \in m.enemies : b[e] = hp[e]}
            Left(b) == [e \in Enemies |-> left(b, e)]
<1>1. PICK blow \in Blows(m, hp), alive \in BOOLEAN :
        /\ save' = Finish(s, called, Down(blow), alive, Left(blow))
        /\ Record(facts \cup Falls(m, Down(blow)))
  BY Zenon DEF Finished
<1>2. /\ s \in Docs /\ m # None /\ s.feedback /\ m \in Marker
      /\ save \in Docs /\ save.battle # None /\ save.battle.id <= begun
  BY SaveFields, InBattle DEF SameBattle, Docs
<1>3. /\ m.enemies \in SUBSET Enemies /\ m.hp \in [Enemies -> 0 .. EnemyHp] /\ m.turn \in Nat
  BY <1>2, MarkerFields
<1>4. /\ \A e \in m.enemies : blow[e] \in 0 .. EnemyHp /\ blow[e] <= hp[e]
  BY DEF Blows
<1>5. \A e \in Enemies : left(blow, e) \in 0 .. EnemyHp
  BY <1>3, <1>4
<1>6. m.scheduled => \A e \in m.enemies \ Down(blow) : left(blow, e) > 0
  BY <1>3, <1>4
<1>. DEFINE fallen == Down(blow)
            h == Left(blow)
<1>7. h \in [Enemies -> 0 .. EnemyHp] /\ fallen \in SUBSET m.enemies
  BY <1>5
<1>8. m.scheduled => \A e \in m.enemies \ fallen : h[e] > 0
  BY <1>3, <1>6
<1>9. /\ save' = Finish(s, called, fallen, alive, h)
      /\ Record(facts \cup Falls(m, fallen))
  BY <1>1
<1>. HIDE DEF fallen, h
<1>10. FinishResult(s, save', fallen)
  BY <1>2, <1>7, <1>8, <1>9, FinishSave
<1>11. /\ save' \in Docs
       /\ save'.battle # None =>
            /\ save'.battle.turn = save.battle.turn /\ save'.battle.id = save.battle.id
            /\ save'.battle.enemies = save.battle.enemies \ fallen
            /\ save'.battle.endDone = m.endDone /\ save'.battle.endAction = None
            /\ save'.battle.skill = save.battle.skill /\ save'.feedback
  BY <1>10 DEF FinishResult, SameBattle
<1>12. Onto(save, save')
  BY <1>2, <1>3, <1>11 DEF Onto, Forward, SameBattle
<1>13. Falls(m, fallen) = Falls(save.battle, fallen) /\ fallen \in SUBSET save.battle.enemies
  BY <1>7 DEF Falls, SameBattle
<1>14. \A f \in Falls(m, fallen) : NewlySpent(f)
  BY <1>2, <1>11, <1>13, FallSpent
<1>. QED
  BY <1>9, <1>11, <1>12, <1>14

LEMMA FinishedLedger ==
  ASSUME save \in Docs, save.battle # None, UNCHANGED <<turnReceipt, begun>>,
         save'.battle # None =>
            save'.battle.turn = save.battle.turn /\ save'.battle.id = save.battle.id
  PROVE  LedgerStep
<1>1. CASE save'.battle = None
  BY <1>1, LedgerPasses
<1>2. CASE save'.battle # None
  BY <1>2, LedgerStays
<1>. QED
  BY <1>1, <1>2

LEMMA SaveEndStep ==
  ASSUME Inv, NEW d \in Devices, SaveEnd(d)
  PROVE  Inv' /\ LedgerStep
<1>. DEFINE m == save.battle
            f == <<"end", <<m.id, m.turn>>, None>>
            k == [m EXCEPT !.endDone = TRUE]
            s == [save EXCEPT !.endReceipt = None, !.battle.endDone = TRUE]
            hp == EndHp(m)
<1>1. /\ call[d].op \in Ops \ {"start", "boss", "leaveOld"} /\ save.feedback
      /\ m.endAction = None /\ ~m.endDone
  BY DEF SaveEnd, Holds, Ops, Inv, Calls, Finds
<1>2. Saved(d, Idle) /\ UNCHANGED <<turnReceipt, skillReceipt, begun, watched>>
  BY DEF SaveEnd
<1>3. /\ save \in Docs /\ save \in Saves /\ save.battle # None /\ m \in Marker
      /\ Sound(m, save.feedback) /\ m.turn \in 0 .. MaxTurns /\ m.id <= begun
  BY <1>1, InBattle, MarkerFields
<1>4. /\ k \in Marker /\ k.id = m.id /\ k.turn = m.turn /\ k.enemies = m.enemies
      /\ k.skill = m.skill /\ k.endAction = None /\ k.scheduled = m.scheduled
      /\ k.endDone = TRUE /\ k.hp = m.hp /\ k.actor = m.actor /\ k.quiz = m.quiz
  BY <1>1, <1>3 DEF Marker
<1>5. s = [save EXCEPT !.endReceipt = None, !.battle = k]
  BY <1>3 DEF Saves, Marker
<1>6. f[1] = "end" /\ f[2][1] = m.id /\ f[2][2] = m.turn
  OBVIOUS
<1>7. /\ hp \in [Enemies -> 0 .. EnemyHp]
      /\ m.scheduled => \A e \in m.enemies : hp[e] = m.hp[e]
  <2>1. m.hp \in [Enemies -> 0 .. EnemyHp] /\ m.enemies \in SUBSET Enemies
        /\ (m.scheduled => \A e \in m.enemies : m.hp[e] > 0)
    BY <1>3, MarkerFields DEF Sound
  <2>2. \A e \in Enemies : hp[e] \in 0 .. EnemyHp
    BY <2>1 DEF EndHp
  <2>3. hp \in [Enemies -> 0 .. EnemyHp]
    BY <2>2 DEF EndHp
  <2>4. m.scheduled => \A e \in m.enemies : hp[e] = m.hp[e]
    BY <2>1 DEF EndHp
  <2>. QED
    BY <2>3, <2>4
<1>8. \/ save' = s /\ count' = count
      \/ /\ save' = [s EXCEPT !.battle.endAction = [turn |-> m.turn, hp |-> hp]]
         /\ Record({f})
      \/ Finished(s, m.turn, hp, {f})
  BY DEF SaveEnd
<1>. HIDE DEF k, f, s, hp
<1>9. /\ s \in Saves /\ s.battle = k /\ s.feedback = save.feedback
      /\ s.phase = save.phase /\ s.alive = save.alive
  BY <1>3, <1>4, <1>5 DEF Saves
<1>10. Sound(k, save.feedback)
  BY <1>1, <1>3, <1>4 DEF Sound
<1>11. s \in Docs /\ k # None
  BY <1>3, <1>4, <1>9, <1>10, MarkerFields DEF Docs, Good
<1>12. Calls'
  BY <1>2, CallsOver DEF Inv
<1>13. ~Spent(f, save, begun)
  BY <1>1, <1>3, <1>6 DEF Spent, Over
<1>14. ASSUME save' = s, count' = count PROVE Inv' /\ LedgerStep
  <2>1. Onto(save, save')
    BY <1>1, <1>3, <1>4, <1>9, <1>14 DEF Onto, Forward
  <2>2. Inv'
    BY <1>1, <1>2, <1>11, <1>12, <1>14, <2>1, QuietStep
  <2>. QED
    BY <1>2, <1>3, <1>4, <1>9, <1>11, <1>14, <2>2, LedgerStays
<1>15. ASSUME save' = [s EXCEPT !.battle.endAction = [turn |-> m.turn, hp |-> hp]],
              Record({f})
       PROVE  Inv' /\ LedgerStep
  <2>. DEFINE a == [turn |-> m.turn, hp |-> hp]
              n == [k EXCEPT !.endAction = a]
  <2>1. save' = [s EXCEPT !.battle = n]
    BY <1>4, <1>9, <1>15 DEF Saves, Marker
  <2>2. a \in [turn : 0 .. MaxTurns, hp : [Enemies -> 0 .. EnemyHp]] /\ a.turn = m.turn
        /\ a.hp = hp
    BY <1>3, <1>7
  <2>. HIDE DEF a
  <2>3. /\ n \in Marker /\ n.id = m.id /\ n.turn = m.turn /\ n.enemies = m.enemies
        /\ n.skill = m.skill /\ n.endAction = a /\ n.scheduled = m.scheduled
        /\ n.endDone = TRUE /\ n.hp = m.hp /\ n.actor = m.actor /\ n.quiz = m.quiz
    BY <1>4, <2>2 DEF Marker
  <2>. HIDE DEF n
  <2>4. /\ save' \in Saves /\ save'.battle = n /\ save'.feedback = save.feedback
        /\ save'.phase = save.phase /\ save'.alive = save.alive
    BY <1>9, <2>1, <2>3 DEF Saves
  <2>5. Sound(n, save.feedback)
    BY <1>1, <1>3, <1>7, <2>2, <2>3 DEF Sound
  <2>6. save' \in Docs /\ n # None
    BY <1>3, <2>3, <2>4, <2>5, MarkerFields DEF Docs, Good
  <2>7. Onto(save, save')
    BY <1>1, <1>3, <2>2, <2>3, <2>4 DEF Onto, Forward
  <2>8. Spent(f, save', begun)
    BY <1>3, <1>6, <2>3, <2>4 DEF Spent, Over
  <2>9. Inv'
    BY <1>1, <1>2, <1>12, <1>13, <1>15, <2>6, <2>7, <2>8, BattleStep DEF Inv, Shape
  <2>. QED
    BY <1>2, <1>3, <2>3, <2>4, <2>6, <2>9, LedgerStays
<1>16. ASSUME Finished(s, m.turn, hp, {f}) PROVE Inv' /\ LedgerStep
  <2>1. SameBattle(s)
    BY <1>1, <1>4, <1>9, <1>11 DEF SameBattle
  <2>2. \A e \in s.battle.enemies : hp[e] \in 0 .. EnemyHp
    BY <1>3, <1>4, <1>7, <1>9, MarkerFields
  <2>3. s.battle.scheduled => \A e \in s.battle.enemies : hp[e] = s.battle.hp[e]
    BY <1>4, <1>7, <1>9
  <2>4. /\ save' \in Docs /\ Onto(save, save')
        /\ save'.battle # None =>
             /\ save'.battle.turn = m.turn /\ save'.battle.id = m.id
             /\ save'.battle.endDone = s.battle.endDone /\ save'.battle.endAction = None
             /\ save'.feedback
        /\ \E R : Record({f} \cup R) /\ \A g \in R : NewlySpent(g)
    BY <1>1, <1>3, <1>16, <2>1, <2>2, <2>3, FinishedStep
  <2>5. PICK R : Record({f} \cup R) /\ \A g \in R : NewlySpent(g)
    BY <2>4
  <2>6. Spent(f, save', begun)
    BY <1>3, <1>4, <1>6, <1>9, <2>4 DEF Spent, Over
  <2>7. \A g \in {f} \cup R : NewlySpent(g)
    BY <1>13, <2>5, <2>6 DEF NewlySpent
  <2>8. Inv'
    BY <1>1, <1>2, <1>12, <2>4, <2>5, <2>7, BattleStep DEF Inv, Shape, NewlySpent
  <2>. QED
    BY <1>2, <1>3, <2>4, <2>8, FinishedLedger
<1>. QED
  BY <1>8, <1>14, <1>15, <1>16

LEMMA SaveEndAnswerStep ==
  ASSUME Inv, NEW d \in Devices, SaveEndAnswer(d)
  PROVE  Inv' /\ LedgerStep
<1>. DEFINE m == save.battle
            called == m.endAction.turn
            f == <<"endAnswer", <<m.id, called>>, None>>
            then == IF call[d].quit THEN Retreat(save') ELSE Idle
<1>1. /\ call[d].op \in Ops \ {"start", "boss", "leaveOld"} /\ m.endAction # None
  BY DEF SaveEndAnswer, Holds, Ops, Inv, Calls, Finds
<1>2. Saved(d, then) /\ UNCHANGED <<turnReceipt, skillReceipt, begun, watched>>
  BY DEF SaveEndAnswer
<1>3. /\ save \in Docs /\ save.battle # None /\ m \in Marker
      /\ Sound(m, save.feedback) /\ m.turn \in 0 .. MaxTurns /\ m.id <= begun
  BY <1>1, InBattle, MarkerFields
<1>4. /\ m.endAction \in [turn : 0 .. MaxTurns, hp : [Enemies -> 0 .. EnemyHp]]
      /\ called <= m.turn /\ save.feedback /\ (called = m.turn => m.endDone)
      /\ m.scheduled => \A e \in m.enemies : m.endAction.hp[e] = m.hp[e]
  BY <1>1, <1>3, MarkerFields DEF Sound
<1>5. PICK answered \in BOOLEAN :
        Finished(save, called, m.endAction.hp, IF answered THEN {f} ELSE {})
  BY DEF SaveEndAnswer
<1>6. f[1] = "endAnswer" /\ f[2][1] = m.id /\ f[2][2] = called
  OBVIOUS
<1>7. called \in 0 .. MaxTurns /\ \A e \in m.enemies : m.endAction.hp[e] \in 0 .. EnemyHp
  BY <1>3, <1>4, MarkerFields
<1>. DEFINE facts == IF answered THEN {f} ELSE {}
<1>8. \A g \in facts : g = f
  OBVIOUS
<1>. HIDE DEF f, called, then, facts
<1>9. SameBattle(save)
  BY <1>3, <1>4 DEF SameBattle
<1>10. /\ save' \in Docs /\ Onto(save, save')
       /\ save'.battle # None =>
            /\ save'.battle.turn = m.turn /\ save'.battle.id = m.id
            /\ save'.battle.endDone = m.endDone /\ save'.battle.endAction = None
            /\ save'.feedback
       /\ \E R : Record(facts \cup R) /\ \A g \in R : NewlySpent(g)
  <2>1. Finished(save, called, m.endAction.hp, facts)
    BY <1>5 DEF facts
  <2>. QED
    BY <1>1, <1>4, <1>7, <1>9, <2>1, FinishedStep
<1>11. PICK R : Record(facts \cup R) /\ \A g \in R : NewlySpent(g)
  BY <1>10
<1>12. NewlySpent(f)
  <2>1. ~Spent(f, save, begun)
    BY <1>1, <1>3, <1>6 DEF Spent, Over, called
  <2>2. Spent(f, save', begun)
    BY <1>3, <1>4, <1>6, <1>7, <1>10 DEF Spent, Over
  <2>. QED
    BY <2>1, <2>2 DEF NewlySpent
<1>13. \A g \in facts \cup R : NewlySpent(g)
  BY <1>8, <1>11, <1>12
<1>14. Calls'
  <2>1. /\ Retreat(save') \in {Idle} \cup [op : Ops, quit : BOOLEAN]
        /\ Finds(save', Retreat(save').op)
    BY <1>10, RetreatFinds
  <2>2. CASE call[d].quit
    <3>1. then = Retreat(save')
      BY <2>2 DEF then
    <3>. QED
      BY <1>2, <2>1, <3>1, CallsSaved DEF Inv
  <2>3. CASE ~call[d].quit
    BY <1>2, <2>3, CallsOver DEF Inv, then
  <2>. QED
    BY <2>2, <2>3
<1>15. Inv'
  BY <1>1, <1>2, <1>10, <1>11, <1>13, <1>14, BattleStep DEF Inv, Shape, NewlySpent
<1>. QED
  BY <1>2, <1>3, <1>10, <1>15, FinishedLedger

----------------------------------------------------------------------------
(* The theorems.                                                             *)

LEMMA Initially == Init => Inv
<1>. SUFFICES ASSUME Init PROVE Inv
  OBVIOUS
<1>1. /\ save \in Saves /\ save.battle = None /\ save.phase = "path" /\ begun = 0 /\ count = 0
      /\ turnReceipt = None /\ skillReceipt = None
  BY DEF Init, Saves
<1>2. save \in Docs
  BY <1>1 DEF Docs, Good
<1>3. Finds(save, Idle.op)
  BY DEF Finds, Idle, Ops
<1>4. Calls
  BY <1>3 DEF Init, Calls
<1>5. watched \in Facts
  BY DEF Init
<1>. QED
  BY <1>1, <1>2, <1>4, <1>5 DEF Inv, Shape, Once

LEMMA Stepwise == Inv /\ [Next]_vars => Inv' /\ LedgerStep
<1>. SUFFICES ASSUME Inv, [Next]_vars PROVE Inv' /\ LedgerStep
  OBVIOUS
<1>1. ASSUME UNCHANGED vars PROVE Inv' /\ LedgerStep
  BY <1>1 DEF vars, Inv, Shape, Calls, Once, Spent, LedgerStep, Ledger!ledgerVars
<1>2. ASSUME UNCHANGED save, UNCHANGED <<turnReceipt, begun>> PROVE LedgerStep
  BY <1>2 DEF LedgerStep, Ledger!ledgerVars
<1>3. CASE Explore
  BY <1>3, ExploreStep
<1>4. ASSUME NEW d \in Devices, Take(d) \/ TakeRetreat(d) \/ Conflict(d)
      PROVE  Inv' /\ LedgerStep
  <2>1. UNCHANGED save /\ UNCHANGED <<turnReceipt, begun>>
    BY <1>4 DEF Take, TakeRetreat, Conflict, Plainly
  <2>2. Inv'
    BY <1>4, TakeStep, TakeRetreatStep, ConflictStep
  <2>. QED
    BY <1>2, <2>1, <2>2
<1>5. ASSUME NEW d \in Devices, Work(d) /\ ~Conflict(d) PROVE Inv' /\ LedgerStep
  BY <1>5, SaveStartStep, SaveBossStep, SavePlainTurnStep, SaveScheduledTurnStep,
     SaveNextStep, SaveSkillStep, SaveSkillAnswerStep, SaveEndStep, SaveEndAnswerStep,
     SaveLeaveStep, SaveLeaveOldStep DEF Work
<1>. QED
  BY <1>1, <1>3, <1>4, <1>5 DEF Next, Work

(* The invariant holds of every behaviour.                                       *)
THEOREM InvHolds == Spec => []Inv
BY Initially, Stepwise, PTL DEF Spec

(* combat.py: every accepted request leaves a battle the next request can go on with:
   enemies that stand with HP, a sealed action or a result but not both, and no
   question left open when the next turn begins.                                    *)
THEOREM BattleGoesOn == Spec => []CanGoOn
<1>1. Inv => CanGoOn
  <2>. SUFFICES ASSUME Inv PROVE CanGoOn
    OBVIOUS
  <2>1. save \in Docs /\ save \in Saves
    BY DEF Inv, Shape, Docs
  <2>2. TypeOK
    BY <2>1 DEF Inv, Shape, Calls, TypeOK, Saves
  <2>3. LiveBattle /\ SealedOrResult /\ PendingOnResult
    BY <2>1 DEF LiveBattle, SealedOrResult, PendingOnResult, Docs, Good, Sound
  <2>. QED
    BY <2>2, <2>3 DEF CanGoOn
<1>. QED
  BY <1>1, InvHolds, PTL

(* Requests sent again, by one device or several, record each answer, skill, end
   action and fallen enemy at most once.                                            *)
THEOREM RecordedOnce == Spec => []OnceOnly
<1>1. Inv => OnceOnly
  BY DEF Inv, Once, OnceOnly
<1>. QED
  BY <1>1, InvHolds, PTL

(* Whatever request the party falls in, it stands at the entrance without a battle. *)
THEOREM DefeatEndsAtEntrance == Spec => []DefeatAtEntrance
<1>1. Inv => DefeatAtEntrance
  BY DEF Inv, Shape, Docs, Good, DefeatAtEntrance
<1>. QED
  BY <1>1, InvHolds, PTL

(* The battles implement the ledger of turns and receipts.                       *)
THEOREM LedgerImplemented == Spec => TurnsInOrder
<1>1. Init => Ledger!Init
  BY DEF Init, Ledger!Init
<1>2. Inv /\ [Next]_vars => [Ledger!Next]_(Ledger!ledgerVars)
  BY Stepwise DEF LedgerStep
<1>. QED
  BY <1>1, <1>2, InvHolds, PTL DEF Spec, TurnsInOrder, Ledger!Spec

=============================================================================
