------------------------------ MODULE CombatTurn ------------------------------
(* The battles of one adventure: encounters and bosses, turns, the specialty
   skill, the action at the end of a turn, retreat.  The server keeps no
   battle in memory: every request reads the saved adventure, computes, and
   saves under the revision it read, so requests of several devices (and the
   same request sent again) race at every step.

   Amounts are abstracted to what the rules tell apart: the player is alive or
   not, an enemy of a scheduled battle has 0..EnemyHp, and in a plain battle
   the browser says which of the enemies answered correctly it defeated.    *)
EXTENDS Naturals, FiniteSets

CONSTANTS Devices,       \* where requests come from
          Enemies,       \* enemies one battle can have
          None,
          EnemyHp,       \* highest HP of an enemy
          MovesPerEvent, \* moves after which the party rests
          EnemiesToClear,\* kills that clear a dungeon
          MaxBattles,    \* bound: battles begun
          MaxTurns,      \* bound: turns of a battle
          Watched        \* kinds of facts whose repetition is looked for

ASSUME BattleAssumption ==
    /\ None \notin Enemies /\ "player" \notin Enemies /\ None # "player"
    /\ IsFiniteSet(Enemies)
    /\ EnemyHp \in Nat \ {0} /\ EnemiesToClear \in Nat \ {0}
    /\ Watched \subseteq {"answer", "skill", "skillAnswer", "end", "endAnswer", "gambit", "fall"}
    /\ MovesPerEvent \in Nat /\ MaxBattles \in Nat /\ MaxTurns \in Nat

VARIABLES save,          \* the saved adventure
          turnReceipt,   \* receipt of the last settled turn, or None
          skillReceipt,  \* the last resolved skill, as its receipt names it
          call,          \* the request each device has under way
          begun,         \* battles begun; battle ids count up
          watched, count \* history: one fact, and how often it was recorded

vars == <<save, turnReceipt, skillReceipt, call, begun, watched, count>>

Turns == (1 .. MaxBattles) \X (0 .. MaxTurns)
Idle  == [op |-> "idle", quit |-> FALSE]
Stale == [op |-> "stale", quit |-> FALSE]
Request(op, quit) == [op |-> op, quit |-> quit]
Ops == {"start", "boss", "turn", "next", "skill", "skillAnswer", "end", "endAnswer",
        "leave", "leaveOld"}

(* A battle marker.  `actor`, `quiz`, `hp` and `gambit` belong to scheduled
   battles: who acts, whose question is sealed, the server's enemy HP, and
   whether the sealed action of turn `sealed` costs MP or an item.  `skill` and
   `endAction` carry the turn in which a pending one was called.            *)
Marker ==
    [id : 1 .. MaxBattles, turn : 0 .. MaxTurns, boss : BOOLEAN, scheduled : BOOLEAN,
     enemies : SUBSET Enemies, hp : [Enemies -> 0 .. EnemyHp],
     actor : Enemies \cup {"player", None}, quiz : Enemies \cup {None},
     gambit : {"none", "free", "costs"}, sealed : 0 .. MaxTurns, endDone : BOOLEAN,
     endAction : [turn : 0 .. MaxTurns, hp : [Enemies -> 0 .. EnemyHp]] \cup {None},
     skill : (0 .. MaxTurns) \cup {None}, skillUsed : BOOLEAN]

\* The null of the documents is neither a marker nor anything a marker counts.
ASSUME NullAssumption == None \notin Marker \cup Turns \cup (0 .. MaxTurns)

\* What is recorded or paid for a turn, a skill, an end action or an enemy.
Facts == ({"answer"} \X Turns \X Enemies)
         \cup ({"skill", "skillAnswer", "end", "endAnswer", "gambit"} \X Turns \X {None})
         \cup ({"fall"} \X ((1 .. MaxBattles) \X {0}) \X Enemies)

TypeOK ==
    /\ save \in [phase : {"path", "battle", "rest", "defeated", "cleared"},
                 alive : BOOLEAN, moves : 0 .. MovesPerEvent,
                 kills : 0 .. EnemiesToClear, bossWon : BOOLEAN,
                 spot : {"entrance", "checkpoint", "ahead"}, feedback : BOOLEAN,
                 endReceipt : [on : Turns, id : Turns] \cup {None},
                 battle : Marker \cup {None}]
    /\ turnReceipt \in [id : Turns, results : SUBSET Enemies] \cup {None}
    /\ skillReceipt \in Turns \cup {None}
    /\ begun \in 0 .. MaxBattles
    /\ call \in [Devices -> {Idle, Stale} \cup [op : Ops, quit : BOOLEAN]]
    /\ watched \in Facts /\ count \in 0 .. 2

Init == /\ save = [phase |-> "path", alive |-> TRUE, moves |-> 0, kills |-> 0,
                   bossWon |-> FALSE, spot |-> "entrance", feedback |-> FALSE,
                   endReceipt |-> None, battle |-> None]
        /\ turnReceipt = None /\ skillReceipt = None
        /\ call = [d \in Devices |-> Idle]
        /\ begun = 0
        /\ watched \in {f \in Facts : f[1] \in Watched} /\ count = 0

-----------------------------------------------------------------------------
(* Saving under the revision that was read.  A request under way holds the
   adventure as it is now; a save of another device makes it stale.         *)

Holds(d, op) == call[d].op = op

Saved(d, then) ==
    call' = [x \in Devices |-> IF x = d THEN then
                               ELSE IF call[x] = Idle THEN Idle ELSE Stale]

Record(facts) ==
    count' = IF watched \in facts /\ count < 2 THEN count + 1 ELSE count

\* Nothing to record and no receipt of a turn or a skill.
Plainly == UNCHANGED <<turnReceipt, skillReceipt, begun, watched, count>>

-----------------------------------------------------------------------------
(* The rules of a turn. *)

Resting(s) == IF s.moves >= MovesPerEvent THEN "rest" ELSE "path"

\* Kills beyond those that clear the dungeon make no difference.
KillsWith(s, n) ==
    IF s.battle.boss THEN s.kills
    ELSE IF s.kills + n >= EnemiesToClear THEN EnemiesToClear ELSE s.kills + n

\* The question of the player's own turn is the first standing enemy's.
First(S) == CHOOSE e \in S : TRUE

\* (Faulty variant: an enemy that fell can fall again.)
StandingStill(m, fallen) == m.enemies
Standing(m, fallen) == m.enemies \ fallen

\* (Faulty variant: the next request finds the turn it was to leave.)
SameTurn(m) == m.turn
TurnAfter(m) == m.turn + 1

\* However the player falls, the battle is over and the next try begins at the
\* entrance.  (Faulty variants: still in battle; still where it was.)
DefeatedInBattle(s) == [s EXCEPT !.alive = FALSE]
DefeatedInPlace(s) == [s EXCEPT !.phase = "defeated", !.alive = FALSE, !.battle = None]
Defeated(s) ==
    [s EXCEPT !.phase = "defeated", !.alive = FALSE, !.spot = "entrance", !.battle = None]

\* The result of a turn: defeat before anything else, then retreat, then the
\* enemies that still stand.
AfterTurn(s, fallen, alive, retreat) ==
    LET m     == s.battle
        left  == Standing(m, fallen)
        kills == KillsWith(s, Cardinality(fallen))
        phase == CASE retreat -> Resting(s)
                   [] ~retreat /\ left # {} -> "battle"
                   [] OTHER -> IF kills = EnemiesToClear /\ ~m.boss
                               THEN "cleared" ELSE Resting(s)
        counted == [s EXCEPT !.kills = kills, !.feedback = TRUE]
    IN IF ~alive THEN Defeated(counted)
       ELSE [counted EXCEPT
               !.phase = phase, !.alive = TRUE,
               !.bossWon = @ \/ (m.boss /\ left = {} /\ ~retreat),
               !.spot = IF retreat THEN "checkpoint" ELSE @,
               !.battle = IF phase = "battle"
                          THEN [m EXCEPT !.enemies = left, !.turn = TurnAfter(m),
                                         !.endDone = FALSE]
                          ELSE None]

\* A sealed action that costs MP or an item is paid when a turn's result is
\* applied, unless the party retreats.
Payment(m, retreat) ==
    IF m.gambit = "costs" /\ ~retreat
    THEN {<<"gambit", <<m.id, m.sealed>>, None>>} ELSE {}

\* Gold is paid for every enemy that falls.
Falls(m, fallen) == {<<"fall", <<m.id, 0>>, e>> : e \in fallen}

\* Who acts next in a scheduled battle, whose question it is, and what a player
\* action will cost.
Sealed(m, a, g) ==
    [m EXCEPT !.actor = a, !.quiz = IF a = "player" THEN First(m.enemies) ELSE a,
              !.gambit = IF a = "player" THEN g ELSE "none",
              !.sealed = m.turn, !.endDone = a # "player"]
Sealings(m) ==
    {Sealed(m, a, g) : a \in m.enemies \cup {"player"}, g \in {"none", "free", "costs"}}

\* HP the enemies of a scheduled battle can have after an action: only one
\* that is no retreat can bring an enemy down.
HpAfter(m, retreat) ==
    {h \in [Enemies -> 0 .. EnemyHp] :
        \A e \in Enemies : IF e \in m.enemies THEN retreat => h[e] > 0 ELSE h[e] = m.hp[e]}

\* Enemies whose question was answered correctly: any of them in a plain battle,
\* only the sealed one in a scheduled battle, where a late answer counts as none.
Graded(m) == SUBSET (IF m.scheduled THEN {m.quiz} ELSE m.enemies)

\* What the server makes of an action in a scheduled battle that leaves the HP `h`.
Resolved(s, h, alive, retreat) ==
    LET m    == s.battle
        next == AfterTurn(s, {e \in m.enemies : h[e] = 0}, alive, retreat)
    IN IF next.battle = None THEN next
       ELSE [next EXCEPT !.battle.hp = h, !.battle.actor = None,
                         !.battle.endDone = m.actor # "player" \/ m.gambit # "none"]

\* Enemies a skill brings down: by the browser's HP, and none when its question
\* was not answered correctly.
SkillHits(m, answered) == IF answered THEN SUBSET m.enemies ELSE {{}}

\* The skill is over and counts as a turn.
SkillResult(s, fallen, alive, retreat) ==
    LET next == AfterTurn(s, fallen, alive, retreat)
    IN IF next.battle = None THEN next ELSE [next EXCEPT !.battle.skill = None]

\* Damage of an end action, bounded by the HP it was begun with.
Blows(m, hp) == {b \in [m.enemies -> 0 .. EnemyHp] : \A e \in m.enemies : b[e] <= hp[e]}

\* HP an end action is begun with; the browser's in a plain battle.
EndHp(m) == [e \in Enemies |-> IF ~m.scheduled \/ m.hp[e] = 0 THEN 1 ELSE m.hp[e]]

-----------------------------------------------------------------------------
(* Requests.  One that names another turn, or comes at the wrong moment, is
   refused; one whose receipt is stored is answered from it.  Neither changes
   anything, so only the requests that go on to save are steps.             *)

AtTurn(at) == save.battle # None /\ at = <<save.battle.id, save.battle.turn>>

\* A boss is met between battles, by a living party that is not due to rest.
MeetsBoss ==
    /\ save.battle = None /\ ~save.feedback /\ save.alive
    /\ save.phase \in {"path", "cleared"} /\ save.moves < MovesPerEvent

\* A question of a skill or an end action waits for its answer.
Pending(m) == m.skill # None \/ m.endAction # None

Accepts(op, at) ==
    LET m == save.battle IN
    CASE op = "start" -> save.phase = "battle" /\ m = None
      [] op = "boss" -> MeetsBoss
      [] op = "turn" -> /\ turnReceipt # None => turnReceipt.id # at
                        /\ AtTurn(at) /\ (m.scheduled => ~save.feedback)
      [] op = "next" -> AtTurn(at) /\ save.feedback /\ ~Pending(m)
      [] op = "skill" -> /\ AtTurn(at) /\ save.alive /\ save.feedback
                         /\ m.skill = None /\ ~m.skillUsed
      [] op = "skillAnswer" -> /\ skillReceipt # at
                               /\ m # None /\ m.skill # None /\ at = <<m.id, m.skill>>
      [] op = "end" -> /\ save.endReceipt # None => save.endReceipt.on # at
                       /\ AtTurn(at) /\ save.alive /\ save.feedback
                       /\ m.endAction = None /\ ~m.endDone
      [] op = "endAnswer" -> /\ save.endReceipt # None => save.endReceipt.id # at
                             /\ m # None /\ m.endAction # None
                             /\ at = <<m.id, m.endAction.turn>>

Take(d) ==
    /\ call[d] = Idle
    /\ \E op \in Ops \ {"leave", "leaveOld"}, at \in Turns :
          /\ Accepts(op, at)
          /\ call' = [call EXCEPT ![d] = Request(op, FALSE)]
    /\ UNCHANGED save /\ Plainly

\* How a retreat goes on from the adventure `s`: pending questions are given
\* up first, a saved result is left as it is, an unanswered turn is settled.
Retreat(s) ==
    LET m == s.battle IN
    IF m = None
    THEN IF s.phase = "battle" THEN Request("leaveOld", TRUE) ELSE Idle
    ELSE IF m.endAction # None THEN Request("endAnswer", TRUE)
    ELSE IF m.skill # None THEN Request("skillAnswer", TRUE)
    ELSE IF s.feedback THEN Request("leave", TRUE)
    ELSE Request("turn", TRUE)

TakeRetreat(d) ==
    /\ call[d] = Idle /\ Retreat(save) # Idle
    /\ call' = [call EXCEPT ![d] = Retreat(save)]
    /\ UNCHANGED save /\ Plainly

\* Another save came in between: the revision differs, nothing is written.
Conflict(d) ==
    /\ call[d] = Stale
    /\ call' = [call EXCEPT ![d] = Idle]
    /\ UNCHANGED save /\ Plainly

-----------------------------------------------------------------------------
(* Saving. *)

\* Enemies are drawn from the population of the dungeon.
Encounters == (SUBSET Enemies) \ {{}}

\* A new marker; a scheduled battle starts with its first action sealed and the
\* last result cleared, a plain one keeps the result the browser last saved.
Begin(s, boss) ==
    \E E \in Encounters, scheduled \in BOOLEAN :
       LET m == [id |-> begun + 1, turn |-> 0, boss |-> boss, scheduled |-> scheduled,
                 enemies |-> E, hp |-> [e \in Enemies |-> EnemyHp], actor |-> None,
                 quiz |-> None, gambit |-> "none", sealed |-> 0, endDone |-> FALSE,
                 endAction |-> None, skill |-> None, skillUsed |-> FALSE]
       IN IF scheduled
          THEN \E n \in Sealings(m) : save' = [s EXCEPT !.battle = n, !.feedback = FALSE]
          ELSE save' = [s EXCEPT !.battle = m]

SaveStart(d) ==
    /\ Holds(d, "start") /\ begun < MaxBattles
    /\ Begin(save, FALSE)
    /\ begun' = begun + 1
    /\ Saved(d, Idle) /\ UNCHANGED <<turnReceipt, skillReceipt, watched, count>>

SaveBoss(d) ==
    /\ Holds(d, "boss") /\ begun < MaxBattles
    /\ Begin([save EXCEPT !.phase = "battle", !.moves = @ + 1,
                          !.kills = IF save.phase = "cleared" THEN 0 ELSE @], TRUE)
    /\ begun' = begun + 1
    /\ Saved(d, Idle) /\ UNCHANGED <<turnReceipt, skillReceipt, watched, count>>

\* A turn is settled: the answers join the learning record and the receipt is
\* stored in the transaction that saves the adventure.  In a plain battle the
\* browser names the defeated among the enemies answered correctly.
SavePlainTurn(d) ==
    LET m == save.battle IN
    /\ Holds(d, "turn") /\ ~m.scheduled
    /\ \E retreat, alive \in BOOLEAN, A \in Graded(m) :
       \E fallen \in SUBSET A :
          /\ m.turn < MaxTurns \/ retreat
          /\ call[d].quit => retreat /\ A = {}
          /\ save' = AfterTurn(save, fallen, alive, retreat)
          /\ turnReceipt' = [id |-> <<m.id, m.turn>>, results |-> A]
          /\ Record({<<"answer", <<m.id, m.turn>>, e>> : e \in A} \cup Falls(m, fallen))
    /\ Saved(d, Idle) /\ UNCHANGED <<skillReceipt, begun, watched>>

\* In a scheduled battle the server's HP decide who falls.
SaveScheduledTurn(d) ==
    LET m == save.battle IN
    /\ Holds(d, "turn") /\ m.scheduled
    /\ \E retreat, alive \in BOOLEAN, A \in Graded(m) : \E h \in HpAfter(m, retreat) :
          /\ m.turn < MaxTurns \/ retreat
          /\ call[d].quit => retreat /\ A = {}
          /\ save' = Resolved(save, h, alive, retreat)
          /\ turnReceipt' = [id |-> <<m.id, m.turn>>, results |-> A]
          /\ Record({<<"answer", <<m.id, m.turn>>, e>> : e \in A}
                    \cup Falls(m, {e \in m.enemies : h[e] = 0}) \cup Payment(m, retreat))
    /\ Saved(d, Idle) /\ UNCHANGED <<skillReceipt, begun, watched>>

\* The result was read: a new question, or the next actor, is sealed.
SaveNext(d) ==
    /\ Holds(d, "next")
    /\ IF save.battle.scheduled
       THEN \E n \in Sealings(save.battle) :
               save' = [save EXCEPT !.battle = n, !.feedback = FALSE]
       ELSE save' = [save EXCEPT !.battle.skillUsed = FALSE, !.feedback = FALSE]
    /\ Saved(d, Idle) /\ Plainly

\* The specialty skill: MP is spent and its question fixed before it is shown.
SaveSkill(d) ==
    LET m == save.battle IN
    /\ Holds(d, "skill")
    /\ save' = [save EXCEPT !.battle.skill = m.turn, !.battle.skillUsed = TRUE]
    /\ Record({<<"skill", <<m.id, m.turn>>, None>>})
    /\ Saved(d, Idle) /\ UNCHANGED <<turnReceipt, skillReceipt, begun, watched>>

\* Its answer counts as a turn: a correct one hits every enemy, and the browser's
\* HP decide who falls; a wrong or missing one hits the player.
SaveSkillAnswer(d) ==
    LET m == save.battle  id == <<m.id, m.skill>> IN
    /\ Holds(d, "skillAnswer")
    /\ \E retreat, alive, answered \in BOOLEAN :
       \E fallen \in SkillHits(m, answered) :
          /\ m.turn < MaxTurns \/ retreat
          /\ call[d].quit => retreat /\ ~answered
          /\ save' = SkillResult(save, fallen, alive, retreat)
          /\ Record((IF answered THEN {<<"skillAnswer", id, None>>} ELSE {})
                    \cup Falls(m, fallen) \cup Payment(m, retreat))
    /\ skillReceipt' = id
    /\ Saved(d, Idle) /\ UNCHANGED <<turnReceipt, begun, watched>>

\* An action called in turn `called` takes effect: enemies fall by the HP it was
\* begun with, and the player may fall to its cost or to the counter.
Finish(s, called, fallen, alive, h) ==
    LET m     == s.battle
        left  == Standing(m, fallen)
        won   == left = {}
        kills == KillsWith(s, Cardinality(fallen))
        over  == [s EXCEPT !.phase = IF ~won THEN @
                                     ELSE IF kills = EnemiesToClear /\ ~m.boss
                                     THEN "cleared" ELSE Resting(s),
                           !.kills = kills, !.bossWon = @ \/ (won /\ m.boss),
                           !.endReceipt = [on |-> <<m.id, m.turn>>, id |-> <<m.id, called>>],
                           !.battle = IF won THEN None
                                      ELSE [m EXCEPT !.enemies = left, !.endAction = None,
                                                     !.hp = h]]
    IN IF alive THEN over ELSE Defeated(over)

\* Blows of an end action: an enemy falls when the damage reaches the HP the
\* action was begun with; a scheduled battle takes it off the server's HP.
Finished(s, called, hp, facts) ==
    LET m == s.battle IN
    \E blow \in Blows(m, hp), alive \in BOOLEAN :
       LET fallen == {e \in m.enemies : blow[e] = hp[e]}
           left(e) == IF e \notin m.enemies \/ ~m.scheduled THEN m.hp[e]
                      ELSE IF blow[e] >= m.hp[e] THEN 0 ELSE m.hp[e] - blow[e]
       IN /\ save' = Finish(s, called, fallen, alive, [e \in Enemies |-> left(e)])
          /\ Record(facts \cup Falls(m, fallen))

\* Once after a settled turn: no action, an action at once, or one whose
\* question has to be answered first.  Its cost is paid here.
SaveEnd(d) ==
    LET m  == save.battle
        at == <<m.id, m.turn>>
        s  == [save EXCEPT !.endReceipt = None, !.battle.endDone = TRUE]
        hp == EndHp(m)
        paid == {<<"end", at, None>>}
    IN /\ Holds(d, "end")
       /\ \/ save' = s /\ count' = count
          \/ /\ save' = [s EXCEPT !.battle.endAction = [turn |-> m.turn, hp |-> hp]]
             /\ Record(paid)
          \/ Finished(s, m.turn, hp, paid)
       /\ Saved(d, Idle) /\ UNCHANGED <<turnReceipt, skillReceipt, begun, watched>>

SaveEndAnswer(d) ==
    LET m == save.battle  called == m.endAction.turn IN
    /\ Holds(d, "endAnswer")
    /\ \E answered \in BOOLEAN :
          /\ call[d].quit => ~answered
          /\ Finished(save, called, m.endAction.hp,
                      IF answered THEN {<<"endAnswer", <<m.id, called>>, None>>} ELSE {})
    /\ Saved(d, IF call[d].quit THEN Retreat(save') ELSE Idle)
    /\ UNCHANGED <<turnReceipt, skillReceipt, begun, watched>>

\* Leaving a result screen: nothing is open, the party is back at its checkpoint.
SaveLeave(d) ==
    /\ Holds(d, "leave")
    /\ save' = [save EXCEPT !.battle = None, !.phase = Resting(save), !.spot = "checkpoint"]
    /\ Saved(d, Idle) /\ Plainly

\* A battle phase without a marker, as older saves have it, counts as retreat.
SaveLeaveOld(d) ==
    /\ Holds(d, "leaveOld")
    /\ \E alive \in BOOLEAN :
          save' = [save EXCEPT !.alive = alive, !.feedback = TRUE,
                               !.phase = IF alive THEN Resting(save) ELSE "defeated",
                               !.spot = IF alive THEN "checkpoint" ELSE "entrance"]
    /\ Saved(d, Idle) /\ Plainly

\* Between battles the browser saves the walk itself; a snapshot is refused
\* while a battle marker is stored.
Explore ==
    /\ save.battle = None /\ begun < MaxBattles
    /\ \E phase \in {"path", "battle", "rest"}, moves \in 0 .. MovesPerEvent,
          kills \in {0, save.kills}, feedback \in BOOLEAN :
          save' = [save EXCEPT !.phase = phase, !.moves = moves, !.kills = kills,
                               !.feedback = feedback, !.alive = TRUE, !.spot = "ahead"]
    /\ call' = [d \in Devices |-> IF call[d] = Idle THEN Idle ELSE Stale]
    /\ Plainly

Work(d) ==
    \/ Conflict(d) \/ SaveStart(d) \/ SaveBoss(d) \/ SavePlainTurn(d)
    \/ SaveScheduledTurn(d) \/ SaveNext(d) \/ SaveSkill(d) \/ SaveSkillAnswer(d)
    \/ SaveEnd(d) \/ SaveEndAnswer(d) \/ SaveLeave(d) \/ SaveLeaveOld(d)

Next == Explore \/ \E d \in Devices : Take(d) \/ TakeRetreat(d) \/ Work(d)

Spec == Init /\ [][Next]_vars

-----------------------------------------------------------------------------
(* Properties. *)

\* A stored battle can always be fought on: the player lives, enemies stand,
\* and in a scheduled battle every one of them has HP left, whichever of the
\* turn, the skill and the end action took the last ones down.
LiveBattle ==
    save.battle # None =>
        /\ save.alive /\ save.phase = "battle" /\ save.battle.enemies # {}
        /\ save.battle.scheduled =>
              \A e \in save.battle.enemies : save.battle.hp[e] > 0

\* A scheduled battle shows either a sealed action to answer or a result to
\* acknowledge, never both and never neither: begin, settle, skill, end action
\* and next each keep the two apart.
SealedOrResult ==
    save.battle # None /\ save.battle.scheduled =>
        (save.battle.actor # None <=> ~save.feedback)

\* A pending skill or end action belongs to a result screen, so the next turn
\* cannot begin before it is answered.
PendingOnResult ==
    save.battle # None /\ (save.battle.skill # None \/ save.battle.endAction # None)
        => save.feedback

\* Whatever was answered, refused, given up or raced, the stored battle is one that
\* the next request can go on with: none of the stages of a turn is left half-way.
CanGoOn == TypeOK /\ LiveBattle /\ SealedOrResult /\ PendingOnResult

\* However requests are repeated or raced, nothing is recorded or paid a second
\* time: an answer, a skill or end action of a turn, its answer, gold for an
\* enemy.  (The costs of a sealed action are ActionPaidOnce.)
OnceOnly == count <= 1 \/ watched[1] = "gambit"

\* However a battle is lost, the party stands at the entrance and no marker is
\* left behind.
DefeatAtEntrance == save.phase = "defeated" => save.spot = "entrance" /\ save.battle = None

\* Every step settles the turn at hand, passes it, begins or leaves a battle, or
\* changes none of it: the ledger of turns and receipts is implemented.
Ledger == INSTANCE BattleLedger WITH
    turn    <- IF save.battle = None THEN None ELSE <<save.battle.id, save.battle.turn>>,
    receipt <- turnReceipt

TurnsInOrder == Ledger!Spec

\* combat.py:902: a mutual knock-out opens no specialty.
NoUnlockInDefeat ==
    [][save'.phase = "defeated" /\ save.phase # "defeated"
         => save'.bossWon = save.bossWon]_vars

\* docs/game-specialties.md:29: MP or an item is consumed once per action.
ActionPaidOnce == count <= 1

\* skills.py:79 and 93: a skill can be called once between two turns, and is refused as
\* "already used in this turn".  In a scheduled battle the mark of the first call is never
\* taken back (combat.py:1038), so the skill is refused on result screens where it was not
\* used: those that its own answer did not bring about.
RefusedWhenUsed ==
    LET m == save.battle
    IN (m # None /\ m.scheduled /\ m.skillUsed /\ m.skill = None /\ save.feedback)
          => skillReceipt = <<m.id, m.turn - 1>>
=============================================================================
