---------------------------- MODULE BattleEffects ----------------------------
(* Effects that last for some turns of a battle, and what they change: speeds,
   greatest HP and MP (with the rest stretched alike), poison, curse and
   recovery at the end of an action.  `m` is a battle: its turn, effects,
   standing enemies in order, HP and MP (cur, top) of all actors, schedule.

   A part of a skill is a record [id, effect, stat, amount, turns, limit,
   target, all, wrong]; a skill is its cost and its parts, in order.        *)
EXTENDS Integers, SequencesExt, ActionQueue

CONSTANTS Enemies,       \* enemies of the battle
          Skill,         \* the skills, by name
          Base,          \* Base[r][a]: greatest "hp" or "mp" of an actor without effects
          Speed,         \* Speed[a]: speed without effects
          Affinity,      \* percent of a blow an actor takes: weak, resistant or neither
          MaxEffects     \* effects a battle keeps

ASSUME EffectsAssumption == /\ "player" \notin Enemies /\ None \notin Enemies
                            /\ MaxEffects \in Nat \ {0}
                            /\ \A a \in Enemies \cup {"player"} : Base["hp"][a] > 0

Actors    == Enemies \cup {"player"}
Resources == {"hp", "mp"}

Unexpired(e, turn) == e.expires = None \/ turn < e.expires
Active(e, turn)    == e.starts <= turn /\ Unexpired(e, turn)
Prune(m)           == [m EXCEPT !.effects = SelectSeq(@, LAMBDA e : Unexpired(e, m.turn))]

Sum(f(_), S) == MapThenSumSet(f, S)
Least(a, b) == IF a < b THEN a ELSE b
Most(a, b)  == IF a < b THEN b ELSE a
Within(x, top) == Most(0, Least(top, x))

\* Indices of the active effects of one kind on one actor.
ActiveOn(m, a, kinds, stat) ==
    {i \in DOMAIN m.effects :
        LET e == m.effects[i] IN
        /\ e.target = a /\ Active(e, m.turn)
        /\ e.part.effect \in kinds /\ e.part.stat = stat}

\* What buffs add and debuffs take from a value.
Change(m, a, stat) ==
    Sum(LAMBDA i : IF m.effects[i].part.effect = "buff" THEN m.effects[i].part.amount
                   ELSE 0 - m.effects[i].part.amount,
        ActiveOn(m, a, {"buff", "debuff"}, stat))

\* A blow under weakness or resistance and under the buffs and debuffs of what
\* the one deals and the other takes, each added to its base of 100 percent.
Dealt(m, a) == Most(0, 100 + Change(m, a, "damageDealt"))
Taken(m, a) == Most(0, 100 - Change(m, a, "damageTaken"))
ElementalDamage(m, amount, source, target) ==
    (amount * Affinity[target] * Dealt(m, source) * Taken(m, target)) \div 1000000

ModifiedSpeed(m, a) == Most(1, Within(Speed[a] + Change(m, a, "speed"), Max(DOMAIN Interval)))

\* Standing actors move at their modified speed, and the forecast follows.
\* (Faulty variant: the forecast is left as it was.)
SyncSpeedsOnly(m, ahead) ==
    [m EXCEPT !.sched = RefreshSpeeds(@, [a \in ToSet(m.enemies) \cup {"player"} |->
                                              ModifiedSpeed(m, a)])]
SyncSpeeds(m, ahead) ==
    LET sched == RefreshSpeeds(m.sched, [a \in ToSet(m.enemies) \cup {"player"} |->
                                            ModifiedSpeed(m, a)])
    IN [m EXCEPT !.sched = sched, !.queue = Predict(sched, ahead)]

\* Greatest HP or MP under the active effects, in percent of the base.
Factor(m, r, a)  == Most(0, 100 + Change(m, a, IF r = "hp" THEN "maxHp" ELSE "maxMp"))
TopOf(m, r, a)   == IF Base[r][a] = 0 THEN 0
                    ELSE Most(1, (Base[r][a] * Factor(m, r, a)) \div 100)

\* What is left is stretched like the maximum: none stays none, some stays some.
Scaled(cur, old, new) ==
    IF new = 0 THEN 0
    ELSE Least(new, Most(IF cur > 0 THEN 1 ELSE 0, (cur * new) \div old))

SyncBubble(m) ==
    [m EXCEPT !.top = Worked([r \in Resources |-> Worked([a \in Actors |-> TopOf(m, r, a)])]),
              !.cur = Worked([r \in Resources |-> Worked([a \in Actors |->
                          Scaled(m.cur[r][a], m.top[r][a], TopOf(m, r, a))])])]

\* Poison, curse, regeneration and refreshment of one actor.
Ailing(m, a, ailment) ==
    Sum(LAMBDA i : m.effects[i].part.amount, ActiveOn(m, a, {"ailment"}, ailment))

\* The end of an action for one actor, in the code's order, by the effects of `old`: the
\* battle before the action gave effects of its own.  The player loses `damage` as well
\* and does not recover from a defeat; poison leaves a standing enemy one point.
\* (Faulty variant: it takes that too.)
PoisonLeavesNone(x) == Most(0, x)
PoisonLeaves(x) == Most(1, x)
Periodic(m, old, a, damage) ==
    LET hp == IF a = "player"
              THEN Most(0, Least(m.cur["hp"][a], m.top["hp"][a]) - damage - Ailing(old, a, "poison"))
              ELSE PoisonLeaves(m.cur["hp"][a] - Ailing(old, a, "poison"))
        mp == Most(0, Least(m.cur["mp"][a], m.top["mp"][a]) - Ailing(old, a, "curse"))
    IN IF (a # "player" /\ m.cur["hp"][a] = 0) THEN m
       ELSE IF hp = 0 THEN [m EXCEPT !.cur["hp"][a] = 0, !.cur["mp"][a] = mp]
       ELSE [m EXCEPT !.cur["hp"][a] = Least(m.top["hp"][a], hp + Ailing(old, a, "regen")),
                      !.cur["mp"][a] = Least(m.top["mp"][a], mp + Ailing(old, a, "refresh"))]

EnemiesPeriodic(m, old) ==
    LET all == SetToSeq(Enemies)
    IN FoldLeft(LAMBDA acc, a : Periodic(acc, old, a, 0), m, all)

\* A new effect pushes out the oldest of its kind beyond the limit of its skill,
\* and the oldest of all when the battle is full.
Shed(s, k, target, limit) ==
    LET same == SelectSeq(s, LAMBDA e : e.part.id = k.id /\ e.target = target)
        over == Len(same) - limit + 1
        gone == {i \in DOMAIN s : /\ s[i].part.id = k.id /\ s[i].target = target
                                  /\ Cardinality({j \in 1 .. i : s[j].part.id = k.id /\ s[j].target = target})
                                        <= over}
    IN FoldLeft(LAMBDA acc, i : IF i \in gone THEN acc ELSE Append(acc, s[i]), <<>>,
                [i \in DOMAIN s |-> i])
AddEffect(m, k, now, target, starts) ==
    LET kept == Shed(Prune(m).effects, k, target, k.limit)
        room == IF Len(kept) >= MaxEffects THEN Tail(kept) ELSE kept
    IN [m EXCEPT !.effects =
          Append(room, [part |-> [k EXCEPT !.amount = now.amount], target |-> target,
                        starts |-> starts,
                        expires |-> IF now.turns = None THEN None ELSE starts + now.turns])]

\* What a part still does after a wrong answer: nothing, or less, perhaps for
\* fewer turns.
AnswerEffect(k, correct) ==
    IF correct THEN {[amount |-> k.amount, turns |-> k.turns]}
    ELSE IF k.wrong.type # "reduced" \/ k.wrong.turns = 0 THEN {}
    ELSE {[amount |-> k.wrong.amount, turns |-> k.wrong.turns]}

HasCounter(skill) == \E i \in DOMAIN skill.parts : skill.parts[i].wrong.type # "none"

\* HP and MP change within their bounds; a fallen enemy is left alone.
ChangeResource(m, k, amount, target) ==
    LET r    == IF k.effect = "heal_hp" THEN "hp" ELSE "mp"
        next == IF k.effect = "damage_mp" THEN m.cur[r][target] - amount
                ELSE m.cur[r][target] + amount
    IN IF target # "player" /\ m.cur["hp"][target] = 0 THEN m
       ELSE [m EXCEPT !.cur[r][target] = Within(next, m.top[r][target])]
=============================================================================
