--------------------------- MODULE ScheduledBattle ---------------------------
(* One scheduled battle from its first sealed action to its end: who acts, what
   the gambits choose, what the answer makes of it, what lasts.  The requests
   that drive it and their races are in CombatTurn; here every step is a
   request that was accepted.                                               *)
EXTENDS BattleEffects

CONSTANTS Gambits,       \* Gambits[a]: rules of an actor, in order
          Attack,        \* the normal attack every actor falls back on
          OnHit,         \* skill an enemy's hit brings along, or None
          Rolls,         \* strengths a blow can have
          Draws,         \* sets of targets that the effects of an action can take hold of
          SkillCost,     \* MP that calling the skill costs
          Ahead,         \* length of the forecast
          CallTurns,     \* bound: turns in which a skill may be called
          MaxTurn        \* bound: turns of the battle

VARIABLES m,             \* the battle
          struck,        \* history: who lost HP to a blow in the last step
          since          \* history: since[a][b] actions of b after the last of a

battleVars == <<m, struck, since>>

-----------------------------------------------------------------------------
(* Gambits: the first rule whose condition some target meets and whose skill
   can be paid and can do something.                                        *)

Standing(b, a) == b.cur["hp"][a] > 0

Candidates(b, a, side) ==
    IF a = "player" THEN IF side = "enemy" THEN b.enemies ELSE <<"player">>
    ELSE CASE side = "enemy" -> <<"player">>
           [] side = "self"  -> <<a>>
           [] side = "ally"  -> b.enemies

Meets(b, a, when, t) ==
    LET cur == b.cur[when.res][t]
        top == b.top[when.res][t]
    IN CASE when.kind = "always" -> TRUE
         [] when.kind = "count"  -> (IF a = "player" THEN Len(b.enemies) ELSE 1) >= when.bound
         [] when.kind = "below"  -> top > 0 /\ cur * 100 < top * when.bound
         [] when.kind = "above"  -> top > 0 /\ cur * 100 >= top * when.bound
         [] when.kind = "absent" -> \A i \in DOMAIN b.effects :
                                       LET e == b.effects[i] IN
                                       ~(e.target = t /\ e.part.id = when.id /\ Active(e, b.turn))
         [] when.kind = "lowest" -> TRUE

\* A skill that only heals wants a target that lacks something.
CanReceive(b, skill, t) ==
    \E i \in DOMAIN skill.parts :
       LET k == skill.parts[i] IN
       CASE k.effect = "heal_hp" -> b.cur["hp"][t] < b.top["hp"][t]
         [] k.effect = "heal_mp" -> b.cur["mp"][t] < b.top["mp"][t]
         [] OTHER -> TRUE

OrderTargets(b, when, targets) ==
    IF when.kind # "lowest" THEN targets
    ELSE SortSeq(targets, LAMBDA s, t : b.cur[when.res][s] < b.cur[when.res][t])

RuleTargets(b, a, rule) ==
    OrderTargets(b, rule.when,
       SelectSeq(Candidates(b, a, rule.side),
                 LAMBDA t : /\ Standing(b, t) /\ Meets(b, a, rule.when, t)
                            /\ CanReceive(b, Skill[rule.skill], t)))

Usable(b, a, rule) ==
    /\ Skill[rule.skill].cost <= b.cur["mp"][a]
    /\ RuleTargets(b, a, rule) # <<>>

\* Without a usable rule the actor attacks; targets None are filled in later.
Plain == [skill |-> Attack, targets |-> None, side |-> "any"]
Usables(b, a) == {i \in DOMAIN Gambits[a] : Usable(b, a, Gambits[a][i])}
Chosen(b, a) ==
    LET usables == Usables(b, a)
        rule    == Gambits[a][Min(usables)]
    IN IF usables = {} THEN Plain
       ELSE [skill |-> rule.skill, targets |-> RuleTargets(b, a, rule), side |-> rule.side]

\* A specialty is used at the end of the player's action, which is then a
\* normal attack.
ChoosesSpecialty(b) ==
    LET usables == Usables(b, "player")
    IN usables # {} /\ Gambits["player"][Min(usables)].special
Sealed(b, a) == IF a = "player" /\ ChoosesSpecialty(b) THEN Plain ELSE Chosen(b, a)

\* Targets of a part: those chosen, as far as they still stand, else the other
\* side or the actor; one or all of them.
Targets(b, a, action, k) ==
    LET self == action.side = "self" \/ (action.targets = None /\ k.target = "self")
        all  == CASE action.targets # None ->
                        SelectSeq(action.targets, LAMBDA t : t = "player" \/ t \in ToSet(b.enemies))
                  [] action.targets = None /\ self -> <<a>>
                  [] OTHER -> IF a = "player" THEN b.enemies ELSE <<"player">>
    IN IF k.all THEN all ELSE SubSeq(all, 1, Least(1, Len(all)))

-----------------------------------------------------------------------------
(* What an answer makes of the sealed action.  Whether an effect takes hold of
   a target is drawn once for the action: `hits` are those it takes hold of. *)

Successful(b, correct) == (b.sched.actor = "player") <=> correct

PartsOf(b) == Skill[b.action.skill].parts

\* A blow is its roll and what the skill adds, under the elements.
Blow(b, source, roll, amount, t) == <<t, ElementalDamage(b, roll + amount, source, t)>>

\* One attack of the player on enemies, of an enemy on the player, of an enemy
\* on the targets it chose, and of an actor on itself.
OutgoingAttack(b, amount, targets, roll, hits) ==
    {Blow(b, "player", roll, amount, t) : t \in targets \cap hits}
IncomingAttack(b, amount, roll) == {Blow(b, b.quiz, roll, amount, "player")}
EnemyTargeted(b, amount, targets, roll, hits) ==
    {Blow(b, b.quiz, roll, amount, t) : t \in targets \cap hits}
SelfAttack(b, amount, roll, hits) ==
    {Blow(b, t, roll, amount, t) : t \in {b.sched.actor} \cap hits}

\* The blows of one part, as <<target, strength>> pairs.
ComponentDamage(b, k, correct, roll, hits) ==
    LET me      == b.sched.actor
        targets == ToSet(Targets(b, me, b.action, k))
    IN UNION {IF k.effect # "attack" THEN {}
              ELSE IF k.target = "self" \/ b.action.side = "self"
              THEN SelfAttack(b, now.amount, roll, hits)
              ELSE IF me = "player" THEN OutgoingAttack(b, now.amount, targets, roll, hits)
              ELSE IF b.action.targets # None
              THEN EnemyTargeted(b, now.amount, targets, roll, hits)
              ELSE IF "player" \in hits THEN IncomingAttack(b, now.amount, roll) ELSE {} :
                 now \in AnswerEffect(k, Successful(b, correct))}

\* The blows of all parts, and one counter when the answer went against the actor.
Blows(b, correct, out, in, hits) ==
    LET me == b.sched.actor
        counter == IF Successful(b, correct) \/ ~HasCounter(Skill[b.action.skill]) THEN {}
                   ELSE IF me = "player" THEN IncomingAttack(b, 0, in)
                   ELSE OutgoingAttack(b, 0, {b.quiz}, out, hits)
    IN Worked([i \in DOMAIN PartsOf(b) |->
           ComponentDamage(b, PartsOf(b)[i], correct, IF me = "player" THEN out ELSE in, hits)])
       \o <<counter>>

Damage(blows, t) ==
    Sum(LAMBDA i : Sum(LAMBDA x : x[2], {x \in blows[i] : x[1] = t}), DOMAIN blows)

\* One part that is no blow: HP and MP now, effects from the next turn on.
ApplyPart(b, a, action, k, correct, hits, starts) ==
    LET targets == SelectSeq(Targets(b, a, action, k), LAMBDA t : t \in hits)
        each(now, acc, t) ==
            CASE k.effect \in {"heal_hp", "heal_mp", "damage_mp"} ->
                    ChangeResource(acc, k, now.amount, t)
              [] k.effect \in {"buff", "debuff", "ailment"} -> AddEffect(acc, k, now, t, starts)
              [] OTHER -> acc
    IN FoldLeft(LAMBDA acc, t : FoldSet(LAMBDA now, x : each(now, x, t), acc,
                                        AnswerEffect(k, correct)),
                b, targets)

ApplyParts(b, a, action, correct, hits, starts) ==
    FoldLeft(LAMBDA acc, k : ApplyPart(acc, a, action, k, correct, hits, starts),
             b, Skill[action.skill].parts)

\* An action is paid once, whatever the answer.
Paid(b, a, action) == [b EXCEPT !.cur["mp"][a] = Most(0, @ - Skill[action.skill].cost)]

Acted(b, a, correct, hits) ==
    ApplyParts(Paid(b, a, b.action), a, b.action, Successful(b, correct), hits, b.turn + 1)

\* The sequence of one action: an enemy's effects, the blows, the enemies' end of
\* action, what a hit brings along, the player's effects, the player's end of action
\* (both ends by the effects there were before the actor's own); then the fallen leave,
\* the turn advances, and everything derived from the effects follows.  (Faulty variant:
\* it follows before the turn.)
AfterAction(b, correct, blows, hits) ==
    LET me     == b.sched.actor
        lost   == Damage(blows, "player")
        one    == IF me = "player" THEN b ELSE Acted(b, me, correct, hits)
        two    == [one EXCEPT !.cur["hp"] = Worked([a \in Actors |->
                      IF a = "player" THEN @[a]
                      ELSE Most(0, @[a] - Least(b.cur["hp"][a], Damage(blows, a)))])]
        three  == EnemiesPeriodic(two, b)
        four   == IF lost = 0 \/ OnHit = None THEN three
                  ELSE ApplyParts(three, b.quiz, [Plain EXCEPT !.skill = OnHit],
                                  TRUE, hits, b.turn + 1)
        five   == IF me = "player" THEN Acted(four, me, correct, hits) ELSE four
    IN Periodic(five, four, "player", lost)

Advance(b) ==
    LET left == SelectSeq(b.enemies, LAMBDA e : Standing(b, e))
    IN [b EXCEPT !.enemies = left, !.turn = @ + 1, !.phase = "result",
                 !.action = IF b.sched.actor = "player" THEN @ ELSE None,
                 !.endable = @ /\ b.sched.actor = "player", !.quiz = None, !.sched.actor = None,
                 !.effects = SelectSeq(@, LAMBDA e : e.target \in ToSet(left) \cup {"player"})]

Over(b) == [b EXCEPT !.phase = "over", !.enemies = SelectSeq(@, LAMBDA e : Standing(b, e))]
IsOver(b) == ~Standing(b, "player") \/ \A e \in ToSet(b.enemies) : ~Standing(b, e)

SettledEarly(b) == SyncSpeeds(Advance(SyncBubble(b)), Ahead)
Settled(b) == SyncSpeeds(SyncBubble(Advance(b)), Ahead)

-----------------------------------------------------------------------------
(* Steps. *)

NoEffects == [turn |-> 0, phase |-> "result", enemies |-> SetToSeq(Enemies),
              effects |-> <<>>, cur |-> Base, top |-> Base, quiz |-> None, action |-> None,
              skill |-> "unused",
              endable |-> FALSE, sched |-> Schedule([a \in Actors |-> Speed[a]]),
              queue |-> Predict(Schedule([a \in Actors |-> Speed[a]]), Ahead)]

Nobody == [a \in Actors |-> [b \in Actors |-> 0]]

Init == m = NoEffects /\ struck = {} /\ since = Nobody

\* After the answer of a called skill what is stored is stale, until the save is read
\* again: every later request begins with that (restore_state).
Settling(b) == IF b.skill = "answered" THEN "used" ELSE b.skill
AsRead(b) == IF b.skill = "answered" THEN SyncSpeeds(SyncBubble(b), Ahead) ELSE b

\* Seal the next action: who acts, whose question it is, what the gambits make
\* of it; effects that are over are forgotten.
Begin ==
    /\ m.phase = "result" /\ m.turn < MaxTurn /\ m.skill # "asked"
    /\ LET synced == SyncSpeeds(m, Ahead)
           sched  == TakeNext(synced.sched)
           actor  == sched.actor
           b      == [synced EXCEPT !.sched = sched, !.phase = "sealed",
                                    !.quiz = IF actor = "player" THEN Head(m.enemies) ELSE actor,
                                    !.queue = Predict(sched, Ahead)]
       IN /\ m' = [Prune(b) EXCEPT !.action = Sealed(b, actor),
                                   !.skill = Settling(m),
                                   !.endable = ChoosesSpecialty(b)]
          /\ since' = [a \in Actors |-> IF a = actor THEN [x \in Actors |-> 0]
                                        ELSE [since[a] EXCEPT ![actor] = @ + 1]]
    /\ struck' = {}

\* The sealed question is answered, or the time for it runs out.
Settle ==
    /\ m.phase = "sealed"
    /\ \E correct \in BOOLEAN, out, in \in Rolls, hits \in Draws :
          LET blows == Blows(m, correct, out, in, hits)
              b     == AfterAction(m, correct, blows, hits)
          IN /\ m' = IF IsOver(b) THEN Over(b) ELSE Settled(b)
             /\ struck' = {a \in Actors : Damage(blows, a) > 0}
    /\ UNCHANGED since

\* One part of an end action; an enemy that falls is no target of the next part.
EndPart(acc, action, k, correct, out, hits) ==
    LET targets == ToSet(Targets(acc, "player", action, k))
        fall(b)  == [b EXCEPT !.enemies = SelectSeq(@, LAMBDA e : Standing(b, e))]
    IN IF k.effect # "attack" THEN ApplyPart(acc, "player", action, k, correct, hits, acc.turn)
       ELSE FoldSet(LAMBDA now, x :
               fall([x EXCEPT !.cur["hp"] = Worked([a \in Actors |->
                        IF a \in targets \cap hits THEN Most(0, @[a] - ElementalDamage(acc, out + now.amount, "player", a))
                        ELSE @[a]])]),
               acc, AnswerEffect(k, correct))

\* The end of the player's action: the gambits choose once more.  The effects
\* start in the current turn, blows fall at once, a wrong answer is countered.
EndAction ==
    /\ m.phase = "result" /\ m.endable
    /\ LET now     == [AsRead(m) EXCEPT !.endable = FALSE, !.skill = Settling(m)]
           action  == Chosen(now, "player")
           skill   == Skill[action.skill]
           special == ChoosesSpecialty(now)
           none    == Usables(now, "player") = {}
       IN \E correct \in BOOLEAN, out, in \in Rolls, hits \in Draws :
          LET right  == correct \/ ~special
              done   == FoldLeft(LAMBDA acc, k : EndPart(acc, action, k, right, out, hits),
                                 Paid(now, "player", action), skill.parts)
              last   == IF right \/ ~HasCounter(skill) THEN done
                        ELSE [done EXCEPT !.cur["hp"]["player"] = Most(0, @ - in)]
          IN IF none
             THEN m' = now /\ struck' = {}
             ELSE /\ m' = IF IsOver(last) THEN Over(last) ELSE SyncSpeeds(SyncBubble(last), Ahead)
                  /\ struck' = {a \in Actors : last.cur["hp"][a] < m.cur["hp"][a]}
    /\ UNCHANGED since

\* Once in a battle the player calls a skill on the result screen.
CallSkill ==
    /\ m.phase = "result" /\ m.turn \in CallTurns \cap 1 .. MaxTurn - 1 /\ m.skill = "unused"
    /\ m.cur["mp"]["player"] >= SkillCost
    /\ m' = [m EXCEPT !.skill = "asked", !.cur["mp"]["player"] = @ - SkillCost]
    /\ struck' = {}
    /\ UNCHANGED since

\* What the answer of a called skill makes of the battle: the action that is still sealed
\* takes effect again, if it can be paid; enemies fall by the HP that the screen names; the
\* turn advances.  Speeds and forecast are left as they were.
Called(correct, lost, hits, felled) ==
    LET again == IF m.action = None \/ Skill[m.action.skill].cost > m.cur["mp"]["player"] THEN m
                 ELSE ApplyParts(Paid(m, "player", m.action), "player", m.action, correct,
                                 hits, m.turn + 1)
        done  == Periodic(again, m, "player", lost)
    IN [done EXCEPT !.enemies = SelectSeq(@, LAMBDA e : e \notin felled),
                    !.effects = SelectSeq(@, LAMBDA e : e.target \notin felled),
                    !.turn = @ + 1, !.endable = TRUE, !.skill = "answered"]

AnswerSkill ==
    /\ m.phase = "result" /\ m.skill = "asked"
    /\ \E correct \in BOOLEAN, hits \in Draws :
       \E lost \in IF correct THEN {0} ELSE Rolls,
          felled \in IF correct THEN SUBSET ToSet(m.enemies) ELSE {{}} :
          /\ LET b == Called(correct, lost, hits, felled)
             IN m' = IF ~Standing(b, "player") \/ b.enemies = <<>>
                     THEN [b EXCEPT !.phase = "over"] ELSE SyncBubble(b)
          /\ struck' = IF lost = 0 THEN {} ELSE {"player"}
    /\ UNCHANGED since

Next == Begin \/ Settle \/ EndAction \/ CallSkill \/ AnswerSkill

-----------------------------------------------------------------------------
(* Properties. *)

\* Types and bounds.
BattleTypeOK ==
    /\ m.turn \in 0 .. MaxTurn /\ m.phase \in {"sealed", "result", "over"}
    /\ ToSet(m.enemies) \subseteq Enemies /\ IsInjective(m.enemies)
    /\ \A r \in Resources, a \in Actors : m.cur[r][a] \in 0 .. m.top[r][a]
    /\ Len(m.effects) <= MaxEffects
    /\ ToSet(m.queue) \subseteq Actors

\* What is derived from the effects is never stale while the battle can be
\* seen: greatest HP and MP and the speeds are those the effects active in the
\* current turn make, whichever step brought the turn or the effects there.  The speeds
\* that the answer of a called skill leaves are those from before it (combat.py:785).
DerivedFollowsEffects ==
    m.phase # "over" =>
       /\ \A r \in Resources, a \in ToSet(m.enemies) \cup {"player"} : m.top[r][a] = TopOf(m, r, a)
       /\ m.skill # "answered" =>
             m.sched.speeds = [a \in ToSet(m.enemies) \cup {"player"} |-> ModifiedSpeed(m, a)]

\* "Stackable up to the limit": no actor carries more effects of one part than
\* its limit, whether they were given by actions, hits or end actions.
StackLimit ==
    \A i \in DOMAIN m.effects :
       LET e == m.effects[i]
       IN Cardinality({j \in DOMAIN m.effects :
             m.effects[j].part.id = e.part.id /\ m.effects[j].target = e.target}) <= e.part.limit

\* The forecast names only actors that stand, the one whose action is sealed
\* first; but for the forecast shown with the answer of a called skill.
ForecastOfStanding ==
    m.phase # "over" /\ m.skill # "answered" =>
       /\ ToSet(m.queue) \subseteq ToSet(m.enemies) \cup {"player"}
       /\ m.phase = "sealed" => Head(m.queue) = m.sched.actor

\* Nothing that is stored beside the effects contradicts them, at any step, except speeds
\* and forecast between the answer of a called skill and the next read of the save.
NothingStale == BattleTypeOK /\ DerivedFollowsEffects /\ StackLimit /\ ForecastOfStanding

\* Faster actors act more often, but nobody is passed over: between two actions
\* of a standing actor another acts at most three times, whatever speeds the
\* effects give them (one interval is at most twice another).
NobodyStarves ==
    \A a \in ToSet(m.enemies) \cup {"player"} :
       \A b \in Actors \ {a} : since[a][b] <= 3

\* Only a blow brings an enemy down (poison and shrinking HP leave it a point),
\* nobody who fell stands up again, and nobody who is not struck loses the last
\* HP but a poisoned player.
LivesAndDeaths ==
    [][\A a \in Actors :
          /\ m.cur["hp"][a] = 0 => m'.cur["hp"][a] = 0
          /\ (m.cur["hp"][a] > 0 /\ m'.cur["hp"][a] = 0) =>
                \/ a \in struck'
                \/ a = "player" /\ ActiveOn(m, a, {"ailment"}, "poison") # {}]_battleVars

\* The forecast shown with a result is kept: the actor named first acts next.  Of the
\* answer of a called skill this holds only for the forecast that is shown when the save is
\* read again.
ForecastKept ==
    [][m.phase = "result" /\ m'.phase = "sealed" =>
          m'.sched.actor = Head(AsRead(m).queue)]_battleVars

Spec == Init /\ [][Next]_battleVars
=============================================================================
