-------------------------- MODULE MCScheduledBattle --------------------------
(* Small instances of ScheduledBattle. *)
EXTENDS ScheduledBattle

CONSTANTS e1, e2

MCEnemies  == {e1, e2}
MCInterval == (1 :> 16) @@ (2 :> 8)
MCLot(step, a) == IF a = "player" THEN step % 2 ELSE IF a = e1 THEN 0 ELSE 2
MCBase == [r \in {"hp", "mp"} |->
             IF r = "hp" THEN ("player" :> 5) @@ (e1 :> 3) @@ (e2 :> 2)
             ELSE ("player" :> 3) @@ (e1 :> 2) @@ (e2 :> 0)]
MCSpeed == ("player" :> 1) @@ (e1 :> 1) @@ (e2 :> 2)
MCAffinity == ("player" :> 100) @@ (e1 :> 100) @@ (e2 :> 150)
MCRolls == {0, 1}
MCDraws == {{"player", e1, e2}, {"player"}, {e1, e2}}

Part(id, effect, stat, amount, turns, limit, target, all, wrong) ==
    [id |-> id, effect |-> effect, stat |-> stat, amount |-> amount, turns |-> turns,
     limit |-> limit, target |-> target, all |-> all, wrong |-> wrong]
No      == [type |-> "none"]
Counter == [type |-> "counter"]
Less(amount, turns) == [type |-> "reduced", amount |-> amount, turns |-> turns]
Skl(cost, parts) == [cost |-> cost, parts |-> parts]

MCSkill ==
    [attack |-> Skl(0, <<Part("a", "attack", "hp", 0, 0, 1, "enemy", FALSE, Counter)>>),
     haste  |-> Skl(1, <<Part("h", "buff", "speed", 1, 1, 1, "self", FALSE, No),
                         Part("g", "buff", "maxHp", 50, 2, 2, "self", FALSE, No)>>),
     rage   |-> Skl(1, <<Part("d", "buff", "damageDealt", 100, 2, 1, "self", FALSE, No)>>),
     venom  |-> Skl(1, <<Part("v", "ailment", "poison", 1, 2, 2, "enemy", FALSE, Less(0, 1)),
                         Part("s", "debuff", "maxHp", 50, 1, 1, "enemy", FALSE, No)>>),
     mend   |-> Skl(1, <<Part("m", "heal_hp", "hp", 1, 0, 1, "self", FALSE, No),
                         Part("r", "ailment", "regen", 1, 1, 1, "self", FALSE, Less(0, 0))>>),
     drain  |-> Skl(0, <<Part("d", "damage_mp", "mp", 1, 0, 1, "enemy", TRUE, Counter),
                         Part("c", "ailment", "curse", 1, None, 1, "enemy", TRUE, No)>>),
     sting  |-> Skl(0, <<Part("t", "ailment", "poison", 1, 1, 1, "enemy", FALSE, No)>>)]

Rule(skill, side, kind, res, bound, id, special) ==
    [skill |-> skill, side |-> side, special |-> special,
     when |-> [kind |-> kind, res |-> res, bound |-> bound, id |-> id]]

MCGambits ==
    ("player" :> <<Rule("mend", "self", "below", "hp", 50, "", FALSE),
                   Rule("venom", "enemy", "absent", "hp", 0, "v", TRUE),
                   Rule("haste", "self", "absent", "hp", 0, "h", FALSE),
                   Rule("venom", "enemy", "lowest", "hp", 0, "", TRUE)>>)
    @@ (e1 :> <<Rule("venom", "enemy", "above", "hp", 50, "", FALSE),
               Rule("rage", "self", "absent", "hp", 0, "d", FALSE)>>)
    @@ (e2 :> <<Rule("drain", "enemy", "count", "hp", 1, "", FALSE),
                Rule("mend", "ally", "lowest", "hp", 0, "", FALSE)>>)
=============================================================================
