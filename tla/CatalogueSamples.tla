--------------------------- MODULE CatalogueSamples ---------------------------
(* Documents small enough to enumerate: a template and a variant of it, a skill
   that refers to them, one that stands alone, an item, an enemy and its gambits.
   Every choice is one of the forms a stored document has had.                 *)
EXTENDS CatalogueRules, TLC

Root == [base |-> None, picks |-> <<>>, sets |-> {"size"}, cost |-> 2,
         own |-> [effect |-> "attack", multiplier |-> 2, wrong |-> "reduced by half"]]
VariantOf(b, own, picks, sets) == [base |-> b, picks |-> picks, sets |-> sets, cost |-> 0, own |-> own]
TemplateForms ==
    {VariantOf("root", [amount |-> 5], <<>>, {"inherited"}),
     VariantOf("root", [effect |-> "buff", multiplier |-> 3], <<>>, {"size"}),
     VariantOf("root", [effect |-> "equip"], <<>>, {}),
     VariantOf("root", <<>>, "size" :> "big", {}),
     VariantOf("variant", [amount |-> 5], <<>>, {})}

Alone(effect) == <<[effect |-> effect, amount |-> 3]>>
SkillOf(refs, many, effects, cost, old) ==
    [refs |-> refs, many |-> many, effects |-> effects, cost |-> cost, element |-> None, old |-> old]
Unmarked  == [castable |-> TRUE, specialty |-> FALSE, factor |-> FALSE]
Specialty == [castable |-> TRUE, specialty |-> TRUE, factor |-> TRUE]
SkillForms ==
    {SkillOf(<<"root">>, FALSE, <<>>, None, Unmarked),
     SkillOf(<<"variant">>, FALSE, <<>>, 1, Unmarked),
     SkillOf(<<"root", "variant">>, TRUE, <<>>, 1, Unmarked),
     SkillOf(<<>>, FALSE, Alone("heal"), 1, Specialty)}

TriggerOf(condition, skill, variants, set) ==
    [condition |-> condition, skill |-> skill, variants |-> variants, set |-> set]
TriggerForms ==
    {TriggerOf("gone", None, <<>>, None),
     TriggerOf("state", None, <<>>, None),
     TriggerOf("state", "power", <<>>, "states"),
     TriggerOf("state", "power", [v1 |-> [base |-> None, skill |-> "power"],
                                  v2 |-> [base |-> "v1", skill |-> None]], None)}

Rule(t, v) == [trigger |-> t, variant |-> v, skill |-> "skill"]
ShopForms == {None, {[item |-> "sword", trigger |-> None, variant |-> None],
                     [item |-> None, trigger |-> "trigger", variant |-> None]},
              {[item |-> None, trigger |-> "trigger", variant |-> "v1"]}}

Document(t, s, g, shop, ruled) ==
    [version |-> 0, sets |-> "size" :> [field |-> "amount", values |-> "big" :> 9],
     templates |-> "root" :> Root @@ "variant" :> t,
     skills |-> "skill" :> s @@ "power" :> SkillOf(<<>>, FALSE, Alone("buff"), 0, Unmarked),
     players |-> None, specialty |-> None,
     items |-> "sword" :> [skill |-> "power", weapon |-> TRUE, price |-> TRUE],
     shop |-> shop, rewards |-> {"sword"},
     enemies |-> "boss" :> [boss |-> TRUE, power |-> 1, rules |-> {Rule("trigger", None)},
                            group |-> IF ruled THEN "gambits" ELSE None,
                            attack |-> IF ruled THEN "skill" ELSE None],
     groups |-> "gambits" :> {Rule("always", None), Rule("trigger", None)},
     elements |-> {},
     triggers |-> "always" :> TriggerOf("always", None, <<>>, None) @@ "trigger" :> g,
     triggerSets |-> "states" :> ("v1" :> "power")]

Samples ==
    {Document(t, s, g, shop, ruled) :
        t \in TemplateForms, s \in SkillForms, g \in TriggerForms, shop \in ShopForms, ruled \in BOOLEAN}

Additions ==
    {[items |-> "potion" :> [skill |-> "skill", weapon |-> FALSE, price |-> FALSE]],
     [templates |-> "root" :> [Root EXCEPT !.own = [effect |-> "heal", wrong |-> "reduced"]]]}

\* The document of a new database, before the common factors.
BuiltIn ==
    [Document(VariantOf("root", [amount |-> 5], <<>>, {}), SkillOf(<<"root">>, TRUE, <<>>, 1, Unmarked),
              TriggerOf("always", None, <<>>, None), None, FALSE) EXCEPT !.shop = {}]
=============================================================================
