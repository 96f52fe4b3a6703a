---------------------------- MODULE CatalogueRules ----------------------------
(* The game's catalogue as a document: effect templates with their variants,
   skills that refer to templates, items, shop, enemies and gambits that refer to
   skills and triggers.  A stored document is read by migrating what is old,
   resolving every reference and checking the whole; saving keeps references
   instead of the values they resolve to.  Sections are functions from ids.    *)
EXTENDS Naturals, SequencesExt

CONSTANTS MaxBases, Required, None

\* What is new replaces what is old.
Over(new, old) == [k \in DOMAIN new \cup DOMAIN old |-> IF k \in DOMAIN new THEN new[k] ELSE old[k]]
Put(docs, k, doc) == Over([i \in {k} |-> doc], docs)

---------------------------------------------------------------------------
(* Effects and their templates.                                               *)

\* What an effect of each kind is made of, and what a field is if not given.
Model(effect) ==
    {"effect", "amount"} \cup
    (CASE effect = "attack" -> {"multiplier", "wrong"}
       [] effect = "heal"   -> {"wrong"}
       [] effect = "buff"   -> {"turns", "wrong"}
       [] effect = "equip"  -> {})
Kinds == {"attack", "heal", "buff", "equip"}
DefaultOf == [amount |-> 0, multiplier |-> 1, turns |-> 3, wrong |-> "fizzle"]
Fields == {"effect"} \cup DOMAIN DefaultOf
Valid1(values) ==
    /\ DOMAIN values = Model(values.effect)
    /\ "multiplier" \in DOMAIN values => values.multiplier <= 10

\* A reduced result keeps what the kind of the effect has a use for.
Result(effect, wrong) ==
    IF wrong \in {"reduced", "reduced by half"}
    THEN (IF effect = "attack" THEN "reduced by half" ELSE "reduced") ELSE wrong

\* A variant's values: what it does not change comes from its base; what its
\* kind has no use for is dropped.
Vary(base, changes) ==
    LET all  == changes @@ base @@ DefaultOf
        kind == Model(all.effect)
    IN [f \in kind |-> IF f = "wrong" /\ f \notin DOMAIN changes
                       THEN Result(all.effect, all.wrong) ELSE all[f]]

\* Shared sets offer candidates for one field each.
Attached(sets, ids) ==
    /\ ids \subseteq DOMAIN sets
    /\ \A a, b \in ids : sets[a].field = sets[b].field => a = b
Chosen(sets, picks) ==
    [f \in {sets[s].field : s \in DOMAIN picks} |->
       LET s == CHOOSE s \in DOMAIN picks : sets[s].field = f IN sets[s].values[picks[s]]]
\* Every candidate is tried before anybody picks it.
AllFit(values, sets, ids) ==
    /\ Attached(sets, ids)
    /\ \A s \in ids : /\ sets[s].field \in DOMAIN values
                      /\ \A v \in Range(sets[s].values) : Valid1(Vary(values, sets[s].field :> v))

\* Bases are followed to a root, at most MaxBases of them and never in a circle.
AtMost(base, depth) ==
    LET ids[n \in 0 .. depth] ==
          IF n = 0 THEN {id \in DOMAIN base : base[id] = None}
          ELSE ids[n - 1] \cup {id \in DOMAIN base : base[id] \in ids[n - 1]}
    IN ids[depth]
Rooted(base) == DOMAIN base \subseteq AtMost(base, MaxBases)
Bases(entries) == [id \in DOMAIN entries |-> entries[id].base]

\* [base, own, sets, picks] of every template, with its values.
Resolved(doc, id) ==
    LET resolved[i \in DOMAIN doc.templates] ==
          LET t == doc.templates[i]
          IN IF t.base = None THEN [values |-> t.own @@ [f \in Model(t.own.effect) \ {"effect"} |-> DefaultOf[f]],
                                    own |-> <<>>, sets |-> t.sets]
             ELSE LET b       == resolved[t.base]
                      changes == IF t.picks # <<>> THEN Chosen(doc.sets, t.picks) ELSE t.own
                      values  == Vary(b.values, changes)
                  IN [values |-> values,
                      own  |-> IF t.picks # <<>> THEN <<>> ELSE Restrict(t.own, DOMAIN t.own \cap DOMAIN values),
                      sets |-> IF t.picks # <<>> THEN {}
                               ELSE IF t.sets = {"inherited"} THEN b.sets ELSE t.sets]
    IN resolved[id]

TemplateOK(doc, id) ==
    LET t == doc.templates[id]
    IN IF t.base = None THEN t.picks = <<>> /\ AllFit(Resolved(doc, id).values, doc.sets, t.sets)
       ELSE LET b == Resolved(doc, t.base)
            IN /\ t.own = <<>> \/ t.picks = <<>>
               /\ DOMAIN t.own \subseteq Fields /\ DOMAIN t.picks \subseteq b.sets
               /\ \A s \in DOMAIN t.picks : t.picks[s] \in DOMAIN doc.sets[s].values
               /\ DOMAIN Chosen(doc.sets, t.picks) \subseteq DOMAIN Resolved(doc, id).values
               /\ AllFit(Resolved(doc, id).values, doc.sets, Resolved(doc, id).sets)
TemplatesOK(doc) ==
    /\ Rooted(Bases(doc.templates))
    /\ \A id \in DOMAIN doc.templates : TemplateOK(doc, id)

---------------------------------------------------------------------------
(* Skills.                                                                    *)

\* A skill of several references has their effects; the cost is its own, or, for
\* the one reference of an old skill, what the old template asked.
CostOfTemplate(doc, s) ==
    IF s.refs # <<>> /\ ~s.many THEN doc.templates[s.refs[1]].cost ELSE 0
CostOf(doc, s) == IF s.cost # None THEN s.cost ELSE CostOfTemplate(doc, s)
Effects(doc, s) ==
    IF s.refs = <<>> THEN s.effects
    ELSE [i \in DOMAIN s.refs |-> Resolved(doc, s.refs[i]).values]
ReferencesOK(doc) ==
    \A s \in Range(doc.skills) : IsInjective(s.refs) /\ Range(s.refs) \subseteq DOMAIN doc.templates

\* An old specialty lowered a wrong answer's effect by a factor of its own.
Uses(doc) == IF doc.specialty # None THEN doc.specialty
             ELSE [id \in {i \in DOMAIN doc.skills : doc.skills[i].old.specialty} |->
                     doc.skills[id].old.factor]
WithResult(e, factor) ==
    IF "wrong" \in DOMAIN e \/ e.effect = "equip" THEN e
    ELSE ("wrong" :> IF factor THEN Result(e.effect, "reduced") ELSE DefaultOf.wrong) @@ e
Skill(doc, id) ==
    LET s == doc.skills[id]
        factor == id \in DOMAIN Uses(doc) /\ Uses(doc)[id]
    IN [effects |-> [i \in DOMAIN Effects(doc, s) |-> WithResult(Effects(doc, s)[i], factor)],
        refs |-> s.refs, many |-> s.many, cost |-> CostOf(doc, s), element |-> s.element]

\* Who may use a skill was once marked at the skill.
Players(doc) ==
    IF doc.players # None THEN doc.players
    ELSE {id \in DOMAIN doc.skills :
            /\ doc.skills[id].old.castable /\ ~doc.skills[id].old.specialty
            /\ id # "normal_attack"
            /\ Effects(doc, doc.skills[id])[1].effect # "equip"
            /\ \A i \in DOMAIN doc.items : doc.items[i].weapon => doc.items[i].skill # id}

---------------------------------------------------------------------------
(* Triggers of gambits, their variants and the sets these are drawn from.      *)

SupportedTrigger(t) == t.condition \in {"always", "state"} /\ (t.condition = "state" => t.skill # None)

\* An old trigger took all candidates of one set as its variants.
Variants(doc, t) ==
    IF t.set = None THEN t.variants
    ELSE [v \in DOMAIN doc.triggerSets[t.set] |-> [base |-> None, skill |-> doc.triggerSets[t.set][v]]]
VariantSkill(t, vs, id) ==
    LET skill[v \in DOMAIN vs] ==
          IF vs[v].skill # None THEN vs[v].skill
          ELSE IF vs[v].base = None THEN t.skill ELSE skill[vs[v].base]
    IN skill[id]
Trigger(doc, id) ==
    LET t == doc.triggers[id] IN [t EXCEPT !.variants = Variants(doc, t), !.set = None]
TriggersOK(doc) ==
    \A t \in Range(doc.triggers) :
        /\ t.set # None => t.set \in DOMAIN doc.triggerSets
        /\ t.set = None => Rooted(Bases(t.variants))

\* What refers to a trigger that is not known any more goes with it.  So does a shop that
\* was never stored: the empty one it leaves is not filled from the old prices.
\* (Faulty variant: the shop goes on selling it.)
SoldAll(doc, rejected) == doc.shop
Sold(doc, rejected) == IF doc.shop = None THEN {} ELSE {p \in doc.shop : p.trigger \notin rejected}
KeptRules(rules, rejected) == {r \in rules : r.trigger \notin rejected}
Without(enemy, rejected) == [enemy EXCEPT !.rules = KeptRules(enemy.rules, rejected)]
Rejected(doc) == {id \in DOMAIN doc.triggers : ~SupportedTrigger(doc.triggers[id])}
Supported(doc) ==
    LET rejected == Rejected(doc)
    IN [doc EXCEPT !.triggers = Restrict(@, DOMAIN @ \ rejected),
                   !.enemies = [e \in DOMAIN @ |-> Without(@[e], rejected)],
                   !.groups = [g \in DOMAIN @ |-> KeptRules(@[g], rejected)],
                   !.shop = IF rejected = {} THEN @ ELSE Sold(doc, rejected)]

---------------------------------------------------------------------------
(* Reading, checking, storing.                                                *)

Listed(doc) ==
    IF doc.shop # None THEN doc.shop
    ELSE {[item |-> i, trigger |-> None, variant |-> None] :
            i \in {j \in DOMAIN doc.items : doc.items[j].price}}
NormalAttack == [effects |-> <<[effect |-> "attack", amount |-> 0, multiplier |-> 1, wrong |-> "counter"]>>,
                 refs |-> <<>>, many |-> FALSE, cost |-> 0, element |-> None]

\* The catalogue a document stands for, if its references can be followed.
Resolvable(doc) == TemplatesOK(doc) /\ ReferencesOK(doc) /\ TriggersOK(doc)
Catalogue(doc) ==
    [templates |-> [id \in DOMAIN doc.templates |-> Resolved(doc, id)],
     sets |-> doc.sets, raw |-> doc.templates,
     skills |-> [id \in DOMAIN doc.skills |-> Skill(doc, id)],
     players |-> Players(doc), specialty |-> Uses(doc),
     items |-> doc.items, shop |-> Listed(doc), rewards |-> doc.rewards,
     enemies |-> doc.enemies, groups |-> doc.groups, elements |-> doc.elements,
     triggers |-> [id \in DOMAIN doc.triggers |-> Trigger(doc, id)],
     triggerSets |-> doc.triggerSets]

HasVariant(cat, trigger, variant) ==
    /\ trigger \in DOMAIN cat.triggers
    /\ variant # None => variant \in DOMAIN cat.triggers[trigger].variants
OfKind(cat, skill, kinds) ==
    skill \in DOMAIN cat.skills /\ \E i \in DOMAIN cat.skills[skill].effects :
        cat.skills[skill].effects[i].effect \in kinds
OnlyKind(cat, skill, kinds) ==
    skill \in DOMAIN cat.skills /\ \A i \in DOMAIN cat.skills[skill].effects :
        cat.skills[skill].effects[i].effect \in kinds

ValidRewards(cat) == cat.rewards \subseteq DOMAIN cat.items
ValidShop(cat) ==
    \A p \in cat.shop : IF p.trigger = None THEN p.item \in DOMAIN cat.items
                        ELSE HasVariant(cat, p.trigger, p.variant)
ValidElements(cat) ==
    {cat.skills[s].element : s \in DOMAIN cat.skills} \ {None} \subseteq cat.elements
ValidUses(cat) == cat.players \cup DOMAIN cat.specialty \subseteq DOMAIN cat.skills
ValidCombinations(cat) ==
    \A s \in Range(cat.skills) : Len(s.effects) > 1 =>
        \A i \in DOMAIN s.effects : s.effects[i].effect # "equip"
ValidItems(cat) ==
    \A i \in Range(cat.items) :
        IF i.weapon THEN OnlyKind(cat, i.skill, {"buff", "equip"})
        ELSE i.skill \in DOMAIN cat.skills /\ cat.skills[i.skill].effects[1].effect # "equip"
ValidTriggers(cat) ==
    /\ \A t \in Range(cat.triggers) : t.condition = "state" =>
         OfKind(cat, t.skill, {"buff"}) /\ \A v \in DOMAIN t.variants :
                 OfKind(cat, VariantSkill(t, t.variants, v), {"buff"})
    /\ \A s \in Range(cat.triggerSets) : \A v \in Range(s) : OfKind(cat, v, {"buff"})
ValidRule(cat, r) ==
    HasVariant(cat, r.trigger, r.variant) /\ OnlyKind(cat, r.skill, Kinds \ {"equip"})
ValidEnemies(cat) ==
    /\ \A g \in Range(cat.groups) : \A r \in g : ValidRule(cat, r)
    /\ \A e \in Range(cat.enemies) :
         /\ e.group # None => e.group \in DOMAIN cat.groups
         /\ \A r \in e.rules : ValidRule(cat, r)
         /\ e.attack # None => OfKind(cat, e.attack, {"attack"})
ValidNormal(cat) ==
    "normal_attack" \in DOMAIN cat.skills =>
        /\ cat.skills["normal_attack"].effects = NormalAttack.effects
        /\ cat.skills["normal_attack"].cost = 0
Valid(cat) ==
    /\ ValidRewards(cat) /\ ValidShop(cat) /\ ValidElements(cat) /\ ValidUses(cat)
    /\ ValidCombinations(cat) /\ ValidItems(cat) /\ ValidTriggers(cat)
    /\ ValidEnemies(cat) /\ ValidNormal(cat)

\* A document as it is read; a player can always strike.
Readable(doc) == Resolvable(Supported(doc)) /\ Valid(Catalogue(Supported(doc)))
WithStrike(skills) == skills @@ ("normal_attack" :> NormalAttack)
Read(doc) ==
    LET cat == Catalogue(Supported(doc))
    IN [cat EXCEPT !.skills = WithStrike(@)]

\* What is saved: a variant's changes, a skill's references, no derived value.
OwnOf(t) == t.own
Stored(cat) ==
    [version |-> 1, sets |-> cat.sets,
     templates |-> [id \in DOMAIN cat.templates |->
        LET t == cat.templates[id] IN
        [base |-> cat.raw[id].base, picks |-> cat.raw[id].picks, sets |-> t.sets, cost |-> 0,
         own |-> IF cat.raw[id].base = None THEN t.values ELSE OwnOf(t)]],
     skills |-> [id \in DOMAIN cat.skills |->
        LET s == cat.skills[id] IN
        [refs |-> s.refs, many |-> s.many, cost |-> s.cost, element |-> s.element,
         effects |-> IF s.refs = <<>> THEN s.effects ELSE <<>>,
         old |-> [castable |-> TRUE, specialty |-> FALSE, factor |-> FALSE]]],
     players |-> cat.players, specialty |-> cat.specialty, items |-> cat.items,
     shop |-> cat.shop, rewards |-> cat.rewards, enemies |-> cat.enemies,
     groups |-> cat.groups, elements |-> cat.elements, triggers |-> cat.triggers,
     triggerSets |-> cat.triggerSets]

\* Two catalogues that no use can tell apart.
Same(a, b) ==
    /\ [id \in DOMAIN a.templates |-> a.templates[id].values]
        = [id \in DOMAIN b.templates |-> b.templates[id].values]
    /\ \A s \in DOMAIN a \ {"templates", "raw"} : a[s] = b[s]

---------------------------------------------------------------------------
(* Old common factors of all bosses, and files of settings.                    *)

\* Enemies of a document without the version take the factor in, once.
Strengthened(enemy, factor) ==
    IF enemy.boss THEN [enemy EXCEPT !.power = enemy.power * factor] ELSE enemy
Scaled(doc, factor) ==
    [doc EXCEPT !.version = 1,
                !.enemies = [e \in DOMAIN doc.enemies |-> Strengthened(doc.enemies[e], factor)]]
Consolidated(doc, factor) == IF doc.version = 1 THEN doc ELSE Scaled(doc, factor)

\* Entries of a file replace those with their ids; the others stay.
Merged(cat, patch) ==
    LET doc == Stored(cat)
    IN [s \in DOMAIN doc |-> IF s \in DOMAIN patch
                             THEN (IF s \in {"players", "shop", "rewards", "elements"}
                                   THEN patch[s] \cup doc[s] ELSE Over(patch[s], doc[s]))
                             ELSE doc[s]]
MayReplace(cat) == Required \subseteq DOMAIN cat.items
=============================================================================
