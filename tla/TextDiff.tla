------------------------------- MODULE TextDiff -------------------------------
(* What a new version of a text changes in the stored one.  A network is a
   record [sents, edges, defs]: sentences, typed edges between sentences (and
   the root), and pairs <<term, sentence>>.  A sentence is <<text, mark>>: the
   mark is empty for a plain sentence; a duplicable one ("+++ x +++") carries an
   identity of its own, "old" when restored and "new" when parsed, so that it is
   never equal to what it was.  Identifications are sets of pairs <<old, new>>. *)
EXTENDS Integers, FiniteSets

CONSTANTS Ratio(_, _),      \* similarity of two texts or terms, in percent
          Nothing           \* an old sentence resolved to have no successor

Threshold == 60
Margin    == 10

Firsts(pairs)  == {p[1] : p \in pairs}
Seconds(pairs) == {p[2] : p \in pairs}
Plain(s) == s[2] = ""

\* Pairs that lead every rival of either side clearly.
Confident(cand) ==
    {p \in cand : \A q \in cand \ {p} :
        p[1] = q[1] \/ p[2] = q[2] => Ratio(p[1], p[2]) - Ratio(q[1], q[2]) >= Margin}

Unmatched(cand, matched) ==
    {p \in cand : p[1] \notin Firsts(matched) /\ p[2] \notin Seconds(matched)}

Ambiguous(cand) ==
    {p[1] : p \in {p \in cand : \E q \in cand \ {p} : p[1] = q[1] \/ p[2] = q[2]}}

Valid(removed, added, resolutions) ==
    LET chosen == {p \in resolutions : p[2] # Nothing}
    IN /\ Firsts(resolutions) \subseteq removed
       /\ Seconds(chosen) \subseteq added
       /\ Cardinality(Seconds(chosen)) = Cardinality(chosen)

\* Which removed text became which added one; a doubt is the user's to settle.
Identify(removed, added, resolutions) ==
    LET resolved == {p \in resolutions : p[2] # Nothing}
        cand == {p \in (removed \ Firsts(resolutions)) \X (added \ Seconds(resolved)) :
                    Ratio(p[1], p[2]) > Threshold}
        sure == Confident(cand)
        rest == Unmatched(cand, sure)
    IN [outcome |-> IF ~Valid(removed, added, resolutions) THEN "invalid"
                    ELSE IF Ambiguous(rest) # {} THEN "conflict" ELSE "ok",
        pairs   |-> resolved \cup sure \cup rest]

Override(pairs, by) == {p \in pairs : p[1] \notin Firsts(by)} \cup by

\* A sentence that became duplicable, or ceased to be, keeps the term's node.
DuplicatePairs(old, new) ==
    {<<p[1][2], p[2][2]>> : p \in {p \in old.defs \X new.defs :
        /\ p[1][1] = p[2][1]
        /\ p[1][2] # p[2][2]
        /\ ~Plain(p[1][2]) \/ ~Plain(p[2][2])}}

\* Terms that changed places on sentences that stay.
Switched(old, new) ==
    {<<p[1][1], p[2][1]>> : p \in {p \in old.defs \X new.defs :
        p[1][2] = p[2][2] /\ p[1][1] # p[2][1]}}

\* (Faulty variant: every stored sentence is replaced.)
SentenceDiffAll(old, new, resolutions) ==
    [outcome |-> "ok", updated |-> {}, removed |-> old.sents, added |-> new.sents]
SentenceDiff(old, new, resolutions) ==
    LET removed == old.sents \ new.sents
        added   == new.sents \ old.sents
        plain   == Identify({s[1] : s \in {s \in removed : Plain(s)}},
                            {s[1] : s \in {s \in added : Plain(s)}}, resolutions)
        updated == Override({<<<<p[1], "">>, <<p[2], "">>>> : p \in plain.pairs},
                            DuplicatePairs(old, new))
    IN [outcome |-> plain.outcome, updated |-> updated,
        removed |-> removed \ Firsts(updated), added |-> added \ Seconds(updated)]

TermDiff(old, new, resolutions) ==
    LET removed == Firsts(old.defs) \ Firsts(new.defs)
        added   == Firsts(new.defs) \ Firsts(old.defs)
        alike   == Identify(removed, added, resolutions)
        updated == Override(alike.pairs, Switched(old, new))
    IN [outcome |-> alike.outcome, updated |-> updated,
        removed |-> removed \ Firsts(updated), added |-> added \ Seconds(updated)]

Renamed(updated, s) ==
    IF s \in Firsts(updated) THEN (CHOOSE p \in updated : p[1] = s)[2] ELSE s

\* Edges compared with the changed sentences taken for the same.  (Faulty
\* variant: the stored names are compared, and only added edges are found.)
EdgeDiffPlain(old, new, updated) == [removed |-> {}, added |-> new.edges \ old.edges]
EdgeDiff(old, new, updated) ==
    LET moved(e) == <<Renamed(updated, e[1]), Renamed(updated, e[2]), e[3]>>
        kept     == {moved(e) : e \in old.edges}
    IN [removed |-> {CHOOSE e \in old.edges : moved(e) = k : k \in kept \ new.edges},
        added   |-> new.edges \ kept]

Plan(old, new, resolutions, termResolutions) ==
    LET s == SentenceDiff(old, new, resolutions)
        t == TermDiff(old, new, termResolutions)
    IN [outcome |-> IF s.outcome # "ok" THEN s.outcome ELSE t.outcome,
        sents   |-> s, terms |-> t, edges |-> EdgeDiff(old, new, s.updated)]

NothingToWrite(plan) ==
    /\ plan.sents.removed \cup plan.sents.added = {}
    /\ plan.terms.removed \cup plan.terms.added \cup plan.terms.updated = {}
    /\ \A p \in plan.sents.updated : p[1][1] = p[2][1] /\ Plain(p[1]) = Plain(p[2])
=============================================================================
