------------------------------ MODULE TextGraph ------------------------------
(* The shared graph of one user: entries of the namespace, the stored sentences
   of a titled text with their relations and terms, and the quizzes and answers
   that refer to them.  A graph is a record [tree, res, nodes, edges, defs, quiz,
   answers, next, clock]; the operators are its queries.                      *)
EXTENDS TextDiff, Sequences, SequencesExt, Functions, Relation

CONSTANTS None,
          Texts,              \* text -> [sents, edges, defs] over plain names
          Duplicables,        \* sentences written "+++ ... +++"
          Title

\* f, and of g what f leaves open: @@ and :> of TLC, spelled out for the prover.
f ++ g == [x \in DOMAIN f \cup DOMAIN g |-> IF x \in DOMAIN f THEN f[x] ELSE g[x]]
Only(x, value) == [y \in {x} |-> value]

User == 0                     \* parent of the top entries
Detached == 1                 \* parent of an entry no path leads to
FirstId == 2

---------------------------------------------------------------------------
(* Namespace: entries are [kind, name, parent].                              *)

Named(tree, parent, name) ==
    {e \in DOMAIN tree : tree[e].parent = parent /\ tree[e].name = name}

\* One name further down; below the top an ambiguous name leads nowhere.
Child(tree, parent, name) ==
    LET found == Named(tree, parent, name)
    IN IF found = {} \/ (parent # User /\ Cardinality(found) > 1) THEN None
       ELSE CHOOSE e \in found : \A f \in found : e >= f

At(tree, names) ==
    FoldLeft(LAMBDA p, n : IF p = None THEN None ELSE Child(tree, p, n), User, names)

Reached(tree) ==
    {e \in DOMAIN tree : tree[e].parent = User
        \/ (tree[e].parent \in DOMAIN tree /\ tree[tree[e].parent].parent = User)}

Resources(tree) == {e \in DOMAIN tree : tree[e].kind = "resource"}
Titled(tree)    == {e \in Resources(tree) \cap Reached(tree) : tree[e].name = Title}

Names(path)   == IF path = <<>> THEN <<>> ELSE Front(path) \o <<Title>>
Folders(path) == IF path = <<>> THEN <<>> ELSE Front(path)

\* The folders of a path, made from the first missing one on; what is there is
\* judged by the snapshot `tree`.  Returns the graph and the parent to be.
Known(tree, names) == Max({0} \cup {i \in 1 .. Len(names) : At(tree, SubSeq(names, 1, i)) # None})
FillParents(g, tree, names) ==
    LET known == Known(tree, names)
        base  == At(tree, SubSeq(names, 1, known))
        top   == IF base = User \/ base \in DOMAIN g.tree THEN base ELSE Detached
        last  == g.next + Len(names) - known - 1
    IN [g |-> [g EXCEPT !.next = last + 1,
                 !.tree = [e \in g.next .. last |->
                             [kind |-> "folder", name |-> names[known + 1 + e - g.next],
                              parent |-> IF e = g.next THEN top ELSE e - 1]] ++ @],
        parent |-> IF last < g.next THEN top ELSE last]

---------------------------------------------------------------------------
(* Stored text.                                                              *)

Mark(v, mark) == <<v, IF v \in Duplicables THEN mark ELSE "">>
Root == <<"root", "">>

Parsed(text) ==
    LET new(v) == Mark(v, "new")
        t == Texts[text]
    IN [sents |-> {new(v) : v \in t.sents},
        edges |-> {<<new(e[1]), new(e[2]), e[3]>> : e \in t.edges},
        defs  |-> {<<p[1], new(p[2])>> : p \in t.defs}]

Live(g, rid)  == {u \in DOMAIN g.nodes : g.nodes[u].live /\ g.nodes[u].res = rid}
Below(g, rid) == {e \in g.edges : e[1] = rid /\ e[3] = "below"}
Structure == {"below", "sibling"}

\* Largest tree of a text that lost its root; it is hung under the root again.
Heads(g, rid) == {u \in Live(g, rid) :
                    ~\E e \in g.edges : e[2] = u /\ e[1] # rid /\ e[3] \in Structure}
Under(g, rid, u) ==
    LET n == Live(g, rid)
        r == [p \in n \X n |-> \E e \in g.edges : e[1] = p[1] /\ e[2] = p[2]
                                                   /\ e[3] \in Structure]
    IN {w \in n : TransitiveClosure(r, n)[u, w]}
Mended(g, rid) ==
    IF Below(g, rid) # {} \/ Heads(g, rid) = {} THEN g
    ELSE LET top == CHOOSE u \in Heads(g, rid) : \A w \in Heads(g, rid) :
                        Cardinality(Under(g, rid, u)) >= Cardinality(Under(g, rid, w))
         IN [g EXCEPT !.edges = @ \cup {<<rid, top, "below">>}]

Value(g, rid, u) == IF u = rid THEN Root ELSE Mark(g.nodes[u].val, "old")

Restored(g, rid) ==
    LET us == Live(g, rid)
        m  == Mended(g, rid)
    IN [sents |-> {Value(g, rid, u) : u \in us},
        edges |-> {<<Value(g, rid, e[1]), Value(g, rid, e[2]), e[3]>> :
                    e \in {e \in m.edges : e[1] \in us \cup {rid} /\ e[2] \in us}},
        defs  |-> {<<p[1], Value(g, rid, p[2])>> : p \in {p \in g.defs : p[2] \in us}}]

\* One of the nodes that hold a value.
Ids(g, rid) ==
    LET us == Live(g, rid)
    IN [v \in {Value(g, rid, u) : u \in us \cup {rid}} |->
          IF v = Root THEN rid ELSE CHOOSE u \in us : Value(g, rid, u) = v]

Unmarked(net) == [sents |-> {s[1] : s \in net.sents},
                  edges |-> {<<e[1][1], e[2][1], e[3]>> : e \in net.edges},
                  defs  |-> {<<p[1], p[2][1]>> : p \in net.defs}]

---------------------------------------------------------------------------
(* References from quizzes and answers.                                      *)

Refs(q)       == {q.target, q.option}
AskedBy(g, u) == {q \in DOMAIN g.quiz : u \in Refs(g.quiz[q])}
Selected(g)   == {a.selected : a \in g.answers}

\* What keeps a sentence that is to go: a quiz or an answer that refers to it.
Held(g, u) == AskedBy(g, u) # {} \/ u \in Selected(g)

Without(g, gone) ==
    [g EXCEPT !.nodes = Restrict(@, DOMAIN @ \ gone),
              !.edges = {e \in @ : e[1] \notin gone /\ e[2] \notin gone},
              !.defs  = {p \in @ : p[2] \notin gone}]

\* Sentences are retired: the quizzes that were found to ask about them, `asked`,
\* are marked broken by them.
Retired(g, us, asked) ==
    [g EXCEPT !.nodes = [u \in DOMAIN @ |-> IF u \in us THEN [@[u] EXCEPT !.live = FALSE]
                                            ELSE @[u]],
              !.quiz = [q \in DOMAIN @ |->
                          IF q \in DOMAIN asked
                          THEN [g.quiz[q] EXCEPT !.broken = @ \cup (Refs(asked[q]) \cap us)]
                          ELSE g.quiz[q]]]

\* Sentences that go: those that were found to be held are retired, the others
\* are deleted with all that leads to them.  (Faulty variant: all are deleted.)
DropAll(g, w) == Without(g, w.gone)
Drop(g, w) == Without(Retired(g, w.kept, w.asked), w.gone \ w.kept)

\* Retired sentences nobody refers to any more are deleted.
Needed(g, u) == \/ AskedBy(g, u) # {}
                \/ \E q \in DOMAIN g.quiz : u \in g.quiz[q].broken
                \/ u \in Selected(g)
Purged(g) == Without(g, {u \in DOMAIN g.nodes : ~g.nodes[u].live /\ ~Needed(g, u)})

---------------------------------------------------------------------------
(* Writing a planned update: one query that matches all it names, or nothing. *)

Created(g, rid, values) ==
    LET order == SetToSeq(values)
    IN [g |-> [g EXCEPT !.next = @ + Len(order),
               !.nodes = [u \in {g.next + i - 1 : i \in 1 .. Len(order)} |->
                            [val |-> order[u - g.next + 1][1], res |-> rid, live |-> TRUE]] ++ @],
        ids |-> [v \in values |-> g.next - 1 + CHOOSE i \in 1 .. Len(order) : order[i] = v]]

Deleted(plan)  == plan.terms.removed \cup Firsts(plan.terms.updated)
Inserted(plan) == plan.terms.added \cup Seconds(plan.terms.updated)

\* What the plan expects to find: nodes, edges, and terms on their sentences.
Matches(g, plan, ids, old) ==
    LET ends == UNION {{e[1], e[2]} : e \in plan.edges.removed \cup plan.edges.added}
        expected == plan.sents.removed \cup Firsts(plan.sents.updated) \cup ends
                    \cup {p[2] : p \in {p \in old.defs : p[1] \in Deleted(plan)}}
    IN /\ \A v \in expected \cap DOMAIN ids :
             v = Root \/ (ids[v] \in DOMAIN g.nodes /\ g.nodes[ids[v]].live)
       /\ \A e \in plan.edges.removed : <<ids[e[1]], ids[e[2]], e[3]>> \in g.edges
       /\ \A p \in old.defs : p[1] \in Deleted(plan) =>
             \E d \in g.defs : d[2] = ids[p[2]]

Applied(g, rid, w, plan, ids, old, new) ==
    LET g1   == Drop(g, w)
        made == Created(g1, rid, plan.sents.added)
        back == {<<p[2], p[1]>> : p \in plan.sents.updated}
        all  == made.ids ++ ids
        id(v) == all[Renamed(back, v)]
        g2   == made.g
        cut  == {<<ids[e[1]], ids[e[2]], e[3]>> : e \in plan.edges.removed}
        bare == {ids[p[2]] : p \in {p \in old.defs : p[1] \in Deleted(plan)}}
        vals == {<<ids[p[1]], p[2][1]>> : p \in plan.sents.updated}
    IN [g2 EXCEPT
          !.edges = (@ \ cut) \cup {<<id(e[1]), id(e[2]), e[3]>> : e \in plan.edges.added},
          !.defs  = {p \in @ : p[2] \notin bare}
                    \cup {<<p[1], id(p[2])>> : p \in {p \in new.defs : p[1] \in Inserted(plan)}},
          !.nodes = [u \in DOMAIN @ |->
                       IF u \in Firsts(vals)
                       THEN [@[u] EXCEPT !.val = (CHOOSE p \in vals : p[1] = u)[2]]
                       ELSE @[u]]]

\* Only relations between known sentences: each edge for itself.
Related(g, plan, ids) ==
    LET back == {<<p[2], p[1]>> : p \in plan.sents.updated}
        id(v) == ids[Renamed(back, v)]
        there(u) == u \in DOMAIN g.res \/ (u \in DOMAIN g.nodes /\ g.nodes[u].live)
    IN [g EXCEPT !.edges =
          (@ \ {<<ids[e[1]], ids[e[2]], e[3]>> : e \in plan.edges.removed})
          \cup {e \in {<<id(e[1]), id(e[2]), e[3]>> : e \in plan.edges.added} :
                  there(e[1]) /\ there(e[2])}]

Updated(g, rid, w, p) ==
    IF NothingToWrite(p.plan) THEN Related(g, p.plan, p.ids)
    ELSE IF Matches(g, p.plan, p.ids, p.old)
         THEN Applied(g, rid, w, p.plan, p.ids, p.old, p.new)
         ELSE g

\* A first import writes the whole network.
Written(g, rid, new) ==
    LET made == Created(g, rid, new.sents)
        id(v) == IF v = Root THEN rid ELSE made.ids[v]
    IN [made.g EXCEPT !.edges = @ \cup {<<id(e[1]), id(e[2]), e[3]>> : e \in new.edges},
                      !.defs  = @ \cup {<<p[1], id(p[2])>> : p \in new.defs}]

\* The structure alone is laid again over the sentences that are there.
Rebuilt(g, rid, p) ==
    LET m == Mended(g, rid)
        own == Live(g, rid) \cup {rid}
        ids == [v \in {x[1] : x \in DOMAIN p.ids} |-> p.ids[CHOOSE x \in DOMAIN p.ids : x[1] = v]]
        laid == {<<ids[e[1][1]], ids[e[2][1]], e[3]>> :
                    e \in {e \in p.new.edges : e[3] \in Structure}}
        there == \A e \in laid : e[2] \in Live(g, rid) /\ e[1] \in own
    IN [m EXCEPT !.edges = {e \in @ : ~(e[1] \in own /\ e[3] \in Structure)}
                           \cup (IF there THEN laid ELSE {})]

=============================================================================
