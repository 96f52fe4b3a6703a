------------------------------- MODULE Library -------------------------------
(* Imports of a titled text into the shared graph: the slots and the save lock
   of a process, the namespace snapshot a request works on, the update plan, its
   all-or-nothing query, and the commit that comes after lock and slot are given
   back.  Beside the imports: the namespace synchronisation, deletions, quizzes
   and answers that refer to sentences, and cached ranks.  Queries read what is
   committed; one that writes waits for the request that holds the resource, so
   the effects of a request are computed when it commits.  Nothing makes who
   writes a quiz wait for who removes a sentence before both write it: an import
   or a deletion finds the quizzes of a sentence, and a quiz is written to the
   sentences it has found, in two steps each.                                  *)
EXTENDS TextGraph

CONSTANTS Devices,
          Requests,           \* imports asked for: [text, path, force, res, tres]
          Syncs,              \* synchronisations asked for: [text, path]
          Legacy,             \* texts older versions may have left damaged
          MaxImports, MaxOthers, MaxConcurrent, MaxPerUser

ASSUME LibraryAssumption ==
    /\ IsFiniteSet(Devices)
    /\ \A q \in Requests : IsFiniteSet(Texts[q.text].sents)
    /\ \A text \in Legacy : IsFiniteSet(Texts[text].sents)
    /\ \A q \in Requests \cup Syncs : q.path \in Seq(STRING)

VARIABLES db,       \* the committed graph
          dev,      \* the import each device runs
          slots,    \* import slots taken: [active, user]
          doomed,   \* folder a deletion has found empty
          writer,   \* what the request that writes the text has found: [asked, gone, kept, deletes]
          draft,    \* quiz being made or repaired: [act, quiz, x, y, version]
          ranks,    \* cached ranks: resource -> what they were computed from
          budget,   \* [imports, others] still allowed
          story     \* what befell the stored text (history)

quizVars == <<writer, draft>>
vars == <<db, dev, slots, doomed, writer, draft, ranks, budget, story>>

Idle == [stage |-> "idle"]
InSlot(d)  == dev[d].stage \in {"entered", "prepared"}
Locked     == \E d \in Devices : dev[d].stage = "prepared"

\* An import or a deletion has written, and its commit is to come.
Writing == writer # Idle

Spent  == budget.others > 0 /\ budget' = [budget EXCEPT !.others = @ - 1]
Other  == Spent /\ UNCHANGED <<dev, slots>>

---------------------------------------------------------------------------
(* An import.                                                                *)

Enter(d, q) ==
    /\ dev[d] = Idle /\ budget.imports > 0
    /\ slots.active < MaxConcurrent /\ slots.user < MaxPerUser
    /\ slots' = [active |-> slots.active + 1, user |-> slots.user + 1]
    /\ dev' = [dev EXCEPT ![d] = [stage |-> "entered", q |-> q, tree |-> db.tree,
                                  res |-> db.res, version |-> story.version]]
    /\ budget' = [budget EXCEPT !.imports = @ - 1]
    /\ UNCHANGED <<db, doomed, quizVars, ranks, story>>

\* The resource of the title: in the snapshot, else by its unique key.
Keyed(g) == IF DOMAIN g.res = {} THEN None ELSE CHOOSE r \in DOMAIN g.res : TRUE
Existing(v) == IF Titled(v.tree) # {} THEN CHOOSE r \in Titled(v.tree) : TRUE ELSE Keyed(db)

\* What an import has to do, found before it writes anything.
Change(v) ==
    LET ex      == Existing(v)
        known   == ex # None /\ ex \in Titled(v.tree)
        record  == IF known THEN v.res[ex] ELSE db.res[ex]
        content == ex = None \/ record.hash # v.q.text
        missing == ex # None /\ ~(known /\ v.res[ex].stats)
        broken  == ex # None /\ ~missing /\ Below(db, ex) = {}
        here    == IF v.q.path = <<>> THEN Child(v.tree, User, Title)
                   ELSE At(v.tree, Names(v.q.path))
    IN [ex |-> ex, content |-> content, missing |-> missing, broken |-> broken,
        needed |-> content \/ missing \/ broken \/ v.q.force,
        unchanged |-> ex # None /\ ~content /\ here = ex]

Mode(v, c) == IF ~c.needed THEN "none"
              ELSE IF c.ex = None THEN "new"
              ELSE IF c.broken /\ ~c.content /\ ~c.missing /\ ~v.q.force THEN "structure"
              ELSE "diff"

Update(v, c) ==
    LET old == Restored(db, c.ex)
        new == Parsed(v.q.text)
    IN [old |-> old, new |-> new, ids |-> Ids(db, c.ex),
        plan |-> Plan(old, new, v.q.res, v.q.tres)]

Prepare(d) ==
    LET v == dev[d]
        c == Change(v)
        mode == Mode(v, c)
        stored == mode \in {"diff", "structure"}
    IN /\ v.stage = "entered" /\ ~Locked
       /\ stored => c.ex \in DOMAIN db.res
       /\ LET u == IF stored THEN Update(v, c) ELSE [new |-> Parsed(v.q.text)]
          IN /\ mode = "diff" => u.plan.outcome = "ok"
             /\ dev' = [dev EXCEPT ![d] = [stage |-> "prepared", q |-> v.q, tree |-> v.tree,
                                           version |-> v.version, c |-> c, mode |-> mode,
                                           update |-> u]]
       /\ UNCHANGED <<db, slots, doomed, quizVars, ranks, budget, story>>

\* The resource at its place, its text and date renewed; a new one takes the
\* title's unique key.
UniqueKey(g, ex) == IF ex = None THEN DOMAIN g.res = {} ELSE ex \in DOMAIN g.res

Dated(g, ex) == g.clock + 1

Moved(g, tree, q, ex) ==
    LET rid == IF ex = None THEN g.next ELSE ex
        own == [hash |-> q.text, updated |-> Dated(g, ex),
                stats |-> IF ex = None THEN FALSE ELSE g.res[ex].stats]
        g1  == [g EXCEPT !.next = IF ex = None THEN @ + 1 ELSE @, !.clock = @ + 1,
                         !.res = Only(rid, own) ++ @]
        f   == FillParents(g1, tree, Folders(q.path))
    IN [f.g EXCEPT !.tree = Only(rid, [kind |-> "resource", name |-> Title,
                                        parent |-> f.parent]) ++ @]

Persisted(g, rid, v, w) ==
    LET g1 == IF v.c.broken THEN Mended(g, rid) ELSE g
    IN IF v.c.ex = None THEN Written(g, rid, v.update.new)
       ELSE IF v.mode = "structure" /\ g.res[rid].stats THEN Rebuilt(g1, rid, v.update)
       ELSE IF v.mode = "diff" /\ (~g.res[rid].stats \/ v.c.content \/ v.c.broken \/ v.q.force)
            THEN Updated(g1, rid, w, v.update)
       ELSE g

Saved(g, v, w) ==
    LET g1  == IF v.c.unchanged THEN g ELSE Moved(g, v.tree, v.q, v.c.ex)
        rid == IF v.c.ex = None THEN g.next ELSE v.c.ex
        g2  == Persisted(g1, rid, v, w)
    IN IF v.mode = "none" THEN g1 ELSE [g2 EXCEPT !.res[rid].stats = TRUE]

CanSave(v) ==
    /\ UniqueKey(db, v.c.ex)
    /\ v.mode = "structure" =>
         {s[1] : s \in v.update.new.sents} \subseteq {s[1] : s \in DOMAIN v.update.ids}

\* (Faulty variant: a request that fails keeps its slot.)
KeepSlot(d) == slots' = slots
GiveBack(d) == slots' = [active |-> slots.active - 1, user |-> slots.user - 1]

\* The sentences an update removes.
Removed(v) ==
    IF v.mode = "diff" THEN {v.update.ids[x] : x \in v.update.plan.sents.removed} ELSE {}

Write(d) ==
    LET gone == Removed(dev[d])
    IN /\ dev[d].stage = "prepared" /\ ~Writing
       /\ CanSave(dev[d])
       /\ writer' = [asked |-> db.quiz, gone |-> gone, deletes |-> None,
                     kept |-> {u \in gone \cap DOMAIN db.nodes : AskedBy(db, u) # {}}]
       /\ dev' = [dev EXCEPT ![d].stage = "written"]
       /\ GiveBack(d)
       /\ UNCHANGED <<db, doomed, draft, ranks, budget, story>>

Contents(g) == [nodes |-> g.nodes, edges |-> g.edges, defs |-> g.defs]

Commit(d) ==
    LET v == dev[d]
        g == Saved(db, v, writer)
    IN /\ v.stage = "written"
       /\ db' = g
       /\ writer' = Idle
       /\ dev' = [dev EXCEPT ![d] = Idle]
       /\ story' = [version |-> story.version + 1,
                    mended  |-> story.mended \/ (v.c.unchanged /\ Contents(g) # Contents(db)),
                    state   |-> IF v.version # story.version THEN "muddled"
                                ELSE IF story.state = "legacy" /\ v.mode # "none" THEN "clean"
                                ELSE story.state]
       /\ UNCHANGED <<slots, doomed, draft, ranks, budget>>

\* Refused, in conflict, invalid, rolled back by the database: nothing is kept.
Fail(d) ==
    /\ InSlot(d)
    /\ dev' = [dev EXCEPT ![d] = Idle]
    /\ GiveBack(d)
    /\ UNCHANGED <<db, doomed, quizVars, ranks, budget, story>>

Rollback(d) ==
    /\ dev[d].stage = "written"
    /\ dev' = [dev EXCEPT ![d] = Idle]
    /\ writer' = Idle
    /\ UNCHANGED <<db, slots, doomed, draft, ranks, budget, story>>

Restart ==
    /\ \E d \in Devices : dev[d] # Idle
    /\ dev' = [d \in Devices |-> Idle]
    /\ slots' = [active |-> 0, user |-> 0]
    /\ doomed' = None /\ writer' = Idle /\ draft' = None
    /\ UNCHANGED <<db, ranks, budget, story>>

---------------------------------------------------------------------------
(* The rest of the entries.                                                  *)

\* Titles and hashes reported by a client: only the entry is brought up to date.
Sync(q) ==
    LET at == At(db.tree, Names(q.path))
        ex == IF Titled(db.tree) # {} THEN CHOOSE r \in Titled(db.tree) : TRUE ELSE Keyed(db)
        same == at # None /\ db.res[at].hash = q.text
        g  == IF same THEN db
              ELSE IF at # None
              THEN [db EXCEPT !.res[at].hash = q.text, !.res[at].updated = db.clock + 1,
                              !.clock = @ + 1]
              ELSE Moved(db, db.tree, q, ex)
    IN /\ Other /\ ~Writing
       /\ db' = g
       /\ story' = [story EXCEPT !.version = @ + 1,
                      !.state = IF ex # None /\ db.res[ex].hash = q.text THEN @ ELSE "muddled"]
       /\ UNCHANGED <<doomed, quizVars, ranks>>

\* The sentences of a resource that a quiz or an answer refers to are found and
\* retired by one query of a deletion; what is left is deleted by the next.
FindHeld(r) ==
    LET us == Live(db, r)
    IN /\ Other /\ ~Writing
       /\ r \in DOMAIN db.res
       /\ writer' = [asked |-> db.quiz, gone |-> us, deletes |-> r,
                     kept |-> {u \in us : Held(db, u)}]
       /\ UNCHANGED <<db, doomed, draft, ranks, story>>

DeleteResource ==
    LET r == writer.deletes
        g == Drop(db, writer)
    IN /\ Writing /\ r # None
       /\ db' = [g EXCEPT !.res = Restrict(@, DOMAIN @ \ {r}),
                          !.tree = Restrict(@, DOMAIN @ \ {r}),
                          !.edges = {e \in @ : e[1] # r}]
       /\ ranks' = Restrict(ranks, DOMAIN ranks \ {r})
       /\ story' = [story EXCEPT !.version = @ + 1, !.state = "clean", !.mended = FALSE]
       /\ writer' = Idle
       /\ UNCHANGED <<dev, slots, doomed, draft, budget>>

\* A folder is seen empty, then deleted with whatever hangs under it by then.
FindEmpty(f) ==
    /\ doomed = None /\ Spent
    /\ f \in DOMAIN db.tree /\ db.tree[f].kind = "folder"
    /\ ~\E e \in DOMAIN db.tree : db.tree[e].parent = f
    /\ doomed' = f
    /\ UNCHANGED <<db, dev, slots, quizVars, ranks, story>>

DeleteFolder ==
    /\ doomed # None /\ ~Writing
    /\ db' = [db EXCEPT !.tree = [e \in DOMAIN @ \ {doomed} |->
                  IF @[e].parent = doomed THEN [@[e] EXCEPT !.parent = Detached] ELSE @[e]]]
    /\ doomed' = None
    /\ UNCHANGED <<dev, slots, quizVars, ranks, budget, story>>

---------------------------------------------------------------------------
(* Quizzes, answers and ranks of the stored sentences.                       *)

\* A quiz written with sentences found before what writes the text has committed.
Crossing == Writing \/ draft.version # story.version

\* Removing a sentence marks the quizzes found to ask about it, and holds them.
Marking(q) == Writing /\ q \in DOMAIN writer.asked
                      /\ Refs(writer.asked[q]) \cap writer.gone # {}

\* The query that creates a quiz finds its sentences, then writes the relations to
\* them; it fails if one of them is gone by then.
FindSentences(q, t, o) ==
    /\ Other /\ draft = None
    /\ q \notin DOMAIN db.quiz
    /\ db.nodes[t].live /\ db.nodes[o].live
    /\ draft' = [act |-> "create", quiz |-> q, x |-> t, y |-> o, version |-> story.version]
    /\ UNCHANGED <<db, doomed, writer, ranks, story>>

CreateQuiz ==
    /\ draft # None /\ draft.act = "create"
    /\ draft.quiz \notin DOMAIN db.quiz
    /\ {draft.x, draft.y} \subseteq DOMAIN db.nodes
    /\ db' = [db EXCEPT !.quiz = Only(draft.quiz, [target |-> draft.x, option |-> draft.y,
                                                   broken |-> {}, raced |-> Crossing]) ++ @]
    /\ draft' = None
    /\ UNCHANGED <<dev, slots, doomed, writer, ranks, budget, story>>

\* One quiz is led from a retired sentence to one that stands: both are found, then
\* the relations are moved.
FindReplacement(q, old, new) ==
    /\ Other /\ draft = None
    /\ q \in DOMAIN db.quiz /\ old \in db.quiz[q].broken
    /\ db.nodes[new].live
    /\ draft' = [act |-> "repair", quiz |-> q, x |-> old, y |-> new, version |-> story.version]
    /\ UNCHANGED <<db, doomed, writer, ranks, story>>

Reattach ==
    LET q   == draft.quiz
        old == draft.x
        to(u) == IF u = old THEN draft.y ELSE u
        g == [db EXCEPT !.quiz[q] = [target |-> to(@.target), option |-> to(@.option),
                                     broken |-> @.broken \ {old},
                                     raced |-> @.raced \/ Crossing]]
    IN /\ draft # None /\ draft.act = "repair"
       /\ q \in DOMAIN db.quiz /\ old \in db.quiz[q].broken /\ ~Marking(q)
       /\ draft.y \in DOMAIN db.nodes
       /\ db' = IF Held(g, old) THEN g ELSE Without(g, {old})
       /\ draft' = None
       /\ UNCHANGED <<dev, slots, doomed, writer, ranks, budget, story>>

\* A deletion, a new quiz or a repair that fails leaves nothing.
GiveUp ==
    /\ \/ Writing /\ writer.deletes # None /\ writer' = Idle /\ UNCHANGED <<doomed, draft>>
       \/ draft # None /\ draft' = None /\ UNCHANGED <<doomed, writer>>
       \/ doomed # None /\ doomed' = None /\ UNCHANGED <<draft, writer>>
    /\ UNCHANGED <<db, dev, slots, ranks, budget, story>>

Answer(q, o) ==
    /\ Other
    /\ q \in DOMAIN db.quiz /\ o \in Refs(db.quiz[q]) \cap DOMAIN db.nodes
    /\ db.nodes[o].live
    /\ db' = [db EXCEPT !.answers = @ \cup {[quiz |-> q, selected |-> o]}]
    /\ UNCHANGED <<doomed, quizVars, ranks, story>>

DeleteQuiz(q) ==
    /\ Other
    /\ q \in DOMAIN db.quiz /\ ~Marking(q)
    /\ db' = Purged([db EXCEPT !.quiz = Restrict(@, DOMAIN @ \ {q}),
                               !.answers = {a \in @ : a.quiz # q}])
    /\ UNCHANGED <<doomed, quizVars, ranks, story>>

\* A rank job stores its result with hash and date of the text it read.
Rank(r) ==
    /\ Other
    /\ r \in DOMAIN db.res
    /\ ranks' = Only(r, [hash |-> db.res[r].hash, updated |-> db.res[r].updated,
                         net |-> Restored(db, r)]) ++ ranks
    /\ UNCHANGED <<db, doomed, quizVars, story>>

CurrentRank(r) == /\ ranks[r].hash = db.res[r].hash
                  /\ ranks[r].updated = db.res[r].updated

---------------------------------------------------------------------------
Empty == [tree |-> <<>>, res |-> <<>>, nodes |-> <<>>, edges |-> {}, defs |-> {},
          quiz |-> <<>>, answers |-> {}, next |-> FirstId, clock |-> 0]

\* Left by older versions: an entry without its text, or a text cut off its root.
Bare(t)  == Moved(Empty, <<>>, [text |-> t, path |-> <<>>], None)
Cut(t)   == LET g == Written(Bare(t), FirstId, Parsed(t))
            IN [g EXCEPT !.res[FirstId].stats = TRUE, !.edges = @ \ Below(g, FirstId)]

Init ==
    /\ \/ db = Empty /\ story = [version |-> 0, mended |-> FALSE, state |-> "clean"]
       \/ /\ db \in {Bare(t) : t \in Legacy} \cup {Cut(t) : t \in Legacy}
          /\ story = [version |-> 0, mended |-> FALSE, state |-> "legacy"]
    /\ dev = [d \in Devices |-> Idle]
    /\ slots = [active |-> 0, user |-> 0]
    /\ doomed = None /\ writer = Idle /\ draft = None
    /\ ranks = <<>>
    /\ budget = [imports |-> MaxImports, others |-> MaxOthers]

Importing(d) == \/ \E q \in Requests : Enter(d, q)
                \/ Prepare(d) \/ Write(d) \/ Commit(d) \/ Fail(d) \/ Rollback(d)

Nodes == DOMAIN db.nodes
Next ==
    \/ \E d \in Devices : Importing(d)
    \/ Restart
    \/ \E q \in Syncs : Sync(q)
    \/ \E r \in DOMAIN db.res : FindHeld(r) \/ Rank(r)
    \/ DeleteResource
    \/ \E f \in DOMAIN db.tree : FindEmpty(f)
    \/ DeleteFolder
    \/ \E t, o \in Nodes : t <= o /\ FindSentences(1, t, o)   \* the two are treated alike
    \/ \E o, n \in Nodes : FindReplacement(1, o, n)
    \/ CreateQuiz \/ Reattach \/ GiveUp
    \/ \E o \in Nodes : Answer(1, o)
    \/ DeleteQuiz(1)

Spec == Init /\ [][Next]_vars

---------------------------------------------------------------------------
(* Properties.                                                               *)

\* The graph is a graph: relations, terms and entries lead to what exists.
GraphTypeOK ==
    /\ \A u \in Nodes : db.nodes[u].res \in 2 .. db.next /\ db.nodes[u].live \in BOOLEAN
    /\ \A e \in db.edges : e[1] \in Nodes \cup DOMAIN db.res /\ e[2] \in Nodes
    /\ \A p \in db.defs : p[2] \in Nodes
    /\ DOMAIN db.res = Resources(db.tree)
    /\ \A e \in DOMAIN db.tree : db.tree[e].parent \in DOMAIN db.tree \cup {User, Detached}
    /\ DOMAIN ranks \subseteq DOMAIN db.res

\* However imports and synchronisations overlap, and whatever the snapshots they
\* work on have missed, a user has one resource of a title.
OneTitle == Cardinality(DOMAIN db.res) <= 1

\* What a quiz refers to exists; it is a retired sentence exactly if the quiz is
\* marked broken by it, through updates, deletions and reattachments.  Of a quiz that
\* was written while an import or a deletion of its text was under way only this
\* holds: what it is marked broken by is a retired sentence it refers to.  Such a
\* quiz may have lost a sentence, or refer to a retired one without being marked.
QuizzesHold ==
    \A q \in DOMAIN db.quiz :
        LET z == db.quiz[q]
            retired == {u \in Refs(z) \cap Nodes : ~db.nodes[u].live}
        IN /\ z.broken \subseteq retired
           /\ ~z.raced => Refs(z) \subseteq Nodes /\ z.broken = retired

\* The sentence an answer selected is kept as long as the answer is.
AnswersStand ==
    \A a \in db.answers : ~db.quiz[a.quiz].raced => a.selected \in Nodes

\* A retired sentence is kept only for a quiz or an answer that refers to it.
RetiredNeeded == \A u \in Nodes : ~db.nodes[u].live => Needed(db, u)

\* Nothing a learner has made loses its sentence: quizzes and answers survive every
\* edit, deletion and race of imports of the text they were made from, unless the
\* quiz itself was written across one of these, and only what they need is kept.
SentencesHeld == QuizzesHold /\ AnswersStand /\ RetiredNeeded

\* The stored graph is that of the text last imported: sentences, relations and
\* terms, as long as imports did not overlap, no synchronisation took the place of
\* an import, and no import moved a term to another sentence that stays.  Texts
\* damaged earlier are mended by their next import.
TextStored ==
    story.state = "clean" =>
        \A r \in DOMAIN db.res :
            /\ Below(db, r) # {}
            /\ Unmarked(Restored(db, r)) = Texts[db.res[r].hash]

\* A rank taken for current was computed from the graph as it is, unless an
\* import of an unchanged text mended the graph: hash and date do not tell.
RanksOfText ==
    \A r \in DOMAIN ranks : CurrentRank(r) /\ ~story.mended => ranks[r].net = Restored(db, r)

\* A user's title names one resource, whose well-formed graph is that of its text and
\* whose ranks are those of that graph, as far as imports have not overlapped.
GraphOfText == GraphTypeOK /\ OneTitle /\ TextStored /\ RanksOfText

\* Slots are given back exactly once, on every way out of a request.
SlotsAddUp ==
    LET inside == Cardinality({d \in Devices : InSlot(d)})
    IN slots = [active |-> inside, user |-> inside]

\* What the round-trip tests of the update say: after an import the graph is
\* that of its text.
ImportedTextStored ==
    \A r \in DOMAIN db.res : db.res[r].stats =>
        Unmarked(Restored(db, r)) = Texts[db.res[r].hash]
=============================================================================
