---------------------------- MODULE LibraryProofs ----------------------------
(***************************************************************************)
(* Proofs about Library for every set of devices, every table of texts and *)
(* every bound: quizzes and answers keep the sentences they refer to, and  *)
(* the slots of imports are given back.                                    *)
(*                                                                         *)
(* Imports only add sentences under numbers never used before (Grown,      *)
(* Onward) and then retire some.  An answer that stands selected a         *)
(* sentence of its quiz or a retired one, so that what an update drops     *)
(* because no quiz asks it was selected by nobody.  What a request has     *)
(* planned names only sentences it found.  The quizzes a request that      *)
(* removes sentences has found are those that stand when it commits, but   *)
(* for the quizzes written meanwhile (Snapshot).                           *)
(***************************************************************************)
EXTENDS Library, FiniteSetTheorems, WellFoundedInduction, TLAPS

---------------------------------------------------------------------------
(* What a sound graph is, and the two ways it changes.                         *)

Fields == {"tree", "res", "nodes", "edges", "defs", "quiz", "answers", "next", "clock"}

\* Every entry of the tree has a name and a parent; resources have their record.
Entries(g) ==
    \A e \in DOMAIN g.tree :
        /\ DOMAIN g.tree[e] = {"kind", "name", "parent"}
        /\ g.tree[e].kind = "resource" => e \in DOMAIN g.res
Graph(g) ==
    /\ DOMAIN g = Fields /\ g.next \in Nat /\ Entries(g)
    /\ \A r \in DOMAIN g.res : r \in Nat /\ r < g.next
    /\ \A u \in DOMAIN g.nodes :
          /\ u \in Nat /\ u < g.next /\ u \notin DOMAIN g.res
          /\ DOMAIN g.nodes[u] = {"val", "res", "live"} /\ g.nodes[u].live \in BOOLEAN
\* A quiz is broken by exactly its retired sentences, a raced one by some of them.
RetiredRefs(g, q) == {u \in Refs(g.quiz[q]) \cap DOMAIN g.nodes : ~g.nodes[u].live}
QuizOK(g, q) ==
    /\ DOMAIN g.quiz[q] = {"target", "option", "broken", "raced"}
    /\ \A u \in Refs(g.quiz[q]) : u \in Nat /\ u < g.next
    /\ g.quiz[q].broken \subseteq RetiredRefs(g, q)
    /\ ~g.quiz[q].raced => /\ Refs(g.quiz[q]) \subseteq DOMAIN g.nodes
                           /\ RetiredRefs(g, q) \subseteq g.quiz[q].broken
Quizzes(g) == \A q \in DOMAIN g.quiz : QuizOK(g, q)
\* What an answer selected is there unless its quiz raced; if it is live its quiz
\* refers to it.
AnswerOK(g, a) ==
    /\ a.quiz \in DOMAIN g.quiz /\ a.selected \in Nat /\ a.selected < g.next
    /\ ~g.quiz[a.quiz].raced => a.selected \in DOMAIN g.nodes
    /\ a.selected \in DOMAIN g.nodes /\ g.nodes[a.selected].live => a.selected \in Refs(g.quiz[a.quiz])
Answers(g) == \A a \in g.answers : AnswerOK(g, a)
\* Retired sentences are held by a quiz or an answer.
NoneLeft(g) == \A u \in DOMAIN g.nodes : ~g.nodes[u].live => Held(g, u)
Sound(g) == Graph(g) /\ Quizzes(g) /\ Answers(g) /\ NoneLeft(g)

\* What a request that removes sentences has found of quizzes, and what holds still.
Snapshot(g, w) ==
    /\ \A q \in DOMAIN g.quiz :
          g.quiz[q].raced \/ (q \in DOMAIN w.asked /\ Refs(w.asked[q]) = Refs(g.quiz[q]))
    /\ \A q \in DOMAIN w.asked : \A u \in Refs(w.asked[q]) \cap w.gone :
          q \in DOMAIN g.quiz /\ u \in Refs(g.quiz[q])
    /\ w.kept \subseteq w.gone
    /\ \A u \in w.gone \cap DOMAIN g.nodes :
          u \in w.kept <=> \E q \in DOMAIN w.asked : u \in Refs(w.asked[q])
Standing(g, w) ==
    w.kept \subseteq DOMAIN g.nodes /\ \A u \in w.gone \cap DOMAIN g.nodes : g.nodes[u].live

\* A step that adds sentences and entries, and leaves alone what there was.
Grown(g, h) ==
    /\ DOMAIN h = Fields /\ h.next \in Nat /\ g.next <= h.next /\ Entries(h)
    /\ h.quiz = g.quiz /\ h.answers = g.answers
    /\ \A r \in DOMAIN h.res \ DOMAIN g.res : r \in Nat /\ g.next <= r /\ r < h.next
    /\ DOMAIN g.nodes \subseteq DOMAIN h.nodes
    /\ \A u \in DOMAIN h.nodes :
          /\ DOMAIN h.nodes[u] = {"val", "res", "live"} /\ h.nodes[u].live \in BOOLEAN
          /\ u \in DOMAIN g.nodes => h.nodes[u].live = g.nodes[u].live
          /\ u \notin DOMAIN g.nodes =>
                h.nodes[u].live /\ u \in Nat /\ g.next <= u /\ u < h.next /\ u \notin DOMAIN h.res

\* Numbers are never given twice.
Onward(g, h) ==
    /\ h.next \in Nat /\ g.next <= h.next
    /\ \A u \in DOMAIN h.nodes : u \in DOMAIN g.nodes \/ (u \in Nat /\ g.next <= u)

LEMMA OnwardTwice ==
    ASSUME NEW g, NEW m, NEW h, g.next \in Nat, Onward(g, m), Onward(m, h) PROVE Onward(g, h)
BY DEF Onward

LEMMA GrownSound ==
    ASSUME NEW g, NEW h, Sound(g), Grown(g, h) PROVE Sound(h) /\ Onward(g, h)
<1>1. Graph(h)
  BY DEF Sound, Grown, Graph
<1>a. \A u \in DOMAIN h.nodes : u \in Nat /\ u < g.next => u \in DOMAIN g.nodes /\ h.nodes[u].live = g.nodes[u].live
  BY DEF Sound, Graph, Grown
<1>b. g.next \in Nat /\ h.next \in Nat /\ g.next <= h.next
  BY DEF Sound, Graph, Grown
<1>2. Quizzes(h)
  <2> SUFFICES ASSUME NEW q \in DOMAIN h.quiz PROVE QuizOK(h, q)
    BY DEF Quizzes
  <2>1. q \in DOMAIN g.quiz /\ h.quiz[q] = g.quiz[q] /\ QuizOK(g, q)
    BY DEF Sound, Grown, Quizzes
  <2>2. RetiredRefs(h, q) = RetiredRefs(g, q)
    BY <2>1, <1>a DEF RetiredRefs, QuizOK, Grown
  <2>3. DOMAIN g.nodes \subseteq DOMAIN h.nodes
    BY DEF Grown
  <2> QED
    BY <2>1, <2>2, <2>3, <1>b DEF QuizOK
<1>3. Answers(h)
  <2> SUFFICES ASSUME NEW a \in g.answers PROVE AnswerOK(h, a)
    BY DEF Answers, Grown
  <2>1. AnswerOK(g, a) /\ h.quiz = g.quiz /\ DOMAIN g.nodes \subseteq DOMAIN h.nodes
    BY DEF Sound, Answers, Grown
  <2> QED
    BY <2>1, <1>a, <1>b DEF AnswerOK
<1>4. NoneLeft(h)
  BY DEF Sound, Grown, NoneLeft, Held, AskedBy, Selected
<1>5. Onward(g, h)
  BY DEF Onward, Grown
<1> QED
  BY <1>1, <1>2, <1>3, <1>4, <1>5 DEF Sound

\* A sentence that only raced quizzes and their answers refer to.
Loose(g, u) ==
    /\ \A q \in DOMAIN g.quiz : u \in Refs(g.quiz[q]) => g.quiz[q].raced /\ u \notin g.quiz[q].broken
    /\ \A a \in g.answers : a.selected = u => g.quiz[a.quiz].raced

LEMMA WithoutSound ==
    ASSUME NEW g, Graph(g), Quizzes(g), Answers(g), NEW gone,
           \A u \in gone \cap DOMAIN g.nodes : Loose(g, u),
           \A u \in DOMAIN g.nodes \ gone : ~g.nodes[u].live => Held(g, u)
    PROVE  Sound(Without(g, gone)) /\ Onward(g, Without(g, gone))
<1> DEFINE h == Without(g, gone)
<1>1. /\ DOMAIN h = Fields /\ h.next = g.next /\ h.res = g.res /\ h.tree = g.tree /\ h.quiz = g.quiz /\ h.answers = g.answers
      /\ DOMAIN h.nodes = DOMAIN g.nodes \ gone /\ \A u \in DOMAIN h.nodes : h.nodes[u] = g.nodes[u]
  BY DEF Without, Restrict, Graph, Fields
<1> HIDE DEF h
<1>2. Graph(h)
  BY <1>1 DEF Graph, Entries
<1>4. Quizzes(h)
  <2> SUFFICES ASSUME NEW q \in DOMAIN g.quiz PROVE QuizOK(h, q)
    BY <1>1 DEF Quizzes
  <2>1. QuizOK(g, q)
    BY DEF Quizzes
  <2>2. \A u \in Refs(g.quiz[q]) \cap gone \cap DOMAIN g.nodes : g.quiz[q].raced /\ u \notin g.quiz[q].broken
    BY DEF Loose
  <2>3. RetiredRefs(h, q) = RetiredRefs(g, q) \ gone
    BY <1>1 DEF RetiredRefs
  <2>4. RetiredRefs(g, q) \subseteq Refs(g.quiz[q]) \cap DOMAIN g.nodes
    BY DEF RetiredRefs
  <2> QED
    BY <1>1, <2>1, <2>2, <2>3, <2>4 DEF QuizOK
<1>5. Answers(h)
  <2> SUFFICES ASSUME NEW a \in g.answers PROVE AnswerOK(h, a)
    BY <1>1 DEF Answers
  <2>1. AnswerOK(g, a) /\ (a.selected \in gone \cap DOMAIN g.nodes => g.quiz[a.quiz].raced)
    BY DEF Answers, Loose
  <2> QED
    BY <1>1, <2>1 DEF AnswerOK
<1>6. NoneLeft(h)
  BY <1>1 DEF NoneLeft, Held, AskedBy, Selected
<1> QED
  BY <1>1, <1>2, <1>4, <1>5, <1>6 DEF Sound, Graph, Onward, h

LEMMA HeldOrLoose ==
    ASSUME NEW g, NEW u, Quizzes(g), ~Held(g, u) PROVE Loose(g, u)
BY DEF Loose, Held, AskedBy, Selected

LEMMA RetiredSound ==
    ASSUME NEW g, Sound(g), NEW w, Snapshot(g, w), Standing(g, w)
    PROVE  LET h == Retired(g, w.kept, w.asked) IN
           /\ Sound(h)
           /\ DOMAIN h.nodes = DOMAIN g.nodes
           /\ \A u \in (w.gone \ w.kept) \cap DOMAIN g.nodes : Loose(h, u) /\ h.nodes[u].live
           /\ DOMAIN h.res = DOMAIN g.res /\ h.next = g.next
           /\ h.res = g.res
<1> DEFINE us == w.kept
           h == Retired(g, w.kept, w.asked)
<1>1. /\ DOMAIN h = Fields /\ h.next = g.next /\ h.res = g.res /\ h.tree = g.tree /\ h.answers = g.answers
      /\ DOMAIN h.nodes = DOMAIN g.nodes /\ DOMAIN h.quiz = DOMAIN g.quiz
  BY DEF Retired, Sound, Graph, Fields
<1>2. ASSUME NEW u \in DOMAIN g.nodes
      PROVE  /\ DOMAIN h.nodes[u] = {"val", "res", "live"} /\ h.nodes[u].live \in BOOLEAN
             /\ h.nodes[u].live <=> g.nodes[u].live /\ u \notin us
  <2>1. h.nodes[u] = IF u \in us THEN [g.nodes[u] EXCEPT !.live = FALSE] ELSE g.nodes[u]
    BY DEF Retired, Sound, Graph, Fields
  <2>2. DOMAIN g.nodes[u] = {"val", "res", "live"} /\ g.nodes[u].live \in BOOLEAN
    BY DEF Sound, Graph
  <2> HIDE DEF h
  <2> QED
    BY <2>1, <2>2
<1> DEFINE mark(q) == IF q \in DOMAIN w.asked THEN Refs(w.asked[q]) \cap us ELSE {}
<1>3. ASSUME NEW q \in DOMAIN g.quiz
      PROVE  /\ DOMAIN h.quiz[q] = {"target", "option", "broken", "raced"}
             /\ h.quiz[q].target = g.quiz[q].target /\ h.quiz[q].option = g.quiz[q].option
             /\ h.quiz[q].raced = g.quiz[q].raced
             /\ h.quiz[q].broken = g.quiz[q].broken \cup mark(q)
  <2>0. h.quiz = [x \in DOMAIN g.quiz |->
                    IF x \in DOMAIN w.asked
                    THEN [g.quiz[x] EXCEPT !.broken = @ \cup (Refs(w.asked[x]) \cap us)]
                    ELSE g.quiz[x]]
    BY DEF Retired, Sound, Graph, Fields
  <2>1. h.quiz[q] = IF q \in DOMAIN w.asked
                    THEN [g.quiz[q] EXCEPT !.broken = @ \cup (Refs(w.asked[q]) \cap us)]
                    ELSE g.quiz[q]
    BY <2>0, Zenon
  <2>2. DOMAIN g.quiz[q] = {"target", "option", "broken", "raced"}
    BY DEF Sound, Quizzes, QuizOK
  <2> HIDE DEF h
  <2> QED
    BY <2>1, <2>2
<1> HIDE DEF h
<1>4. \A q \in DOMAIN g.quiz : Refs(h.quiz[q]) = Refs(g.quiz[q])
  BY <1>3 DEF Refs
<1>5. Graph(h)
  BY <1>1, <1>2 DEF Sound, Graph, Entries
<1>6. Quizzes(h)
  <2> SUFFICES ASSUME NEW q \in DOMAIN g.quiz PROVE QuizOK(h, q)
    BY <1>1 DEF Quizzes
  <2>1. QuizOK(g, q)
    BY DEF Sound, Quizzes
  <2>2. RetiredRefs(h, q) = RetiredRefs(g, q) \cup (Refs(g.quiz[q]) \cap us \cap DOMAIN g.nodes)
    BY <1>1, <1>2, <1>4 DEF RetiredRefs
  <2>3. mark(q) \subseteq Refs(g.quiz[q]) \cap us \cap DOMAIN g.nodes
    BY DEF Snapshot, Standing
  <2>4. ~g.quiz[q].raced => mark(q) = Refs(g.quiz[q]) \cap us
    BY DEF Snapshot
  <2> HIDE DEF mark, us
  <2> QED
    BY <2>1, <2>2, <2>3, <2>4, <1>1, <1>3, <1>4 DEF QuizOK
<1> HIDE DEF mark
<1>7. \A u : Held(h, u) <=> Held(g, u)
  BY <1>1, <1>4 DEF Held, AskedBy, Selected
<1>8. Answers(h)
  <2> SUFFICES ASSUME NEW a \in g.answers PROVE AnswerOK(h, a)
    BY <1>1 DEF Answers
  <2>1. AnswerOK(g, a)
    BY DEF Sound, Answers
  <2> QED
    BY <2>1, <1>1, <1>2, <1>3, <1>4 DEF AnswerOK
<1>9. \A u \in us : Held(g, u)
  BY DEF Snapshot, Standing, Held, AskedBy
<1>10. NoneLeft(h)
  BY <1>1, <1>2, <1>7, <1>9 DEF Sound, NoneLeft
<1>11. ASSUME NEW u \in (w.gone \ us) \cap DOMAIN g.nodes PROVE Loose(h, u) /\ h.nodes[u].live
  <2>1. u \in DOMAIN g.nodes /\ g.nodes[u].live /\ h.nodes[u].live
    BY <1>2, <1>11 DEF Standing
  <2>2. \A q \in DOMAIN g.quiz : u \in Refs(g.quiz[q]) => g.quiz[q].raced
    BY DEF Snapshot
  <2>3. \A q \in DOMAIN g.quiz : u \notin h.quiz[q].broken
    BY <1>1, <1>6, <2>1 DEF Quizzes, QuizOK, RetiredRefs
  <2>4. \A a \in g.answers : a.selected = u => g.quiz[a.quiz].raced
    BY <2>1, <2>2 DEF Sound, Answers, AnswerOK
  <2>5. \A a \in g.answers : a.quiz \in DOMAIN g.quiz
    BY DEF Sound, Answers, AnswerOK
  <2> QED
    BY <1>1, <1>3, <1>4, <2>1, <2>2, <2>3, <2>4, <2>5 DEF Loose
<1> QED
  BY <1>1, <1>5, <1>6, <1>8, <1>10, <1>11 DEF Sound, h

LEMMA DropSound ==
    ASSUME NEW g, Sound(g), NEW w, Snapshot(g, w), Standing(g, w)
    PROVE  /\ Sound(Drop(g, w)) 
           /\ DOMAIN Drop(g, w).res = DOMAIN g.res /\ Onward(g, Drop(g, w))
<1> DEFINE h == Retired(g, w.kept, w.asked)
           gone == w.gone \ w.kept
<1>3. /\ Sound(h) /\ DOMAIN h.nodes = DOMAIN g.nodes /\ DOMAIN h.res = DOMAIN g.res /\ h.next = g.next
      /\ \A u \in gone \cap DOMAIN g.nodes : Loose(h, u) /\ h.nodes[u].live
  BY RetiredSound
<1> HIDE DEF h, gone
<1>4. Sound(Without(h, gone)) /\ Onward(h, Without(h, gone))
  BY <1>3, WithoutSound DEF Sound, NoneLeft
<1>5. Without(h, gone).res = h.res /\ Without(h, gone).next = h.next
  BY <1>3 DEF Without, Sound, Graph, Fields
<1>6. Drop(g, w) = Without(h, gone)
  BY DEF Drop, h, gone
<1> QED
  BY <1>3, <1>4, <1>5, <1>6 DEF Onward

---------------------------------------------------------------------------
(* Imports: what each query leaves of the graph.                               *)

LEMMA LargestIn ==
    ASSUME NEW T \in SUBSET Nat, T # {}, NEW k \in Nat, \A x \in T : x <= k
    PROVE  Max(T) \in T
<1> DEFINE R == OpToRel(<, Nat)
           D == {d \in Nat : \E x \in T : d = k - x}
<1>1. D \subseteq Nat /\ D # {}
  <2>1. PICK x \in T : TRUE
    OBVIOUS
  <2>2. k - x \in D
    OBVIOUS
  <2> QED
    BY <2>2
<1>2. \E d \in D : \A e \in D : ~ (<<e, d>> \in R)
  <2> HIDE DEF D, R
  <2> QED
    BY <1>1, NatLessThanWellFounded, WFMin DEF R
<1>3. PICK d \in D : \A e \in D : ~ (<<e, d>> \in R)
  BY <1>2
<1>4. PICK m \in T : d = k - m
  OBVIOUS
<1>5. ASSUME NEW x \in T PROVE m >= x
  <2>1. (k - x) \in D /\ (k - x) \in Nat /\ d \in Nat
    OBVIOUS
  <2>2. ~((k - x) < d)
    BY <2>1, <1>3 DEF OpToRel
  <2> QED
    BY <2>1, <2>2, <1>4
<1> QED
  BY <1>5, Zenon DEF Max

LEMMA KnownCounts ==
    ASSUME NEW tree, NEW names, Len(names) \in Nat
    PROVE  Known(tree, names) \in 0 .. Len(names)
<1> DEFINE T == {0} \cup {i \in 1 .. Len(names) : At(tree, SubSeq(names, 1, i)) # None}
<1>1. T \in SUBSET Nat /\ T # {} /\ T \subseteq 0 .. Len(names) /\ \A x \in T : x <= Len(names)
  OBVIOUS
<1>2. Known(tree, names) = Max(T)
  BY DEF Known
<1> HIDE DEF T
<1> QED
  BY <1>1, <1>2, LargestIn

LEMMA PathOK ==
    ASSUME NEW q \in Requests \cup Syncs PROVE Len(Folders(q.path)) \in Nat
<1>1. q.path \in Seq(STRING)
  BY LibraryAssumption DEF LibraryAssumption
<1>2. CASE q.path = <<>>
  BY <1>2 DEF Folders
<1>3. CASE q.path # <<>>
  BY <1>1, <1>3 DEF Folders, Front
<1> QED
  BY <1>2, <1>3

LEMMA FillGrows ==
    ASSUME NEW g, Sound(g), NEW tree, NEW names, Len(names) \in Nat
    PROVE  LET f == FillParents(g, tree, names).g IN
           /\ f.next \in Nat /\ g.next <= f.next /\ DOMAIN f = Fields
           /\ \A x \in Fields \ {"next", "tree"} : f[x] = g[x]
           /\ \A e \in DOMAIN f.tree : /\ DOMAIN f.tree[e] = {"kind", "name", "parent"}
                                       /\ f.tree[e].kind = "resource" => e \in DOMAIN g.res
<1> DEFINE known == Known(tree, names)
           f == FillParents(g, tree, names).g
           last == g.next + Len(names) - known - 1
<1>1. known \in 0 .. Len(names) /\ g.next \in Nat /\ DOMAIN g = Fields
  BY KnownCounts DEF Sound, Graph
<1>2. /\ DOMAIN f = Fields /\ f.next = last + 1
      /\ \A x \in Fields \ {"next", "tree"} : f[x] = g[x]
  BY <1>1, Zenon DEF FillParents, Fields
<1> QED
  <2>1. last + 1 \in Nat /\ g.next <= last + 1
    BY <1>1
  <2>2. ASSUME NEW e \in DOMAIN f.tree
        PROVE  /\ DOMAIN f.tree[e] = {"kind", "name", "parent"}
               /\ f.tree[e].kind = "resource" => e \in DOMAIN g.res
    <3> DEFINE top == IF At(tree, SubSeq(names, 1, known)) = User
                         \/ At(tree, SubSeq(names, 1, known)) \in DOMAIN g.tree
                      THEN At(tree, SubSeq(names, 1, known)) ELSE Detached
               made == [x \in g.next .. last |->
                             [kind |-> "folder", name |-> names[known + 1 + x - g.next],
                              parent |-> IF x = g.next THEN top ELSE x - 1]]
    <3>1. f.tree = made ++ g.tree
      BY <1>1, Zenon DEF FillParents, Fields
    <3>2. \A x \in DOMAIN made : DOMAIN made[x] = {"kind", "name", "parent"} /\ made[x].kind = "folder"
      OBVIOUS
    <3> HIDE DEF f, made
    <3> QED
      BY <3>1, <3>2 DEF ++, Sound, Graph, Entries
  <2> QED
    BY <2>1, <2>2, <1>2

LEMMA MovedGrows ==
    ASSUME NEW g, Sound(g), NEW tree, NEW q, Len(Folders(q.path)) \in Nat,
           NEW ex, ex = None \/ ex \in DOMAIN g.res
    PROVE  Grown(g, Moved(g, tree, q, ex)) /\ Moved(g, tree, q, ex).nodes = g.nodes
<1> DEFINE rid == IF ex = None THEN g.next ELSE ex
           own == [hash |-> q.text, updated |-> Dated(g, ex),
                   stats |-> IF ex = None THEN FALSE ELSE g.res[ex].stats]
           g1  == [g EXCEPT !.next = IF ex = None THEN @ + 1 ELSE @, !.clock = @ + 1,
                            !.res = Only(rid, own) ++ @]
           f   == FillParents(g1, tree, Folders(q.path))
           h   == Moved(g, tree, q, ex)
           entry == [kind |-> "resource", name |-> Title, parent |-> f.parent]
<1>1. /\ DOMAIN g1 = Fields /\ g1.tree = g.tree /\ g1.nodes = g.nodes /\ g1.quiz = g.quiz
      /\ g1.answers = g.answers /\ g1.next = IF ex = None THEN g.next + 1 ELSE g.next
      /\ g1.res = Only(rid, own) ++ g.res
  BY DEF Sound, Graph, Fields
<1> HIDE DEF g1
<1>2. DOMAIN g1.res = DOMAIN g.res \cup {rid}
  BY <1>1 DEF Only, ++
<1>3. rid \in Nat /\ rid < g1.next /\ g1.next \in Nat /\ g.next <= g1.next
  BY <1>1 DEF Sound, Graph
<1>4. Grown(g, g1)
  <2>1. Entries(g1)
    BY <1>1, <1>2 DEF Sound, Graph, Entries
  <2>2. \A r \in DOMAIN g1.res \ DOMAIN g.res : r \in Nat /\ g.next <= r /\ r < g1.next
    <3> SUFFICES ASSUME ex = None, rid \notin DOMAIN g.res PROVE g.next <= rid
      BY <1>2, <1>3
    <3> QED
      BY DEF Sound, Graph
  <2> HIDE DEF rid
  <2> QED
    BY <1>1, <1>3, <2>1, <2>2 DEF Grown, Sound, Graph
<1>5. Sound(g1)
  BY <1>4, GrownSound
<1>6. /\ f.g.next \in Nat /\ g1.next <= f.g.next /\ DOMAIN f.g = Fields
      /\ \A x \in Fields \ {"next", "tree"} : f.g[x] = g1[x]
      /\ \A e \in DOMAIN f.g.tree : /\ DOMAIN f.g.tree[e] = {"kind", "name", "parent"}
                                    /\ f.g.tree[e].kind = "resource" => e \in DOMAIN g1.res
  BY <1>5, FillGrows
<1>7. h = [f.g EXCEPT !.tree = Only(rid, entry) ++ @]
  BY DEF Moved, g1
<1> HIDE DEF f
<1>8. /\ DOMAIN h = Fields /\ h.next = f.g.next /\ h.tree = Only(rid, entry) ++ f.g.tree
      /\ \A x \in Fields \ {"next", "tree"} : h[x] = g1[x]
  BY <1>6, <1>7 DEF Fields
<1> HIDE DEF h
<1>9. /\ h.res = g1.res /\ h.nodes = g1.nodes /\ h.quiz = g1.quiz /\ h.answers = g1.answers
  BY <1>8 DEF Fields
<1>10. Entries(h)
  <2>1. DOMAIN entry = {"kind", "name", "parent"} /\ rid \in DOMAIN g1.res
    BY <1>2
  <2> HIDE DEF entry, rid
  <2> QED
    BY <2>1, <1>6, <1>8, <1>9 DEF Entries, Only, ++
<1>11. Grown(g, h)
  <2> HIDE DEF rid
  <2>1. h.next \in Nat /\ g.next <= h.next
    BY <1>3, <1>6, <1>8 DEF Sound, Graph
  <2> QED
    BY <2>1, <1>4, <1>6, <1>8, <1>9, <1>10, <1>3 DEF Grown, Sound, Graph
<1> QED
  BY <1>1, <1>9, <1>11 DEF h

LEMMA CreatedGrows ==
    ASSUME NEW g, Sound(g), NEW rid, NEW values, IsFiniteSet(values)
    PROVE  LET h == Created(g, rid, values).g IN
           Grown(g, h) /\ DOMAIN h.res = DOMAIN g.res
<1> DEFINE h == Created(g, rid, values).g
           order == SetToSeq(values)
           n == Cardinality(values)
<1>1. n \in Nat /\ ExistsBijection(1 .. n, values)
  BY FS_CardinalityType
<1>2. \E x \in [1 .. n -> values] : IsInjective(x)
  BY <1>1 DEF ExistsBijection, Bijection, Injection, IsInjective
<1>3. order \in [1 .. n -> values]
  BY <1>2, Zenon DEF SetToSeq
<1> HIDE DEF order
<1>4. Len(order) = n
  BY <1>1, <1>3
<1> DEFINE made == [u \in {g.next + i - 1 : i \in 1 .. Len(order)} |->
                      [val |-> order[u - g.next + 1][1], res |-> rid, live |-> TRUE]]
<1>5. /\ DOMAIN h = Fields /\ h.next = g.next + Len(order) /\ h.nodes = made ++ g.nodes
      /\ h.res = g.res /\ h.tree = g.tree /\ h.quiz = g.quiz /\ h.answers = g.answers
  BY DEF Created, Sound, Graph, Fields, order
<1>6. /\ \A u \in DOMAIN made : u \in Nat /\ g.next <= u /\ u < h.next
      /\ \A u \in DOMAIN made : DOMAIN made[u] = {"val", "res", "live"} /\ made[u].live = TRUE
  BY <1>1, <1>4, <1>5 DEF Sound, Graph
<1> HIDE DEF made, h
<1>7. h.next \in Nat /\ g.next <= h.next
  BY <1>1, <1>4, <1>5 DEF Sound, Graph
<1>8. \A u \in DOMAIN g.nodes : u \notin DOMAIN made /\ u \in DOMAIN h.nodes /\ h.nodes[u] = g.nodes[u]
  <2>1. \A u \in DOMAIN g.nodes : u \in Nat /\ u < g.next
    BY DEF Sound, Graph
  <2>2. g.next \in Nat
    BY DEF Sound, Graph
  <2> QED
    BY <2>1, <2>2, <1>5, <1>6 DEF ++
<1>9. \A u \in DOMAIN h.nodes \ DOMAIN g.nodes : u \in DOMAIN made /\ h.nodes[u] = made[u]
  BY <1>5 DEF ++
<1>10. \A u \in DOMAIN made : u \notin DOMAIN g.res
  BY <1>6 DEF Sound, Graph
<1>11. Entries(h)
  BY <1>5 DEF Sound, Graph, Entries
<1>12. \A u \in DOMAIN h.nodes :
          /\ DOMAIN h.nodes[u] = {"val", "res", "live"} /\ h.nodes[u].live \in BOOLEAN
          /\ u \in DOMAIN g.nodes => h.nodes[u].live = g.nodes[u].live
          /\ u \notin DOMAIN g.nodes =>
                h.nodes[u].live /\ u \in Nat /\ g.next <= u /\ u < h.next /\ u \notin DOMAIN h.res
  <2> TAKE u \in DOMAIN h.nodes
  <2>1. CASE u \in DOMAIN g.nodes
    BY <2>1, <1>8 DEF Sound, Graph
  <2>2. CASE u \notin DOMAIN g.nodes
    BY <2>2, <1>5, <1>6, <1>9, <1>10
  <2> QED
    BY <2>1, <2>2
<1> QED
  BY <1>5, <1>7, <1>8, <1>11, <1>12 DEF Grown, h

LEMMA EdgesOnly ==
    ASSUME NEW g, Sound(g), NEW edges
    PROVE  LET h == [g EXCEPT !.edges = edges] IN Grown(g, h) /\ DOMAIN h.res = DOMAIN g.res
<1> DEFINE h == [g EXCEPT !.edges = edges]
<1>1. /\ DOMAIN h = Fields /\ h.next = g.next /\ h.nodes = g.nodes
      /\ h.res = g.res /\ h.tree = g.tree /\ h.quiz = g.quiz /\ h.answers = g.answers
  BY DEF Sound, Graph, Fields
<1> HIDE DEF h
<1> QED
  BY <1>1 DEF Grown, Sound, Graph, Entries, h

LEMMA SameSound ==
    ASSUME NEW g, Sound(g)
    PROVE  Grown(g, g)
BY DEF Grown, Sound, Graph

LEMMA MendedSound ==
    ASSUME NEW g, Sound(g), NEW rid
    PROVE  /\ Sound(Mended(g, rid)) /\ DOMAIN Mended(g, rid).res = DOMAIN g.res
           /\ Mended(g, rid).nodes = g.nodes /\ Mended(g, rid).quiz = g.quiz /\ Onward(g, Mended(g, rid))
<1>1. CASE Mended(g, rid) = g
  BY <1>1, SameSound, GrownSound
<1>2. ASSUME NEW top, Mended(g, rid) = [g EXCEPT !.edges = @ \cup {<<rid, top, "below">>}]
      PROVE  /\ Sound(Mended(g, rid)) /\ DOMAIN Mended(g, rid).res = DOMAIN g.res
             /\ Mended(g, rid).nodes = g.nodes /\ Mended(g, rid).quiz = g.quiz /\ Onward(g, Mended(g, rid))
  <2>1. [g EXCEPT !.edges = @ \cup {<<rid, top, "below">>}].nodes = g.nodes
    BY DEF Sound, Graph, Fields
  <2>3. [g EXCEPT !.edges = @ \cup {<<rid, top, "below">>}].quiz = g.quiz
    BY DEF Sound, Graph, Fields
  <2>2. Grown(g, Mended(g, rid)) /\ DOMAIN Mended(g, rid).res = DOMAIN g.res
    BY <1>2, EdgesOnly
  <2> QED
    BY <2>1, <2>2, <2>3, <1>2, GrownSound
<1> QED
  BY <1>1, <1>2 DEF Mended

LEMMA RebuiltSound ==
    ASSUME NEW g, Sound(g), NEW rid, NEW p
    PROVE  Sound(Rebuilt(g, rid, p)) /\ Onward(g, Rebuilt(g, rid, p))
<1>1. \E edges : Rebuilt(g, rid, p) = [Mended(g, rid) EXCEPT !.edges = edges]
  BY Zenon DEF Rebuilt
<1>2. Sound(Mended(g, rid)) /\ Onward(g, Mended(g, rid))
  BY MendedSound
<1>3. Sound(Rebuilt(g, rid, p)) /\ Onward(Mended(g, rid), Rebuilt(g, rid, p))
  BY <1>1, <1>2, EdgesOnly, GrownSound
<1> QED
  BY <1>2, <1>3, OnwardTwice DEF Sound, Graph

LEMMA WrittenSound ==
    ASSUME NEW g, Sound(g), NEW rid, NEW new, IsFiniteSet(new.sents)
    PROVE  Sound(Written(g, rid, new)) /\ Onward(g, Written(g, rid, new))
<1> DEFINE m == Created(g, rid, new.sents).g
           h == Written(g, rid, new)
<1>1. Grown(g, m) /\ DOMAIN m.res = DOMAIN g.res
  BY CreatedGrows
<1>2. Sound(m) /\ Onward(g, m)
  BY <1>1, GrownSound
<1>3. \E edges, defs : h = [m EXCEPT !.edges = edges, !.defs = defs]
  BY Zenon DEF Written
<1> HIDE DEF m
<1>4. /\ DOMAIN h = Fields /\ h.next = m.next /\ h.nodes = m.nodes
      /\ h.res = m.res /\ h.tree = m.tree /\ h.quiz = m.quiz /\ h.answers = m.answers
  BY <1>2, <1>3 DEF Sound, Graph, Fields
<1> HIDE DEF h
<1>5. Grown(m, h)
  BY <1>2, <1>4 DEF Grown, Sound, Graph, Entries
<1> QED
  BY <1>2, <1>5, GrownSound, OnwardTwice DEF h, Sound, Graph

\* What an import has planned names only what it found, and the root is no sentence.
PlanOK(g, p) ==
    /\ IsFiniteSet(p.plan.sents.added) /\ p.plan.sents.removed \subseteq DOMAIN p.ids
    /\ Root \in DOMAIN p.ids => p.ids[Root] \notin DOMAIN g.nodes

LEMMA AppliedSound ==
    ASSUME NEW g, Sound(g), NEW rid, NEW p, PlanOK(g, p), Matches(g, p.plan, p.ids, p.old),
           NEW w, Snapshot(g, w), w.gone = {p.ids[v] : v \in p.plan.sents.removed},
           Root \in DOMAIN p.ids => p.ids[Root] \notin w.kept
    PROVE  LET h == Applied(g, rid, w, p.plan, p.ids, p.old, p.new) IN Sound(h) /\ Onward(g, h)
<1> DEFINE g1 == Drop(g, w)
           m  == Created(g1, rid, p.plan.sents.added).g
           vals == {<<p.ids[x[1]], x[2][1]>> : x \in p.plan.sents.updated}
           h == Applied(g, rid, w, p.plan, p.ids, p.old, p.new)
<1>1. Standing(g, w)
  <2> SUFFICES ASSUME NEW v \in p.plan.sents.removed
               PROVE  /\ p.ids[v] \in DOMAIN g.nodes => g.nodes[p.ids[v]].live
                      /\ p.ids[v] \in w.kept => p.ids[v] \in DOMAIN g.nodes
    BY DEF Standing, Snapshot
  <2>1. v \in DOMAIN p.ids
    BY DEF PlanOK
  <2>2. v # Root => p.ids[v] \in DOMAIN g.nodes /\ g.nodes[p.ids[v]].live
    BY <2>1 DEF Matches
  <2> QED
    BY <2>1, <2>2 DEF PlanOK
<1>2. Sound(g1) /\ Onward(g, g1)
  BY <1>1, DropSound
<1> HIDE DEF g1
<1>3. Grown(g1, m) /\ DOMAIN m.res = DOMAIN g1.res
  BY <1>2, CreatedGrows DEF PlanOK
<1>4. Sound(m) /\ Onward(g1, m)
  BY <1>2, <1>3, GrownSound
<1>5. \E edges, defs : h = [m EXCEPT !.edges = edges, !.defs = defs,
          !.nodes = [u \in DOMAIN @ |->
                       IF u \in Firsts(vals)
                       THEN [@[u] EXCEPT !.val = (CHOOSE x \in vals : x[1] = u)[2]]
                       ELSE @[u]]]
  BY Zenon DEF Applied, g1
<1> HIDE DEF m, vals
<1>6. /\ DOMAIN h = Fields /\ h.next = m.next /\ DOMAIN h.nodes = DOMAIN m.nodes
      /\ \A u \in DOMAIN m.nodes :
            h.nodes[u] = IF u \in Firsts(vals)
                         THEN [m.nodes[u] EXCEPT !.val = (CHOOSE x \in vals : x[1] = u)[2]]
                         ELSE m.nodes[u]
      /\ h.res = m.res /\ h.tree = m.tree /\ h.quiz = m.quiz /\ h.answers = m.answers
  BY <1>4, <1>5 DEF Sound, Graph, Fields
<1> HIDE DEF h
<1>7. \A u \in DOMAIN m.nodes : DOMAIN m.nodes[u] = {"val", "res", "live"} /\ m.nodes[u].live \in BOOLEAN
  BY <1>4 DEF Sound, Graph
<1>8. \A u \in DOMAIN m.nodes : DOMAIN h.nodes[u] = {"val", "res", "live"} /\ h.nodes[u].live = m.nodes[u].live
  BY <1>6, <1>7
<1>9. Grown(m, h)
  BY <1>4, <1>6, <1>7, <1>8 DEF Grown, Sound, Graph, Entries
<1>10. Sound(h) /\ Onward(m, h)
  BY <1>4, <1>9, GrownSound
<1>11. Onward(g, m)
  BY <1>2, <1>4, OnwardTwice DEF Sound, Graph
<1> QED
  BY <1>10, <1>11, OnwardTwice DEF Sound, Graph, h

LEMMA UpdatedSound ==
    ASSUME NEW g, Sound(g), NEW rid, NEW p, PlanOK(g, p),
           NEW w, Snapshot(g, w), w.gone = {p.ids[v] : v \in p.plan.sents.removed},
           Root \in DOMAIN p.ids => p.ids[Root] \notin w.kept
    PROVE  Sound(Updated(g, rid, w, p)) /\ Onward(g, Updated(g, rid, w, p))
<1>1. \E edges : Related(g, p.plan, p.ids) = [g EXCEPT !.edges = edges]
  BY Zenon DEF Related
<1>2. Sound(Related(g, p.plan, p.ids)) /\ Onward(g, Related(g, p.plan, p.ids))
  BY <1>1, EdgesOnly, GrownSound
<1> QED
  BY <1>2, AppliedSound, SameSound, GrownSound DEF Updated

\* What an import that is prepared has found.
ViewOK(g, v) ==
    /\ v.c.ex = None => IsFiniteSet(v.update.new.sents)
    /\ v.c.ex # None /\ v.mode = "diff" => PlanOK(g, v.update)

LEMMA SavedSound ==
    ASSUME NEW g, Sound(g), NEW v, Len(Folders(v.q.path)) \in Nat, ViewOK(g, v),
           v.c.ex = None \/ v.c.ex \in DOMAIN g.res,
           NEW w, Snapshot(g, w), w.gone = Removed(v),
           v.c.ex # None /\ v.mode = "diff" => v.update.ids[Root] \notin w.kept
    PROVE  Sound(Saved(g, v, w)) /\ Onward(g, Saved(g, v, w))
<1> DEFINE g1  == IF v.c.unchanged THEN g ELSE Moved(g, v.tree, v.q, v.c.ex)
           rid == IF v.c.ex = None THEN g.next ELSE v.c.ex
           g2  == Persisted(g1, rid, v, w)
<1>1. Sound(g1) /\ g1.nodes = g.nodes /\ g1.quiz = g.quiz /\ Onward(g, g1)
  <2>1. Grown(g, Moved(g, v.tree, v.q, v.c.ex)) /\ Moved(g, v.tree, v.q, v.c.ex).nodes = g.nodes
    BY MovedGrows
  <2>2. Moved(g, v.tree, v.q, v.c.ex).quiz = g.quiz
    BY <2>1 DEF Grown
  <2> QED
    BY <2>1, <2>2, SameSound, GrownSound
<1> HIDE DEF rid, g1
<1>2. Sound(Mended(g1, rid)) /\ DOMAIN Mended(g1, rid).res = DOMAIN g1.res
      /\ Mended(g1, rid).nodes = g.nodes /\ Mended(g1, rid).quiz = g.quiz /\ Onward(g1, Mended(g1, rid))
  BY <1>1, MendedSound
<1>3. ASSUME NEW h, h.nodes = g.nodes, v.c.ex # None, v.mode = "diff"
      PROVE  PlanOK(h, v.update)
  BY <1>3 DEF ViewOK, PlanOK
<1> DEFINE h == IF v.c.broken THEN Mended(g1, rid) ELSE g1
<1>4. Sound(h) /\ h.nodes = g.nodes /\ h.quiz = g.quiz /\ Onward(g, h)
  BY <1>1, <1>2, OnwardTwice DEF Sound, Graph
<1> HIDE DEF h
<1>5. \/ v.c.ex = None /\ g2 = Written(g1, rid, v.update.new)
      \/ g2 = Rebuilt(h, rid, v.update)
      \/ v.c.ex # None /\ v.mode = "diff" /\ g2 = Updated(h, rid, w, v.update)
      \/ g2 = g1
  BY DEF Persisted, h
<1>6. Sound(g2) /\ Onward(g, g2)
  <2>1. CASE v.c.ex = None /\ g2 = Written(g1, rid, v.update.new)
    BY <1>1, <2>1, WrittenSound, OnwardTwice DEF ViewOK, Sound, Graph
  <2>2. CASE g2 = Rebuilt(h, rid, v.update)
    BY <1>4, <2>2, RebuiltSound, OnwardTwice DEF Sound, Graph
  <2>3. CASE v.c.ex # None /\ v.mode = "diff" /\ g2 = Updated(h, rid, w, v.update)
    <3>1. PlanOK(h, v.update)
      BY <1>3, <1>4, <2>3
    <3>2. Snapshot(h, w)
      BY <1>4, Zenon DEF Snapshot
    <3>3. w.gone = {v.update.ids[x] : x \in v.update.plan.sents.removed}
      BY <2>3 DEF Removed
    <3>4. Sound(g2) /\ Onward(h, g2)
      <4>1. Root \in DOMAIN v.update.ids => v.update.ids[Root] \notin w.kept
        BY <2>3
      <4> DEFINE p == v.update
      <4>2. PlanOK(h, p) /\ w.gone = {p.ids[x] : x \in p.plan.sents.removed} /\ g2 = Updated(h, rid, w, p)
        BY <2>3, <3>1, <3>3
      <4>3. Root \in DOMAIN p.ids => p.ids[Root] \notin w.kept
        BY <4>1
      <4> HIDE DEF p, g2
      <4> QED
        BY <1>4, <3>2, <4>2, <4>3, UpdatedSound
    <3> QED
      BY <1>4, <3>4, OnwardTwice DEF Sound, Graph
  <2> QED
    BY <1>1, <1>5, <2>1, <2>2, <2>3
<1> HIDE DEF g2
<1>7. Sound([g2 EXCEPT !.res[rid].stats = TRUE]) /\ Onward(g, [g2 EXCEPT !.res[rid].stats = TRUE])
  <2> DEFINE k == [g2 EXCEPT !.res[rid].stats = TRUE]
  <2>1. /\ DOMAIN k = Fields /\ k.next = g2.next /\ k.nodes = g2.nodes
        /\ DOMAIN k.res = DOMAIN g2.res /\ k.tree = g2.tree /\ k.quiz = g2.quiz /\ k.answers = g2.answers
    BY <1>6 DEF Sound, Graph, Fields
  <2> HIDE DEF k
  <2>2. Grown(g2, k)
    BY <1>6, <2>1 DEF Grown, Sound, Graph, Entries
  <2> QED
    BY <1>6, <2>2, GrownSound, OnwardTwice DEF k, Sound, Graph
<1> QED
  BY <1>1, <1>7 DEF Saved, g1, g2, rid

---------------------------------------------------------------------------
(* The invariant.                                                              *)

Stored(d) == dev[d].stage \in {"prepared", "written"}
Views ==
    \A d \in Devices :
        /\ dev[d] = Idle \/ (DOMAIN dev[d] = {"stage", "q", "tree", "res", "version"}
                              /\ dev[d].stage = "entered" /\ dev[d].q \in Requests)
           \/ (DOMAIN dev[d] = {"stage", "q", "tree", "version", "c", "mode", "update"}
               /\ Stored(d) /\ dev[d].q \in Requests)
        /\ Stored(d) => ViewOK(db, dev[d])
        /\ Stored(d) /\ dev[d].c.ex # None /\ dev[d].mode = "diff" =>
              dev[d].c.ex \in Nat /\ dev[d].c.ex < db.next
                                  /\ dev[d].update.ids[Root] = dev[d].c.ex
        /\ dev[d].stage = "written" =>
              /\ dev[d].c.ex = None \/ dev[d].c.ex \in DOMAIN db.res
              /\ \A other \in Devices : dev[other].stage = "written" => other = d

\* What the request that writes the text has found is so still; an import writes
\* alone, and so does a deletion.
WriterOK ==
    /\ \A d \in Devices : dev[d].stage = "written" =>
          writer # Idle /\ writer.deletes = None /\ writer.gone = Removed(dev[d])
    /\ writer # Idle =>
          /\ Snapshot(db, writer)
          /\ writer.kept \cap DOMAIN db.res = {}
          /\ writer.deletes # None => Standing(db, writer)

\* The sentences a quiz is to be led to stand until a text is written again.
Aims(v) == IF v.act = "create" THEN {v.x, v.y} ELSE {v.y}
Alive(g, u) == u \in DOMAIN g.nodes /\ g.nodes[u].live
DraftOK ==
    /\ story.version \in Nat
    /\ draft # None => /\ draft.version \in Nat /\ draft.version <= story.version
                       /\ draft.version = story.version => \A u \in Aims(draft) : Alive(db, u)

LibraryInv == Sound(db) /\ DOMAIN dev = Devices /\ Views /\ SlotsAddUp /\ WriterOK /\ DraftOK

LEMMA ViewStays ==
    ASSUME NEW g, NEW h, g.next \in Nat, Onward(g, h), NEW v, ViewOK(g, v),
           v.c.ex # None /\ v.mode = "diff" =>
              v.c.ex \in Nat /\ v.c.ex < g.next /\ v.update.ids[Root] = v.c.ex
    PROVE  /\ ViewOK(h, v)
           /\ v.c.ex # None /\ v.mode = "diff" => v.c.ex < h.next
BY DEF ViewOK, PlanOK, Onward

\* The sentences change, or imports end, and no import begins.
LEMMA ViewsStay ==
    ASSUME Views, Sound(db), Onward(db, db'), DOMAIN dev' = Devices,
           \A d \in Devices : dev'[d] = dev[d] \/ dev'[d] = Idle,
           DOMAIN db.res \subseteq DOMAIN db'.res \/ \A d \in Devices : dev'[d].stage # "written"
    PROVE  Views'
<1> SUFFICES ASSUME NEW d \in Devices
             PROVE
        /\ dev'[d] = Idle \/ (DOMAIN dev'[d] = {"stage", "q", "tree", "res", "version"}
                              /\ dev'[d].stage = "entered" /\ dev'[d].q \in Requests)
           \/ (DOMAIN dev'[d] = {"stage", "q", "tree", "version", "c", "mode", "update"}
               /\ Stored(d)' /\ dev'[d].q \in Requests)
        /\ Stored(d)' => ViewOK(db', dev'[d])
        /\ Stored(d)' /\ dev'[d].c.ex # None /\ dev'[d].mode = "diff" =>
              dev'[d].c.ex \in Nat /\ dev'[d].c.ex < db'.next
                                  /\ dev'[d].update.ids[Root] = dev'[d].c.ex
        /\ dev'[d].stage = "written" =>
              /\ dev'[d].c.ex = None \/ dev'[d].c.ex \in DOMAIN db'.res
              /\ \A other \in Devices : dev'[other].stage = "written" => other = d
  BY DEF Views
<1>0. Idle.stage = "idle"
  BY DEF Idle
<1>1. CASE dev'[d] = Idle
  BY <1>0, <1>1 DEF Stored
<1>2. CASE dev'[d] = dev[d]
  <2>1. Stored(d)' = Stored(d)
    BY <1>2 DEF Stored
  <2>2. Stored(d) => /\ ViewOK(db', dev[d])
                     /\ dev[d].c.ex # None /\ dev[d].mode = "diff" => dev[d].c.ex < db'.next
    BY ViewStays DEF Views, Sound, Graph
  <2>3. \A other \in Devices : dev'[other].stage = "written" => dev[other].stage = "written"
    BY <1>0
  <2> QED
    BY <1>2, <2>1, <2>2, <2>3 DEF Views
<1> QED
  BY <1>1, <1>2

LEMMA SlotsSame ==
    ASSUME SlotsAddUp, UNCHANGED slots, \A d \in Devices : InSlot(d)' <=> InSlot(d)
    PROVE  SlotsAddUp'
<1>1. {d \in Devices : InSlot(d)'} = {d \in Devices : InSlot(d)}
  OBVIOUS
<1> QED
  BY <1>1, Zenon DEF SlotsAddUp

LEMMA SlotsBack ==
    ASSUME SlotsAddUp, NEW d \in Devices, InSlot(d), ~InSlot(d)', GiveBack(d),
           \A e \in Devices \ {d} : InSlot(e)' <=> InSlot(e)
    PROVE  SlotsAddUp'
<1> DEFINE S == {e \in Devices : InSlot(e)}
           T == {e \in Devices : InSlot(e)'}
<1>1. T = S \ {d} /\ d \in S
  OBVIOUS
<1>2. IsFiniteSet(S)
  BY LibraryAssumption, FS_Subset DEF LibraryAssumption
<1>3. slots = [active |-> Cardinality(S), user |-> Cardinality(S)]
  BY DEF SlotsAddUp
<1> HIDE DEF S, T
<1>4. Cardinality(T) = Cardinality(S) - 1 /\ Cardinality(S) \in Nat
  BY <1>1, <1>2, FS_RemoveElement, FS_CardinalityType
<1>5. slots' = [active |-> Cardinality(T), user |-> Cardinality(T)]
  BY <1>3, <1>4 DEF GiveBack
<1> QED
  BY <1>5 DEF SlotsAddUp, T

LEMMA SlotsTaken ==
    ASSUME SlotsAddUp, NEW d \in Devices, ~InSlot(d), InSlot(d)',
           slots' = [active |-> slots.active + 1, user |-> slots.user + 1],
           \A e \in Devices \ {d} : InSlot(e)' <=> InSlot(e)
    PROVE  SlotsAddUp'
<1> DEFINE S == {e \in Devices : InSlot(e)}
           T == {e \in Devices : InSlot(e)'}
<1>1. T = S \cup {d} /\ d \notin S
  OBVIOUS
<1>2. IsFiniteSet(S)
  BY LibraryAssumption, FS_Subset DEF LibraryAssumption
<1>3. slots = [active |-> Cardinality(S), user |-> Cardinality(S)]
  BY DEF SlotsAddUp
<1> HIDE DEF S, T
<1>4. Cardinality(T) = Cardinality(S) + 1 /\ Cardinality(S) \in Nat
  BY <1>1, <1>2, FS_AddElement, FS_CardinalityType
<1>5. slots' = [active |-> Cardinality(T), user |-> Cardinality(T)]
  BY <1>3, <1>4
<1> QED
  BY <1>5 DEF SlotsAddUp, T

LEMMA SameOnward ==
    ASSUME Sound(db), UNCHANGED db PROVE Sound(db') /\ Onward(db, db')
BY DEF Onward, Sound, Graph

\* While no text is written, drafts stay and live sentences live.
LEMMA DraftStays ==
    ASSUME DraftOK, story'.version \in Nat, story.version <= story'.version,
           draft' = draft \/ draft' = None,
           (\A u : Alive(db, u) => Alive(db', u)) \/ story'.version # story.version
    PROVE  DraftOK'
<1>1. CASE draft' = None
  BY <1>1 DEF DraftOK
<1>2. CASE draft' = draft /\ draft # None
  <2>1. draft.version \in Nat /\ draft.version <= story.version
    BY <1>2 DEF DraftOK
  <2>2. draft.version = story'.version => story'.version = story.version
    BY <2>1 DEF DraftOK
  <2>3. Aims(draft)' = Aims(draft)
    BY <1>2 DEF Aims
  <2>4. draft.version = story'.version => \A u \in Aims(draft) : Alive(db', u)
    BY <2>2, <1>2 DEF DraftOK
  <2> QED
    BY <1>2, <2>1, <2>3, <2>4 DEF DraftOK, Alive
<1> QED
  BY <1>1, <1>2

\* What a request that writes has found stays so while other quizzes change.
LEMMA WriterStays ==
    ASSUME WriterOK, writer' = writer,
           \A d \in Devices : dev'[d] = dev[d] \/ dev'[d].stage # "written",
           writer # Idle => /\ Snapshot(db', writer) /\ DOMAIN db'.res = DOMAIN db.res
                            /\ DOMAIN db'.nodes \subseteq DOMAIN db.nodes
                            /\ \A u : Alive(db, u) => Alive(db', u)
    PROVE  WriterOK'
<1>1. ASSUME NEW d \in Devices, dev'[d].stage = "written"
      PROVE  writer # Idle /\ writer.deletes = None /\ writer.gone = Removed(dev'[d])
  <2>1. dev'[d] = dev[d]
    BY <1>1
  <2> QED
    BY <1>1, <2>1 DEF WriterOK
<1>2. ASSUME writer # Idle, writer.deletes # None PROVE Standing(db', writer)
  <2>1. Snapshot(db, writer) /\ Standing(db, writer)
    BY <1>2 DEF WriterOK
  <2>2. \A u \in writer.gone \cap DOMAIN db.nodes : Alive(db', u)
    BY <1>2, <2>1 DEF Standing, Alive
  <2>3. writer.kept \subseteq writer.gone \cap DOMAIN db.nodes
    BY <2>1 DEF Snapshot, Standing
  <2> QED
    BY <1>2, <2>2, <2>3 DEF Standing, Alive
<1>3. WriterOK' <=> /\ \A d \in Devices : dev'[d].stage = "written" =>
                           writer # Idle /\ writer.deletes = None /\ writer.gone = Removed(dev'[d])
                    /\ writer # Idle =>
                           /\ Snapshot(db', writer)
                           /\ writer.kept \cap DOMAIN db'.res = {}
                           /\ writer.deletes # None => Standing(db', writer)
  BY DEF WriterOK, Snapshot, Standing, Removed
<1> QED
  BY <1>1, <1>2, <1>3 DEF WriterOK

LEMMA WriterEnds ==
    ASSUME writer' = Idle, \A d \in Devices : dev'[d].stage # "written" PROVE WriterOK'
BY DEF WriterOK

\* A step of one device that leaves the graph alone.
LEMMA OneMoves ==
    ASSUME LibraryInv, UNCHANGED db, NEW d \in Devices, NEW v, dev' = [dev EXCEPT ![d] = v], v # Idle,
           \/ (DOMAIN v = {"stage", "q", "tree", "res", "version"} /\ v.stage = "entered")
           \/ (DOMAIN v = {"stage", "q", "tree", "version", "c", "mode", "update"}
               /\ v.stage \in {"prepared", "written"}),
           v.q \in Requests,
           v.stage \in {"prepared", "written"} => ViewOK(db, v),
           v.stage \in {"prepared", "written"} /\ v.c.ex # None /\ v.mode = "diff" =>
               v.c.ex \in Nat /\ v.c.ex < db.next /\ v.update.ids[Root] = v.c.ex,
           v.stage = "written" => /\ v.c.ex = None \/ v.c.ex \in DOMAIN db.res
                                  /\ ~Writing
    PROVE  Sound(db') /\ DOMAIN dev' = Devices /\ Views'
<1>1. Sound(db') /\ DOMAIN dev' = Devices /\ dev'[d] = v /\ \A e \in Devices \ {d} : dev'[e] = dev[e]
  BY SameOnward DEF LibraryInv
<1>2. \A e \in Devices : dev[e].stage = "written" /\ v.stage = "written" => FALSE
  BY DEF Writing, LibraryInv, WriterOK
<1> SUFFICES ASSUME NEW e \in Devices
             PROVE
        /\ dev'[e] = Idle \/ (DOMAIN dev'[e] = {"stage", "q", "tree", "res", "version"}
                              /\ dev'[e].stage = "entered" /\ dev'[e].q \in Requests)
           \/ (DOMAIN dev'[e] = {"stage", "q", "tree", "version", "c", "mode", "update"}
               /\ Stored(e)' /\ dev'[e].q \in Requests)
        /\ Stored(e)' => ViewOK(db', dev'[e])
        /\ Stored(e)' /\ dev'[e].c.ex # None /\ dev'[e].mode = "diff" =>
              dev'[e].c.ex \in Nat /\ dev'[e].c.ex < db'.next
                                  /\ dev'[e].update.ids[Root] = dev'[e].c.ex
        /\ dev'[e].stage = "written" =>
              /\ dev'[e].c.ex = None \/ dev'[e].c.ex \in DOMAIN db'.res
              /\ \A other \in Devices : dev'[other].stage = "written" => other = e
  BY <1>1 DEF Views
<1>3. CASE e = d
  BY <1>1, <1>2, <1>3 DEF Stored
<1>4. CASE e # d
  BY <1>1, <1>2, <1>4 DEF Stored, LibraryInv, Views
<1> QED
  BY <1>3, <1>4

\* A step that leaves graph, writer and draft alone.
LEMMA CalmStep ==
    ASSUME LibraryInv, UNCHANGED <<db, writer, story>>, draft' = draft \/ draft' = None,
           \A d \in Devices : dev'[d] = dev[d] \/ dev'[d].stage # "written"
    PROVE  WriterOK' /\ DraftOK'
<1>1. WriterOK /\ DraftOK /\ (writer # Idle => Snapshot(db, writer)) /\ story.version \in Nat
  BY DEF LibraryInv, WriterOK, DraftOK
<1>2. \A u : Alive(db, u) => Alive(db', u)
  BY DEF Alive
<1>3. WriterOK'
  BY <1>1, <1>2, WriterStays
<1>4. DraftOK'
  BY <1>1, <1>2, DraftStays
<1> QED
  BY <1>3, <1>4

LEMMA EnterKeeps ==
    ASSUME LibraryInv, NEW d \in Devices, NEW q \in Requests, Enter(d, q) PROVE LibraryInv'
<1> DEFINE v == [stage |-> "entered", q |-> q, tree |-> db.tree, res |-> db.res, version |-> story.version]
<1>1. dev' = [dev EXCEPT ![d] = v] /\ UNCHANGED <<db, writer, draft, story>>
  BY DEF Enter, quizVars
<1>2. DOMAIN v = {"stage", "q", "tree", "res", "version"} /\ v.stage = "entered" /\ v.q \in Requests /\ v # Idle
  BY DEF Idle
<1> HIDE DEF v
<1>3. Sound(db') /\ DOMAIN dev' = Devices /\ Views'
  BY <1>1, <1>2, OneMoves
<1>4. /\ ~InSlot(d) /\ InSlot(d)'
      /\ \A e \in Devices \ {d} : InSlot(e)' <=> InSlot(e)
  BY <1>1, <1>2 DEF InSlot, Enter, Idle, LibraryInv
<1>5. SlotsAddUp'
  BY <1>4, SlotsTaken DEF Enter, LibraryInv
<1>6. WriterOK' /\ DraftOK'
  <2>1. \A e \in Devices : dev'[e] = dev[e] \/ dev'[e].stage # "written"
    BY <1>1, <1>2 DEF LibraryInv
  <2> QED
    BY <1>1, <2>1, CalmStep
<1> QED
  BY <1>3, <1>5, <1>6 DEF LibraryInv

LEMMA ParsedFinite ==
    ASSUME NEW text, IsFiniteSet(Texts[text].sents) PROVE IsFiniteSet(Parsed(text).sents)
<1> DEFINE S == Texts[text].sents
           T == {Mark(x, "new") : x \in S}
           f == [x \in S |-> Mark(x, "new")]
<1>1. f \in Surjection(S, T)
  BY DEF Surjection
<1>2. Parsed(text).sents = T
  BY DEF Parsed
<1> HIDE DEF f, T
<1> QED
  BY <1>1, <1>2, FS_Surjection

\* What a request plans is about the sentences it found.
LEMMA PlanFound ==
    ASSUME Sound(db), NEW v, NEW c, v.q \in Requests, c.ex \in DOMAIN db.res
    PROVE  PlanOK(db, Update(v, c)) /\ Update(v, c).ids[Root] = c.ex
<1> DEFINE old == Restored(db, c.ex)
           new == Parsed(v.q.text)
           ids == Ids(db, c.ex)
           s   == SentenceDiff(old, new, v.q.res)
<1>1. /\ Update(v, c).ids = ids /\ Update(v, c).plan.sents = s
  BY DEF Update, Plan
<1>2. s.removed \subseteq old.sents /\ s.added \subseteq new.sents
  BY DEF SentenceDiff
<1>3. old.sents \subseteq DOMAIN ids
  BY DEF Restored, Ids
<1>4. ids[Root] = c.ex
  BY DEF Ids, Value
<1>5. IsFiniteSet(new.sents)
  BY LibraryAssumption, ParsedFinite DEF LibraryAssumption
<1>6. IsFiniteSet(s.added)
  BY <1>2, <1>5, FS_Subset
<1>7. c.ex \notin DOMAIN db.nodes
  BY DEF Sound, Graph
<1> HIDE DEF s, old, new, ids
<1> QED
  BY <1>1, <1>2, <1>3, <1>4, <1>6, <1>7 DEF PlanOK

LEMMA PrepareKeeps ==
    ASSUME LibraryInv, NEW d \in Devices, Prepare(d) PROVE LibraryInv'
<1> DEFINE w == dev[d]
           c == Change(w)
           mode == Mode(w, c)
           stored == mode \in {"diff", "structure"}
           u == IF stored THEN Update(w, c) ELSE [new |-> Parsed(w.q.text)]
           v == [stage |-> "prepared", q |-> w.q, tree |-> w.tree, version |-> w.version,
                 c |-> c, mode |-> mode, update |-> u]
<1>1. /\ dev' = [dev EXCEPT ![d] = v] /\ UNCHANGED <<db, slots, writer, draft, story>>
      /\ w.stage = "entered" /\ (stored => c.ex \in DOMAIN db.res)
  BY DEF Prepare, quizVars
<1>2. w.q \in Requests
  BY <1>1 DEF LibraryInv, Views, Idle
<1>3. c.ex = None => mode = "new"
  BY DEF Change, Mode
<1>4. c.ex = None => IsFiniteSet(u.new.sents)
  BY <1>2, <1>3, LibraryAssumption, ParsedFinite DEF LibraryAssumption
<1>5. stored => /\ PlanOK(db, u) /\ u.ids[Root] = c.ex
                /\ c.ex \in Nat /\ c.ex < db.next
  BY <1>1, <1>2, PlanFound DEF LibraryInv, Sound, Graph
<1>6. /\ v.stage = "prepared" /\ v.c = c /\ v.mode = mode /\ v.update = u /\ v.q \in Requests /\ v # Idle
      /\ DOMAIN v = {"stage", "q", "tree", "version", "c", "mode", "update"}
  BY <1>2 DEF Idle
<1> HIDE DEF w, c, mode, u, v
<1>7. ViewOK(db, v)
  BY <1>4, <1>5, <1>6 DEF ViewOK
<1>8. Sound(db') /\ DOMAIN dev' = Devices /\ Views'
  BY <1>1, <1>5, <1>6, <1>7, OneMoves
<1>9. \A e \in Devices : InSlot(e)' <=> InSlot(e)
  BY <1>1, <1>6 DEF InSlot, LibraryInv, w
<1>10. SlotsAddUp'
  BY <1>1, <1>9, SlotsSame DEF LibraryInv
<1>11. WriterOK' /\ DraftOK'
  <2>1. \A e \in Devices : dev'[e] = dev[e] \/ dev'[e].stage # "written"
    BY <1>1, <1>6 DEF LibraryInv
  <2> QED
    BY <1>1, <2>1, CalmStep
<1> QED
  BY <1>8, <1>10, <1>11 DEF LibraryInv

LEMMA WriteKeeps ==
    ASSUME LibraryInv, NEW d \in Devices, Write(d) PROVE LibraryInv'
<1> DEFINE v == [dev[d] EXCEPT !.stage = "written"]
<1>1. /\ dev' = [dev EXCEPT ![d] = v] /\ UNCHANGED <<db, draft, story>> /\ dev[d].stage = "prepared"
      /\ UniqueKey(db, dev[d].c.ex) /\ ~Writing
  BY DEF Write, CanSave, LibraryInv
<1>2. /\ DOMAIN dev[d] = {"stage", "q", "tree", "version", "c", "mode", "update"}
      /\ dev[d].q \in Requests /\ Stored(d)
  BY <1>1 DEF LibraryInv, Views, Idle, Stored
<1>3. /\ v.stage = "written" /\ v.c = dev[d].c /\ v.mode = dev[d].mode /\ v.update = dev[d].update
      /\ v.q = dev[d].q /\ v # Idle
      /\ DOMAIN v = {"stage", "q", "tree", "version", "c", "mode", "update"}
  BY <1>2 DEF Idle
<1> HIDE DEF v
<1>4. ViewOK(db, v)
  BY <1>2, <1>3 DEF LibraryInv, Views, ViewOK
<1>5. v.c.ex = None \/ v.c.ex \in DOMAIN db.res
  BY <1>1, <1>3 DEF UniqueKey
<1>6. v.c.ex # None /\ v.mode = "diff" =>
         v.c.ex \in Nat /\ v.c.ex < db.next /\ v.update.ids[Root] = v.c.ex
  BY <1>2, <1>3 DEF LibraryInv, Views
<1>7. Sound(db') /\ DOMAIN dev' = Devices /\ Views'
  BY <1>1, <1>2, <1>3, <1>4, <1>5, <1>6, OneMoves
<1>8. InSlot(d) /\ ~InSlot(d)' /\ \A e \in Devices \ {d} : InSlot(e)' <=> InSlot(e)
  BY <1>1, <1>3 DEF InSlot, LibraryInv
<1>9. SlotsAddUp'
  BY <1>8, SlotsBack DEF Write, LibraryInv
<1>10. DraftOK'
  <2>1. DraftOK /\ story.version \in Nat
    BY DEF LibraryInv, DraftOK
  <2>2. \A u : Alive(db, u) => Alive(db', u)
    BY <1>1 DEF Alive
  <2> QED
    BY <1>1, <2>1, <2>2, DraftStays
<1>11. WriterOK'
  <2> DEFINE gone == Removed(dev[d])
             w == [asked |-> db.quiz, gone |-> gone, deletes |-> None,
                   kept |-> {u \in gone \cap DOMAIN db.nodes : AskedBy(db, u) # {}}]
  <2>1. writer' = w /\ db' = db
    BY <1>1 DEF Write
  <2>2. /\ w.asked = db.quiz /\ w.gone = gone /\ w.deletes = None
        /\ w.kept = {u \in gone \cap DOMAIN db.nodes : AskedBy(db, u) # {}}
    OBVIOUS
  <2>3. w # Idle
    BY DEF Idle
  <2> HIDE DEF w
  <2>4. Snapshot(db, w)
    BY <2>2 DEF Snapshot, AskedBy
  <2>5. w.kept \cap DOMAIN db.res = {}
    BY <2>2 DEF LibraryInv, Sound, Graph
  <2>6. Removed(v) = gone
    BY <1>3 DEF Removed
  <2>7. \A e \in Devices : dev'[e].stage = "written" => e = d /\ dev'[e] = v
    BY <1>1 DEF LibraryInv, WriterOK, Writing
  <2>8. WriterOK' <=> /\ \A e \in Devices : dev'[e].stage = "written" =>
                             w # Idle /\ w.deletes = None /\ w.gone = Removed(dev'[e])
                      /\ w # Idle => /\ Snapshot(db', w) /\ w.kept \cap DOMAIN db'.res = {}
                                     /\ w.deletes # None => Standing(db', w)
    BY <2>1 DEF WriterOK, Snapshot, Standing, Removed
  <2> QED
    BY <2>1, <2>2, <2>3, <2>4, <2>5, <2>6, <2>7, <2>8
<1> QED
  BY <1>7, <1>9, <1>10, <1>11 DEF LibraryInv

LEMMA CommitKeeps ==
    ASSUME LibraryInv, NEW d \in Devices, Commit(d) PROVE LibraryInv'
<1>1. /\ dev' = [dev EXCEPT ![d] = Idle] /\ UNCHANGED slots /\ dev[d].stage = "written"
      /\ db' = Saved(db, dev[d], writer)
  BY DEF Commit
<1>2. /\ ViewOK(db, dev[d]) /\ dev[d].q \in Requests
      /\ dev[d].c.ex = None \/ dev[d].c.ex \in DOMAIN db.res
      /\ \A other \in Devices \ {d} : dev[other].stage # "written"
  BY <1>1 DEF LibraryInv, Views, Idle, Stored
<1>3. Len(Folders(dev[d].q.path)) \in Nat
  BY <1>2, PathOK
<1>a. Snapshot(db, writer) /\ writer.gone = Removed(dev[d]) /\ writer.kept \cap DOMAIN db.res = {}
  BY <1>1 DEF LibraryInv, WriterOK
<1>b. dev[d].c.ex # None /\ dev[d].mode = "diff" => dev[d].update.ids[Root] \notin writer.kept
  BY <1>1, <1>2, <1>a DEF LibraryInv, Views, Stored
<1>4. Sound(db') /\ Onward(db, db')
  BY <1>1, <1>2, <1>3, <1>a, <1>b, SavedSound DEF LibraryInv
<1>5. DOMAIN dev' = Devices /\ dev'[d] = Idle /\ \A e \in Devices \ {d} : dev'[e] = dev[e]
  BY <1>1 DEF LibraryInv
<1>6. \A e \in Devices : dev'[e].stage # "written"
  BY <1>2, <1>5 DEF Idle
<1>7. Views'
  BY <1>4, <1>5, <1>6, ViewsStay DEF LibraryInv
<1>8. \A e \in Devices : InSlot(e)' <=> InSlot(e)
  BY <1>1, <1>5 DEF InSlot, Idle
<1>9. SlotsAddUp'
  BY <1>1, <1>8, SlotsSame DEF LibraryInv
<1>10. WriterOK'
  BY <1>6, WriterEnds DEF Commit
<1>11. DraftOK'
  <2>1. DraftOK /\ story.version \in Nat
    BY DEF LibraryInv, DraftOK
  <2>2. story'.version = story.version + 1 /\ draft' = draft
    BY DEF Commit
  <2> QED
    BY <2>1, <2>2, DraftStays
<1> QED
  BY <1>4, <1>5, <1>7, <1>9, <1>10, <1>11 DEF LibraryInv

\* An import ends without a trace.
LEMMA EndKeeps ==
    ASSUME LibraryInv, NEW d \in Devices, Fail(d) \/ Rollback(d) PROVE LibraryInv'
<1>1. dev' = [dev EXCEPT ![d] = Idle] /\ UNCHANGED <<db, draft, story>>
  BY DEF Fail, Rollback, quizVars
<1>2. DOMAIN dev' = Devices /\ dev'[d] = Idle /\ \A e \in Devices \ {d} : dev'[e] = dev[e]
  BY <1>1 DEF LibraryInv
<1>3. Sound(db') /\ Onward(db, db') /\ db' = db
  BY <1>1, SameOnward DEF LibraryInv
<1>4. Views'
  BY <1>2, <1>3, ViewsStay DEF LibraryInv
<1>5. ~InSlot(d)' /\ \A e \in Devices \ {d} : InSlot(e)' <=> InSlot(e)
  BY <1>2 DEF InSlot, Idle
<1>6. ASSUME Fail(d) PROVE SlotsAddUp'
  <2>1. InSlot(d) /\ GiveBack(d) /\ SlotsAddUp
    BY <1>6 DEF Fail, LibraryInv
  <2> QED
    BY <2>1, <1>5, SlotsBack
<1>7. ASSUME Rollback(d) PROVE SlotsAddUp'
  <2>1. \A e \in Devices : InSlot(e)' <=> InSlot(e)
    BY <1>5, <1>7 DEF InSlot, Rollback
  <2>2. SlotsAddUp /\ UNCHANGED slots
    BY <1>7 DEF Rollback, LibraryInv
  <2> QED
    BY <2>1, <2>2, SlotsSame
<1>8. ASSUME Fail(d) PROVE WriterOK'
  <2>1. \A e \in Devices : dev'[e] = dev[e] \/ dev'[e].stage # "written"
    BY <1>2 DEF Idle
  <2>2. UNCHANGED <<db, writer, draft, story>>
    BY <1>1, <1>8 DEF Fail, quizVars
  <2> QED
    BY <2>1, <2>2, CalmStep
<1>9. ASSUME Rollback(d) PROVE WriterOK'
  <2>1. \A e \in Devices : dev'[e].stage # "written"
    <3>1. dev[d].stage = "written"
      BY <1>9 DEF Rollback
    <3>2. \A e \in Devices \ {d} : dev[e].stage # "written"
      BY <3>1 DEF LibraryInv, Views
    <3> QED
      BY <1>2, <3>2 DEF Idle
  <2> QED
    BY <1>9, <2>1, WriterEnds DEF Rollback
<1>10. DraftOK'
  <2>1. DraftOK /\ story.version \in Nat
    BY DEF LibraryInv, DraftOK
  <2>2. \A u : Alive(db, u) => Alive(db', u)
    BY <1>1 DEF Alive
  <2> QED
    BY <1>1, <2>1, <2>2, DraftStays
<1> QED
  BY <1>2, <1>3, <1>4, <1>6, <1>7, <1>8, <1>9, <1>10 DEF LibraryInv

LEMMA RestartKeeps ==
    ASSUME LibraryInv, Restart PROVE LibraryInv'
<1>1. dev' = [d \in Devices |-> Idle] /\ slots' = [active |-> 0, user |-> 0] /\ db' = db
  BY DEF Restart
<1>2. DOMAIN dev' = Devices /\ \A d \in Devices : dev'[d] = Idle
  BY <1>1
<1>3. Sound(db') /\ Onward(db, db')
  BY <1>1, SameOnward DEF LibraryInv
<1>4. Views'
  BY <1>1, <1>2, <1>3, ViewsStay DEF LibraryInv
<1>5. {d \in Devices : InSlot(d)'} = {}
  BY <1>2 DEF InSlot, Idle
<1>6. SlotsAddUp'
  BY <1>1, <1>5, FS_EmptySet DEF SlotsAddUp
<1>7. WriterOK'
  BY <1>2, WriterEnds DEF Restart, Idle
<1>8. DraftOK'
  BY DEF LibraryInv, DraftOK, Restart
<1> QED
  BY <1>2, <1>3, <1>4, <1>6, <1>7, <1>8 DEF LibraryInv

\* The rest: entries stay, or no import is between its writes and its commit.
LEMMA OthersKeep ==
    ASSUME LibraryInv, UNCHANGED <<dev, slots>>, Sound(db'), Onward(db, db'),
           DOMAIN db.res \subseteq DOMAIN db'.res \/ \A d \in Devices : dev[d].stage # "written",
           WriterOK', DraftOK'
    PROVE  LibraryInv'
<1>1. DOMAIN dev' = Devices /\ \A d \in Devices : dev'[d] = dev[d]
  BY DEF LibraryInv
<1>3. Views'
  BY <1>1, ViewsStay DEF LibraryInv
<1>4. \A d \in Devices : InSlot(d)' <=> InSlot(d)
  BY DEF InSlot
<1>5. SlotsAddUp'
  BY <1>4, SlotsSame DEF LibraryInv
<1> QED
  BY <1>1, <1>3, <1>5 DEF LibraryInv

\* Quizzes and answers change, and retired sentences may go.
LEMMA QuizStep ==
    ASSUME LibraryInv, UNCHANGED <<dev, slots, writer, story>>, draft' = draft \/ draft' = None,
           Sound(db'), Onward(db, db'), db'.res = db.res,
           DOMAIN db'.nodes \subseteq DOMAIN db.nodes, \A u : Alive(db, u) => Alive(db', u),
           writer # Idle => Snapshot(db', writer)
    PROVE  LibraryInv'
<1>1. WriterOK /\ DraftOK /\ story.version \in Nat
  BY DEF LibraryInv, DraftOK
<1>2. WriterOK'
  BY <1>1, WriterStays
<1>3. DraftOK'
  BY <1>1, DraftStays
<1> QED
  BY <1>2, <1>3, OthersKeep

LEMMA StillKeeps ==
    ASSUME LibraryInv, UNCHANGED <<db, dev, slots, writer, story>>, draft' = draft \/ draft' = None
    PROVE  LibraryInv'
<1>1. Sound(db') /\ Onward(db, db')
  BY SameOnward DEF LibraryInv
<1>2. WriterOK' /\ DraftOK'
  BY CalmStep
<1> QED
  BY <1>1, <1>2, OthersKeep

\* The sentences of a new quiz, or the one to repair it with, are found.
LEMMA DraftBegins ==
    ASSUME LibraryInv, UNCHANGED <<db, dev, slots, writer, story>>,
           draft'.version = story.version, \A u \in Aims(draft') : Alive(db, u)
    PROVE  LibraryInv'
<1>1. Sound(db') /\ Onward(db, db')
  BY SameOnward DEF LibraryInv
<1>2. WriterOK /\ DraftOK
  BY DEF LibraryInv
<1>3. WriterOK'
  <2>1. (writer # Idle => Snapshot(db, writer)) /\ \A u : Alive(db, u) => Alive(db', u)
    BY <1>2 DEF WriterOK, Alive
  <2> QED
    BY <1>2, <2>1, WriterStays
<1>4. DraftOK'
  <2>1. \A u \in Aims(draft') : Alive(db', u)
    BY DEF Alive
  <2> QED
    BY <1>2, <2>1 DEF DraftOK, Aims, Alive
<1> QED
  BY <1>1, <1>3, <1>4, OthersKeep

LEMMA SyncKeeps ==
    ASSUME LibraryInv, NEW q \in Syncs, Sync(q) PROVE LibraryInv'
<1> DEFINE at == At(db.tree, Names(q.path))
           ex == IF Titled(db.tree) # {} THEN CHOOSE r \in Titled(db.tree) : TRUE ELSE Keyed(db)
           h  == [db EXCEPT !.res[at].hash = q.text, !.res[at].updated = db.clock + 1, !.clock = @ + 1]
<1>1. /\ UNCHANGED <<dev, slots, writer, draft>> /\ ~Writing
      /\ db' = db \/ db' = h \/ db' = Moved(db, db.tree, q, ex)
      /\ story'.version = story.version + 1
  BY DEF Sync, Other, quizVars
<1>2. Sound(db) /\ Grown(db, db)
  BY SameSound DEF LibraryInv
<1>3. Grown(db, h)
  <2>1. /\ DOMAIN h = Fields /\ h.next = db.next /\ h.nodes = db.nodes
        /\ DOMAIN h.res = DOMAIN db.res /\ h.tree = db.tree /\ h.quiz = db.quiz /\ h.answers = db.answers
    BY <1>2 DEF Sound, Graph, Fields
  <2> HIDE DEF h
  <2> QED
    BY <1>2, <2>1 DEF Grown, Sound, Graph, Entries
<1>4. ex = None \/ ex \in DOMAIN db.res
  <2>1. CASE Titled(db.tree) # {}
    <3>1. ex \in Titled(db.tree)
      BY <2>1
    <3>2. Titled(db.tree) \subseteq DOMAIN db.res
      BY <1>2 DEF Titled, Resources, Sound, Graph, Entries
    <3> QED
      BY <3>1, <3>2
  <2>2. CASE Titled(db.tree) = {}
    BY <2>2 DEF Keyed
  <2> QED
    BY <2>1, <2>2
<1>5. Len(Folders(q.path)) \in Nat
  BY PathOK
<1>6. Grown(db, Moved(db, db.tree, q, ex))
  BY <1>2, <1>4, <1>5, MovedGrows
<1>7. Sound(db') /\ Onward(db, db')
  BY <1>1, <1>2, <1>3, <1>6, GrownSound
<1> HIDE DEF at, ex, h
<1>8. writer = Idle /\ WriterOK /\ DraftOK /\ story.version \in Nat
  BY <1>1 DEF Writing, LibraryInv, DraftOK
<1>9. WriterOK'
  BY <1>1, <1>8, WriterEnds DEF WriterOK
<1>10. DraftOK'
  BY <1>1, <1>8, DraftStays
<1> QED
  BY <1>1, <1>7, <1>8, <1>9, <1>10, OthersKeep DEF WriterOK

LEMMA FindHeldKeeps ==
    ASSUME LibraryInv, NEW r \in DOMAIN db.res, FindHeld(r) PROVE LibraryInv'
<1> DEFINE us == Live(db, r)
           w == [asked |-> db.quiz, gone |-> us, deletes |-> r, kept |-> {u \in us : Held(db, u)}]
<1>1. UNCHANGED <<db, dev, slots, draft, story>> /\ ~Writing /\ writer' = w
  BY DEF FindHeld, Other
<1>2. /\ w.asked = db.quiz /\ w.gone = us /\ w.kept = {u \in us : Held(db, u)}
  OBVIOUS
<1>3. us \subseteq DOMAIN db.nodes /\ \A u \in us : db.nodes[u].live
  BY DEF Live
<1> HIDE DEF us, w
<1>4. Sound(db) /\ WriterOK /\ DraftOK
  BY DEF LibraryInv
<1>5. \A u \in us : Held(db, u) <=> AskedBy(db, u) # {}
  <2> SUFFICES ASSUME NEW a \in db.answers, a.selected \in us PROVE AskedBy(db, a.selected) # {}
    BY DEF Held, Selected
  <2> QED
    BY <1>3, <1>4 DEF Sound, Answers, AnswerOK, AskedBy
<1>6. Snapshot(db, w) /\ Standing(db, w)
  BY <1>2, <1>3, <1>5 DEF Snapshot, Standing, AskedBy
<1>7. w.kept \cap DOMAIN db.res = {}
  BY <1>2, <1>3, <1>4 DEF Sound, Graph
<1>8. \A d \in Devices : dev[d].stage # "written"
  BY <1>1, <1>4 DEF WriterOK, Writing
<1>9. WriterOK'
  <2>1. WriterOK' <=> /\ \A e \in Devices : dev'[e].stage = "written" =>
                             w # Idle /\ w.deletes = None /\ w.gone = Removed(dev'[e])
                      /\ w # Idle => /\ Snapshot(db', w) /\ w.kept \cap DOMAIN db'.res = {}
                                     /\ w.deletes # None => Standing(db', w)
    BY <1>1 DEF WriterOK, Snapshot, Standing, Removed
  <2> QED
    BY <1>1, <1>6, <1>7, <1>8, <2>1
<1>10. DraftOK'
  <2>1. (\A u : Alive(db, u) => Alive(db', u)) /\ story.version \in Nat
    BY <1>1, <1>4 DEF Alive, DraftOK
  <2> QED
    BY <1>1, <1>4, <2>1, DraftStays
<1>11. Sound(db') /\ Onward(db, db')
  BY <1>1, SameOnward DEF LibraryInv
<1> QED
  BY <1>1, <1>8, <1>9, <1>10, <1>11, OthersKeep

LEMMA DeleteResourceKeeps ==
    ASSUME LibraryInv, DeleteResource PROVE LibraryInv'
<1> DEFINE r == writer.deletes
           g == Drop(db, writer)
           h == [g EXCEPT !.res = Restrict(@, DOMAIN @ \ {r}),
                          !.tree = Restrict(@, DOMAIN @ \ {r}),
                          !.edges = {e \in @ : e[1] # r}]
<1>1. /\ UNCHANGED <<dev, slots, draft>> /\ Writing /\ r # None /\ db' = h /\ writer' = Idle
      /\ story'.version = story.version + 1
  BY DEF DeleteResource
<1>2. Snapshot(db, writer) /\ Standing(db, writer) /\ \A d \in Devices : dev[d].stage # "written"
  BY <1>1 DEF LibraryInv, WriterOK, Writing
<1>4. Sound(g) /\ Onward(db, g)
  BY <1>2, DropSound DEF LibraryInv
<1> HIDE DEF g, r
<1>5. /\ DOMAIN h = Fields /\ h.next = g.next /\ h.nodes = g.nodes /\ h.quiz = g.quiz /\ h.answers = g.answers
      /\ h.res = Restrict(g.res, DOMAIN g.res \ {r}) /\ h.tree = Restrict(g.tree, DOMAIN g.tree \ {r})
  BY <1>4 DEF Sound, Graph, Fields
<1> HIDE DEF h
<1>6. Entries(h)
  BY <1>4, <1>5 DEF Sound, Graph, Entries, Restrict
<1>7. DOMAIN h.res \subseteq DOMAIN g.res
  BY <1>5 DEF Restrict
<1>8. Grown(g, h)
  <2>1. \A u \in DOMAIN g.nodes :
           DOMAIN g.nodes[u] = {"val", "res", "live"} /\ g.nodes[u].live \in BOOLEAN
    BY <1>4 DEF Sound, Graph
  <2>2. g.next \in Nat
    BY <1>4 DEF Sound, Graph
  <2>3. \A x \in DOMAIN h.res \ DOMAIN g.res : FALSE
    BY <1>7
  <2>4. DOMAIN h = Fields /\ h.next = g.next /\ h.nodes = g.nodes /\ h.quiz = g.quiz /\ h.answers = g.answers
    BY <1>5
  <2>5. h.next \in Nat /\ g.next <= h.next
    BY <2>2, <2>4
  <2> QED
    BY <1>6, <2>1, <2>3, <2>4, <2>5 DEF Grown
<1>9. Sound(h) /\ Onward(g, h)
  BY <1>4, <1>8, GrownSound
<1>10. Onward(db, h)
  BY <1>4, <1>9, OnwardTwice DEF Sound, Graph, LibraryInv
<1>11. WriterOK'
  BY <1>1, <1>2, WriterEnds
<1>12. DraftOK'
  <2>1. DraftOK /\ story.version \in Nat
    BY DEF LibraryInv, DraftOK
  <2> QED
    BY <1>1, <2>1, DraftStays
<1> QED
  BY <1>1, <1>2, <1>9, <1>10, <1>11, <1>12, OthersKeep

LEMMA DeleteFolderKeeps ==
    ASSUME LibraryInv, DeleteFolder PROVE LibraryInv'
<1> DEFINE h == [db EXCEPT !.tree = [e \in DOMAIN @ \ {doomed} |->
                  IF @[e].parent = doomed THEN [@[e] EXCEPT !.parent = Detached] ELSE @[e]]]
<1>1. UNCHANGED <<dev, slots, writer, draft, story>> /\ db' = h
  BY DEF DeleteFolder, quizVars
<1>2. Sound(db)
  BY DEF LibraryInv
<1>3. /\ DOMAIN h = Fields /\ h.next = db.next /\ h.nodes = db.nodes
      /\ h.res = db.res /\ h.quiz = db.quiz /\ h.answers = db.answers
      /\ DOMAIN h.tree \subseteq DOMAIN db.tree
      /\ \A e \in DOMAIN h.tree : h.tree[e] = db.tree[e] \/ h.tree[e] = [db.tree[e] EXCEPT !.parent = Detached]
  BY <1>2 DEF Sound, Graph, Fields
<1> HIDE DEF h
<1>4. Entries(h)
  <2> SUFFICES ASSUME NEW e \in DOMAIN h.tree
               PROVE  DOMAIN h.tree[e] = {"kind", "name", "parent"}
                      /\ (h.tree[e].kind = "resource" => e \in DOMAIN h.res)
    BY DEF Entries
  <2>1. DOMAIN db.tree[e] = {"kind", "name", "parent"} /\ (db.tree[e].kind = "resource" => e \in DOMAIN db.res)
    BY <1>2, <1>3 DEF Sound, Graph, Entries
  <2> QED
    BY <1>3, <2>1
<1>5. Grown(db, h)
  BY <1>2, <1>3, <1>4 DEF Grown, Sound, Graph
<1>6. Sound(h) /\ Onward(db, h)
  BY <1>2, <1>5, GrownSound
<1>7. writer # Idle => Snapshot(h, writer)
  BY <1>3 DEF LibraryInv, WriterOK, Snapshot
<1> QED
  BY <1>1, <1>3, <1>6, <1>7, QuizStep DEF Alive

---------------------------------------------------------------------------
(* Quizzes and answers.                                                        *)

LEMMA SameText ==
    ASSUME NEW g, Graph(g), NEW h, DOMAIN h = Fields,
           h.next = g.next, h.nodes = g.nodes, h.res = g.res, h.tree = g.tree
    PROVE  Graph(h) /\ Onward(g, h)
BY DEF Graph, Entries, Onward

\* The sentences a quiz is led to are found live and stay so until a text is written.
LEMMA AimsStand ==
    ASSUME LibraryInv, draft # None, ~Crossing PROVE \A u \in Aims(draft) : Alive(db, u)
BY DEF LibraryInv, DraftOK, Crossing

LEMMA CreateQuizKeeps ==
    ASSUME LibraryInv, CreateQuiz PROVE LibraryInv'
<1> DEFINE q == draft.quiz
           t == draft.x
           o == draft.y
           new == [target |-> t, option |-> o, broken |-> {}, raced |-> Crossing]
           h == [db EXCEPT !.quiz = Only(q, new) ++ @]
<1>1. /\ UNCHANGED <<dev, slots, writer, story>> /\ db' = h /\ draft' = None
      /\ q \notin DOMAIN db.quiz /\ t \in DOMAIN db.nodes /\ o \in DOMAIN db.nodes
  BY DEF CreateQuiz
<1>a. Crossing \/ (Alive(db, t) /\ Alive(db, o))
  BY AimsStand DEF CreateQuiz, Aims
<1>2. Sound(db)
  BY DEF LibraryInv
<1>3. /\ DOMAIN h = Fields /\ h.next = db.next /\ h.nodes = db.nodes /\ h.res = db.res
      /\ h.tree = db.tree /\ h.answers = db.answers /\ h.quiz = Only(q, new) ++ db.quiz
  BY <1>2 DEF Sound, Graph, Fields
<1>4. /\ DOMAIN h.quiz = DOMAIN db.quiz \cup {q} /\ h.quiz[q] = new
      /\ \A x \in DOMAIN db.quiz : h.quiz[x] = db.quiz[x]
  BY <1>1, <1>3 DEF Only, ++
<1>5. /\ DOMAIN new = {"target", "option", "broken", "raced"} /\ Refs(new) = {t, o} /\ new.broken = {}
      /\ new.raced <=> Crossing
  BY DEF Refs
<1> HIDE DEF h, new, q, t, o
<1>6. Graph(h) /\ Onward(db, h)
  BY <1>2, <1>3, SameText DEF Sound
<1>7. Quizzes(h)
  <2> SUFFICES ASSUME NEW x \in DOMAIN h.quiz PROVE QuizOK(h, x)
    BY DEF Quizzes
  <2>1. CASE x = q
    <3>1. ~Crossing => RetiredRefs(h, q) = {}
      BY <1>3, <1>4, <1>5, <1>a DEF RetiredRefs, Alive
    <3>2. \A u \in {t, o} : u \in Nat /\ u < db.next
      BY <1>1, <1>2 DEF Sound, Graph
    <3> QED
      BY <1>1, <1>3, <1>4, <1>5, <2>1, <3>1, <3>2 DEF QuizOK
  <2>2. CASE x \in DOMAIN db.quiz
    <3>1. QuizOK(db, x) /\ RetiredRefs(h, x) = RetiredRefs(db, x)
      BY <1>2, <1>3, <1>4, <2>2 DEF Sound, Quizzes, RetiredRefs
    <3> QED
      BY <1>3, <1>4, <2>2, <3>1 DEF QuizOK
  <2> QED
    BY <1>4, <2>1, <2>2
<1>8. Answers(h)
  BY <1>2, <1>3, <1>4 DEF Sound, Answers, AnswerOK
<1>9. NoneLeft(h)
  BY <1>2, <1>3, <1>4 DEF Sound, NoneLeft, Held, AskedBy, Selected
<1>10. writer # Idle => Snapshot(h, writer)
  <2> SUFFICES ASSUME writer # Idle PROVE Snapshot(h, writer)
    OBVIOUS
  <2>1. new.raced
    BY <1>5 DEF Crossing, Writing
  <2>2. Snapshot(db, writer)
    BY DEF LibraryInv, WriterOK
  <2> QED
    BY <1>1, <1>3, <1>4, <2>1, <2>2 DEF Snapshot
<1> QED
  BY <1>1, <1>3, <1>6, <1>7, <1>8, <1>9, <1>10, QuizStep DEF Sound, Alive

LEMMA AnswerKeeps ==
    ASSUME LibraryInv, NEW q, NEW o \in Nodes, Answer(q, o) PROVE LibraryInv'
<1> DEFINE a == [quiz |-> q, selected |-> o]
           h == [db EXCEPT !.answers = @ \cup {a}]
<1>1. /\ UNCHANGED <<dev, slots, writer, draft, story>> /\ db' = h
      /\ q \in DOMAIN db.quiz /\ o \in Refs(db.quiz[q])
  BY DEF Answer, Other, quizVars
<1>2. Sound(db) /\ o \in DOMAIN db.nodes
  BY DEF LibraryInv, Nodes
<1>3. /\ DOMAIN h = Fields /\ h.next = db.next /\ h.nodes = db.nodes /\ h.res = db.res
      /\ h.tree = db.tree /\ h.quiz = db.quiz /\ h.answers = db.answers \cup {a}
  BY <1>2 DEF Sound, Graph, Fields
<1>4. a.quiz = q /\ a.selected = o
  OBVIOUS
<1> HIDE DEF h, a
<1>5. Graph(h) /\ Onward(db, h)
  BY <1>2, <1>3, SameText DEF Sound
<1>6. Quizzes(h)
  BY <1>2, <1>3 DEF Sound, Quizzes, QuizOK, RetiredRefs
<1>7. Answers(h)
  <2>1. o \in Nat /\ o < db.next
    BY <1>2 DEF Sound, Graph
  <2> QED
    BY <1>1, <1>2, <1>3, <1>4, <2>1 DEF Sound, Answers, AnswerOK
<1>8. NoneLeft(h)
  BY <1>2, <1>3 DEF Sound, NoneLeft, Held, AskedBy, Selected
<1>9. writer # Idle => Snapshot(h, writer)
  BY <1>3 DEF LibraryInv, WriterOK, Snapshot
<1> QED
  BY <1>1, <1>3, <1>5, <1>6, <1>7, <1>8, <1>9, QuizStep DEF Sound, Alive

LEMMA ReattachKeeps ==
    ASSUME LibraryInv, Reattach PROVE LibraryInv'
<1> DEFINE q == draft.quiz
           old == draft.x
           new == draft.y
           to(u) == IF u = old THEN new ELSE u
           quiz == [target |-> to(db.quiz[q].target), option |-> to(db.quiz[q].option),
                    broken |-> db.quiz[q].broken \ {old}, raced |-> db.quiz[q].raced \/ Crossing]
           g == [db EXCEPT !.quiz[q] = quiz]
<1>1. /\ UNCHANGED <<dev, slots, writer, story>> /\ draft' = None
      /\ q \in DOMAIN db.quiz /\ old \in db.quiz[q].broken /\ new \in DOMAIN db.nodes
      /\ ~Marking(q)
      /\ db' = IF Held(g, old) THEN g ELSE Without(g, {old})
  BY DEF Reattach
<1>a. Crossing \/ Alive(db, new)
  BY AimsStand DEF Reattach, Aims
<1>2. Sound(db) /\ QuizOK(db, q) /\ old \in RetiredRefs(db, q)
  BY <1>1 DEF LibraryInv, Sound, Quizzes, QuizOK
<1>b. old \in DOMAIN db.nodes /\ ~db.nodes[old].live /\ old \in Refs(db.quiz[q])
  BY <1>2 DEF RetiredRefs
<1>3. /\ DOMAIN g = Fields /\ g.next = db.next /\ g.nodes = db.nodes /\ g.res = db.res
      /\ g.tree = db.tree /\ g.answers = db.answers /\ DOMAIN g.quiz = DOMAIN db.quiz
      /\ g.quiz[q] = quiz /\ \A x \in DOMAIN db.quiz \ {q} : g.quiz[x] = db.quiz[x]
  BY <1>1, <1>2 DEF Sound, Graph, Fields
<1>5. /\ DOMAIN quiz = {"target", "option", "broken", "raced"} /\ quiz.broken = db.quiz[q].broken \ {old}
      /\ Refs(quiz) = {new} \cup (Refs(db.quiz[q]) \ {old})
      /\ quiz.raced <=> db.quiz[q].raced \/ Crossing
  BY <1>b DEF Refs
<1> HIDE DEF g, quiz, to, q, old, new
<1>6. Graph(g) /\ Onward(db, g)
  BY <1>2, <1>3, SameText DEF Sound
<1>7. Quizzes(g)
  <2> SUFFICES ASSUME NEW x \in DOMAIN g.quiz PROVE QuizOK(g, x)
    BY DEF Quizzes
  <2>1. CASE x = q
    <3>1. RetiredRefs(g, q) = (RetiredRefs(db, q) \ {old}) \cup (IF db.nodes[new].live THEN {} ELSE {new})
      BY <1>1, <1>3, <1>5 DEF RetiredRefs
    <3>2. new \in Nat /\ new < db.next
      BY <1>1, <1>2 DEF Sound, Graph
    <3>3. ~Crossing => db.nodes[new].live
      BY <1>a DEF Alive
    <3>4. quiz.broken \subseteq RetiredRefs(g, q)
      BY <1>2, <1>5, <3>1 DEF QuizOK
    <3>5. \A u \in Refs(quiz) : u \in Nat /\ u < g.next
      BY <1>2, <1>3, <1>5, <3>2 DEF QuizOK
    <3>6. ASSUME ~quiz.raced
          PROVE  Refs(quiz) \subseteq DOMAIN g.nodes /\ RetiredRefs(g, q) \subseteq quiz.broken
      <4>1. /\ Refs(db.quiz[q]) \subseteq DOMAIN db.nodes
            /\ RetiredRefs(db, q) \subseteq db.quiz[q].broken /\ db.nodes[new].live
        BY <1>2, <1>5, <3>3, <3>6 DEF QuizOK
      <4> QED
        BY <4>1, <1>1, <1>3, <1>5, <3>1
    <3> QED
      BY <1>3, <1>5, <2>1, <3>4, <3>5, <3>6 DEF QuizOK
  <2>2. CASE x # q
    <3>1. QuizOK(db, x) /\ g.quiz[x] = db.quiz[x] /\ RetiredRefs(g, x) = RetiredRefs(db, x)
      BY <1>2, <1>3, <2>2 DEF Sound, Quizzes, RetiredRefs
    <3> QED
      BY <1>3, <3>1 DEF QuizOK
  <2> QED
    BY <2>1, <2>2
<1>8. ~db.nodes[old].live
  BY <1>b
<1>9. Answers(g)
  <2> SUFFICES ASSUME NEW a \in db.answers PROVE AnswerOK(g, a)
    BY <1>3 DEF Answers
  <2>1. AnswerOK(db, a)
    BY <1>2 DEF Sound, Answers
  <2>2. a.selected \in DOMAIN db.nodes /\ db.nodes[a.selected].live => a.selected # old
    BY <1>8
  <2>3. a.quiz \in DOMAIN db.quiz => (g.quiz[a.quiz].raced \/ ~db.quiz[a.quiz].raced)
    BY <1>3, <1>5
  <2>4. \A u : a.quiz \in DOMAIN db.quiz /\ u \in Refs(db.quiz[a.quiz]) /\ u # old => u \in Refs(g.quiz[a.quiz])
    BY <1>3, <1>5
  <2> QED
    BY <1>3, <2>1, <2>2, <2>3, <2>4 DEF AnswerOK
<1>10. \A u \in DOMAIN db.nodes \ {old} : ~db.nodes[u].live => Held(g, u)
  <2> SUFFICES ASSUME NEW u \in DOMAIN db.nodes, u # old, ~db.nodes[u].live PROVE Held(g, u)
    OBVIOUS
  <2>1. Held(db, u)
    BY <1>2 DEF Sound, NoneLeft
  <2>2. \A x \in DOMAIN db.quiz : u \in Refs(db.quiz[x]) => u \in Refs(g.quiz[x])
    BY <1>3, <1>5
  <2> QED
    BY <1>3, <2>1, <2>2 DEF Held, AskedBy, Selected
<1>c. ASSUME writer # Idle, NEW h, h.quiz = g.quiz, DOMAIN h.nodes \subseteq DOMAIN db.nodes
      PROVE  Snapshot(h, writer)
  <2>1. Snapshot(db, writer)
    BY <1>c DEF LibraryInv, WriterOK
  <2>2. quiz.raced
    BY <1>5, <1>c DEF Crossing, Writing
  <2>3. ASSUME NEW x \in DOMAIN writer.asked, NEW u \in Refs(writer.asked[x]) \cap writer.gone
        PROVE  x \in DOMAIN g.quiz /\ u \in Refs(g.quiz[x])
    <3>1. x # q
      BY <1>1, <1>c, <2>3 DEF Marking, Writing
    <3>2. x \in DOMAIN db.quiz /\ u \in Refs(db.quiz[x])
      BY <2>1, <2>3 DEF Snapshot
    <3> QED
      BY <1>3, <3>1, <3>2
  <2>4. \A x \in DOMAIN g.quiz :
           g.quiz[x].raced \/ (x \in DOMAIN writer.asked /\ Refs(writer.asked[x]) = Refs(g.quiz[x]))
    BY <1>3, <2>1, <2>2 DEF Snapshot
  <2> QED
    BY <1>c, <2>1, <2>3, <2>4 DEF Snapshot
<1>11. CASE Held(g, old)
  <2>1. Sound(g)
    BY <1>3, <1>6, <1>7, <1>9, <1>10, <1>11 DEF Sound, NoneLeft
  <2> QED
    BY <1>1, <1>3, <1>6, <1>11, <1>c, <2>1, QuizStep DEF Alive
<1>12. CASE ~Held(g, old)
  <2> DEFINE h == Without(g, {old})
  <2>1. Sound(h) /\ Onward(g, h)
    BY <1>3, <1>6, <1>7, <1>9, <1>10, <1>12, WithoutSound, HeldOrLoose
  <2>2. Onward(db, h)
    BY <1>2, <1>6, <2>1, OnwardTwice DEF Sound, Graph
  <2>3. /\ h.quiz = g.quiz /\ h.res = db.res /\ DOMAIN h.nodes = DOMAIN db.nodes \ {old}
        /\ \A u \in DOMAIN h.nodes : h.nodes[u] = db.nodes[u]
    BY <1>3 DEF Without, Restrict, Fields
  <2> HIDE DEF h
  <2>4. \A u : Alive(db, u) => Alive(h, u)
    BY <1>8, <2>3 DEF Alive
  <2>5. db' = h
    BY <1>1, <1>12 DEF h
  <2>6. writer # Idle => Snapshot(h, writer)
    BY <1>c, <2>3
  <2> QED
    BY <1>1, <2>1, <2>2, <2>3, <2>4, <2>5, <2>6, QuizStep DEF Alive
<1> QED
  BY <1>11, <1>12

LEMMA DeleteQuizKeeps ==
    ASSUME LibraryInv, NEW q, DeleteQuiz(q) PROVE LibraryInv'
<1> DEFINE g == [db EXCEPT !.quiz = Restrict(@, DOMAIN @ \ {q}),
                           !.answers = {a \in @ : a.quiz # q}]
           gone == {u \in DOMAIN g.nodes : ~g.nodes[u].live /\ ~Needed(g, u)}
<1>1. /\ UNCHANGED <<dev, slots, writer, draft, story>> /\ db' = Without(g, gone)
      /\ ~Marking(q)
  BY DEF DeleteQuiz, Other, Purged, quizVars
<1>2. Sound(db)
  BY DEF LibraryInv
<1>3. /\ DOMAIN g = Fields /\ g.next = db.next /\ g.nodes = db.nodes /\ g.res = db.res
      /\ g.tree = db.tree /\ g.answers = {a \in db.answers : a.quiz # q}
      /\ DOMAIN g.quiz = DOMAIN db.quiz \ {q} /\ \A x \in DOMAIN g.quiz : g.quiz[x] = db.quiz[x]
  BY <1>2 DEF Sound, Graph, Fields, Restrict
<1> HIDE DEF g
<1>4. Graph(g) /\ Onward(db, g)
  BY <1>2, <1>3, SameText DEF Sound
<1>5. Quizzes(g)
  <2> SUFFICES ASSUME NEW x \in DOMAIN g.quiz PROVE QuizOK(g, x)
    BY DEF Quizzes
  <2>1. QuizOK(db, x) /\ RetiredRefs(g, x) = RetiredRefs(db, x)
    BY <1>2, <1>3 DEF Sound, Quizzes, RetiredRefs
  <2> QED
    BY <1>3, <2>1 DEF QuizOK
<1>6. Answers(g)
  BY <1>2, <1>3 DEF Sound, Answers, AnswerOK
<1>7. \A u : Needed(g, u) <=> Held(g, u)
  <2>1. \A x \in DOMAIN g.quiz : g.quiz[x].broken \subseteq Refs(g.quiz[x])
    BY <1>5 DEF Quizzes, QuizOK, RetiredRefs
  <2> QED
    BY <2>1 DEF Needed, Held, AskedBy
<1>8. Sound(Without(g, gone)) /\ Onward(g, Without(g, gone))
  <2>1. \A u \in gone \cap DOMAIN g.nodes : Loose(g, u)
    BY <1>5, <1>7, HeldOrLoose
  <2>2. \A u \in DOMAIN g.nodes \ gone : ~g.nodes[u].live => Held(g, u)
    BY <1>7
  <2> HIDE DEF gone
  <2> QED
    BY <1>4, <1>5, <1>6, <2>1, <2>2, WithoutSound
<1> HIDE DEF gone
<1>9. Onward(db, Without(g, gone))
  BY <1>2, <1>4, <1>8, OnwardTwice DEF Sound, Graph
<1>10. /\ db'.quiz = g.quiz /\ db'.res = db.res /\ DOMAIN db'.nodes = DOMAIN db.nodes \ gone
       /\ \A u \in DOMAIN db'.nodes : db'.nodes[u] = db.nodes[u]
  BY <1>1, <1>3 DEF Without, Restrict, Fields
<1>11. \A u : Alive(db, u) => Alive(db', u)
  BY <1>3, <1>10 DEF Alive, gone
<1>12. ASSUME writer # Idle PROVE Snapshot(db', writer)
  <2>1. Snapshot(db, writer)
    BY <1>12 DEF LibraryInv, WriterOK
  <2>2. ASSUME NEW x \in DOMAIN writer.asked, NEW u \in Refs(writer.asked[x]) \cap writer.gone
        PROVE  x \in DOMAIN g.quiz /\ u \in Refs(g.quiz[x])
    <3>1. x # q
      BY <1>1, <1>12, <2>2 DEF Marking, Writing
    <3>2. x \in DOMAIN db.quiz /\ u \in Refs(db.quiz[x])
      BY <2>1, <2>2 DEF Snapshot
    <3> QED
      BY <1>3, <3>1, <3>2
  <2>3. \A x \in DOMAIN g.quiz :
           g.quiz[x].raced \/ (x \in DOMAIN writer.asked /\ Refs(writer.asked[x]) = Refs(g.quiz[x]))
    BY <1>3, <2>1 DEF Snapshot
  <2> QED
    BY <1>10, <2>1, <2>2, <2>3 DEF Snapshot
<1> QED
  BY <1>1, <1>8, <1>9, <1>10, <1>11, <1>12, QuizStep

---------------------------------------------------------------------------

LEMMA EmptySound == Sound(Empty)
<1>1. /\ DOMAIN Empty = Fields /\ Empty.next = FirstId /\ DOMAIN Empty.nodes = {} /\ DOMAIN Empty.res = {}
      /\ DOMAIN Empty.tree = {} /\ DOMAIN Empty.quiz = {} /\ Empty.answers = {}
  BY DEF Empty, Fields
<1> QED
  BY <1>1 DEF Sound, Graph, Entries, Quizzes, Answers, NoneLeft, FirstId

LEMMA InitSound ==
    ASSUME Init PROVE Sound(db)
<1>1. ASSUME NEW t \in Legacy PROVE Sound(Bare(t))
  <2> DEFINE q == [text |-> t, path |-> <<>>]
  <2>1. Len(Folders(q.path)) \in Nat
    BY DEF Folders
  <2> HIDE DEF q
  <2>2. Grown(Empty, Moved(Empty, <<>>, q, None))
    BY <2>1, EmptySound, MovedGrows
  <2> QED
    BY <2>2, EmptySound, GrownSound DEF Bare, q
<1>2. ASSUME NEW t \in Legacy PROVE Sound(Cut(t))
  <2> DEFINE g == Written(Bare(t), FirstId, Parsed(t))
             h == Cut(t)
  <2>1. IsFiniteSet(Parsed(t).sents)
    BY LibraryAssumption, ParsedFinite DEF LibraryAssumption
  <2>2. Sound(g)
    BY <1>1, <2>1, WrittenSound
  <2>3. \E edges : h = [g EXCEPT !.res[FirstId].stats = TRUE, !.edges = edges]
    BY Zenon DEF Cut
  <2> HIDE DEF g
  <2>4. /\ DOMAIN h = Fields /\ h.next = g.next /\ h.nodes = g.nodes
        /\ DOMAIN h.res = DOMAIN g.res /\ h.tree = g.tree /\ h.quiz = g.quiz /\ h.answers = g.answers
    BY <2>2, <2>3 DEF Sound, Graph, Fields
  <2> HIDE DEF h
  <2>5. Grown(g, h)
    BY <2>2, <2>4 DEF Grown, Sound, Graph, Entries
  <2> QED
    BY <2>2, <2>5, GrownSound DEF h
<1> QED
  BY <1>1, <1>2, EmptySound DEF Init

LEMMA LibraryStarts == Init => LibraryInv
<1> SUFFICES ASSUME Init PROVE LibraryInv
  OBVIOUS
<1>1. Sound(db)
  BY InitSound
<1>2. DOMAIN dev = Devices /\ \A d \in Devices : dev[d] = Idle
  BY DEF Init
<1>3. Views
  BY <1>2 DEF Views, Stored, Idle
<1>4. {d \in Devices : InSlot(d)} = {}
  BY <1>2 DEF InSlot, Idle
<1>5. SlotsAddUp
  BY <1>4, FS_EmptySet DEF SlotsAddUp, Init
<1>6. WriterOK
  BY <1>2 DEF WriterOK, Init, Idle
<1>7. DraftOK
  BY DEF DraftOK, Init
<1> QED
  BY <1>1, <1>2, <1>3, <1>5, <1>6, <1>7 DEF LibraryInv

LEMMA LibrarySteps == LibraryInv /\ [Next]_vars => LibraryInv'
<1> SUFFICES ASSUME LibraryInv, [Next]_vars PROVE LibraryInv'
  OBVIOUS
<1>0. Sound(db)
  BY DEF LibraryInv
<1>1. ASSUME NEW d \in Devices, Importing(d) PROVE LibraryInv'
  BY <1>1, EnterKeeps, PrepareKeeps, WriteKeeps, CommitKeeps, EndKeeps DEF Importing
<1>2. CASE Restart
  BY <1>2, RestartKeeps
<1>3. ASSUME NEW q \in Syncs, Sync(q) PROVE LibraryInv'
  BY <1>3, SyncKeeps
<1>4. CASE DeleteResource
  BY <1>4, DeleteResourceKeeps
<1>5. ASSUME NEW r \in DOMAIN db.res, FindHeld(r) PROVE LibraryInv'
  BY <1>5, FindHeldKeeps
<1>6. ASSUME NEW r \in DOMAIN db.res, Rank(r) PROVE LibraryInv'
  BY <1>6, StillKeeps DEF Rank, Other, quizVars
<1>7. ASSUME NEW f \in DOMAIN db.tree, FindEmpty(f) PROVE LibraryInv'
  BY <1>7, StillKeeps DEF FindEmpty, quizVars
<1>8. CASE DeleteFolder
  BY <1>8, DeleteFolderKeeps
<1>9. CASE CreateQuiz
  BY <1>9, CreateQuizKeeps
<1>10. ASSUME NEW o \in Nodes, Answer(1, o) PROVE LibraryInv'
  BY <1>10, AnswerKeeps
<1>11. CASE Reattach
  BY <1>11, ReattachKeeps
<1>12. CASE DeleteQuiz(1)
  BY <1>12, DeleteQuizKeeps
<1>13. CASE UNCHANGED vars
  BY <1>13, StillKeeps DEF vars, quizVars
<1>14. ASSUME NEW t \in Nodes, NEW o \in Nodes, FindSentences(1, t, o) PROVE LibraryInv'
  <2>1. draft' = [act |-> "create", quiz |-> 1, x |-> t, y |-> o, version |-> story.version]
    BY <1>14 DEF FindSentences
  <2>2. draft'.version = story.version /\ Aims(draft') = {t, o}
    BY <2>1 DEF Aims
  <2>3. Alive(db, t) /\ Alive(db, o)
    BY <1>14 DEF FindSentences, Alive, Nodes
  <2> QED
    BY <1>14, <2>2, <2>3, DraftBegins DEF FindSentences, Other
<1>15. ASSUME NEW o \in Nodes, NEW n \in Nodes, FindReplacement(1, o, n) PROVE LibraryInv'
  <2>1. draft' = [act |-> "repair", quiz |-> 1, x |-> o, y |-> n, version |-> story.version]
    BY <1>15 DEF FindReplacement
  <2>2. draft'.version = story.version /\ Aims(draft') = {n}
    BY <2>1 DEF Aims
  <2>3. Alive(db, n)
    BY <1>15 DEF FindReplacement, Alive, Nodes
  <2> QED
    BY <1>15, <2>2, <2>3, DraftBegins DEF FindReplacement, Other
<1>16. CASE GiveUp
  <2>1. CASE Writing /\ writer.deletes # None /\ writer' = Idle /\ UNCHANGED <<doomed, draft>>
    <3>1. UNCHANGED <<db, dev, slots, draft, story>>
      BY <1>16, <2>1 DEF GiveUp
    <3>2. \A d \in Devices : dev[d].stage # "written"
      BY <2>1 DEF LibraryInv, WriterOK
    <3>3. WriterOK'
      BY <2>1, <3>1, <3>2, WriterEnds
    <3>4. DraftOK'
      <4>1. DraftOK /\ story.version \in Nat /\ \A u : Alive(db, u) => Alive(db', u)
        BY <3>1 DEF LibraryInv, DraftOK, Alive
      <4> QED
        BY <3>1, <4>1, DraftStays
    <3>5. Sound(db') /\ Onward(db, db')
      BY <1>0, <3>1, SameOnward
    <3> QED
      BY <3>1, <3>2, <3>3, <3>4, <3>5, OthersKeep
  <2>2. CASE UNCHANGED writer /\ (draft' = None \/ draft' = draft)
    BY <1>16, <2>2, StillKeeps DEF GiveUp
  <2> QED
    BY <1>16, <2>1, <2>2 DEF GiveUp
<1> QED
  BY <1>1, <1>2, <1>3, <1>4, <1>5, <1>6, <1>7, <1>8, <1>9, <1>10, <1>11, <1>12, <1>13, <1>14, <1>15, <1>16 DEF Next

LEMMA SoundHolds == LibraryInv => SentencesHeld /\ SlotsAddUp
<1> SUFFICES ASSUME LibraryInv PROVE SentencesHeld /\ SlotsAddUp
  OBVIOUS
<1>1. QuizzesHold
  <2> SUFFICES ASSUME NEW q \in DOMAIN db.quiz
               PROVE  LET z == db.quiz[q]
                          retired == {u \in Refs(z) \cap Nodes : ~db.nodes[u].live}
                      IN /\ z.broken \subseteq retired
                         /\ ~z.raced => Refs(z) \subseteq Nodes /\ z.broken = retired
    BY DEF QuizzesHold
  <2>1. QuizOK(db, q)
    BY DEF LibraryInv, Sound, Quizzes
  <2> QED
    BY <2>1 DEF QuizOK, RetiredRefs, Nodes
<1>2. AnswersStand
  BY DEF LibraryInv, Sound, Answers, AnswerOK, AnswersStand, Nodes
<1>3. RetiredNeeded
  BY DEF LibraryInv, Sound, NoneLeft, RetiredNeeded, Held, Needed, Nodes
<1> QED
  BY <1>1, <1>2, <1>3 DEF SentencesHeld, LibraryInv

\* Through every edit, deletion and race of imports of the text they were made from, the
\* quizzes and answers of a learner keep their sentences and broken quizzes are marked
\* by exactly the sentences that were retired, unless the quiz itself was written while
\* its text was; and no other retired sentence is kept (diff_update/repo.py,
\* retirement.py, delete.py, quiz/generation/repo.py, quiz/management/repo.py).
THEOREM SentencesAreHeld == Spec => []SentencesHeld
<1>1. Init => LibraryInv
  BY LibraryStarts
<1>2. LibraryInv /\ [Next]_vars => LibraryInv'
  BY LibrarySteps
<1>3. LibraryInv => SentencesHeld
  BY SoundHolds
<1> QED
  BY <1>1, <1>2, <1>3, PTL DEF Spec

\* However an import ends, refused, in conflict, invalid, rolled back, committed or
\* with its process, its slot is given back once (import_limit.py).
THEOREM SlotsAreGivenBack == Spec => []SlotsAddUp
<1>1. Init => LibraryInv
  BY LibraryStarts
<1>2. LibraryInv /\ [Next]_vars => LibraryInv'
  BY LibrarySteps
<1>3. LibraryInv => SlotsAddUp
  BY SoundHolds
<1> QED
  BY <1>1, <1>2, <1>3, PTL DEF Spec
=============================================================================
