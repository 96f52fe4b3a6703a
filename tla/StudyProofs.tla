---------------------------- MODULE StudyProofs ------------------------------
(* What users see of the quizzes (BoardHolds) and what is kept of their notices
   (NewestKept), for every number of users, requests, quizzes, sentences and notices,
   and what is kept of the review of a day (ReviewSetKept), for every number of devices,
   profiles, items and days, and that experience is earned once and every level told once
   (LevelsTold).

   Quizzes.  A quiz that no repair has crossed is broken in exactly its retired
   sentences and uses none that is gone; an answer or report belongs to a quiz that is
   there, unless it came while the quiz was being deleted; a report is open only if the
   creator was told.  A request acts on what it found earlier: BoardInv says what of it
   is still true when it acts (FoundOK), for a note keeps its id, kind, quiz and user.

   Notices.  A request prunes a box in which it does not see the notices of the others.
   Whichever of the pruned transactions commit, and in whatever order, the box stays
   below MaxStored plus the number of requests (Bounded), and enough newer notices are in
   the box for each that a transaction is still going to delete (Owed).

   The review of a day.  A set belongs to the copy of the settings that is stored with
   it (Faithful), in what is committed and in what the request that holds the lock has
   written; what the latter does to a set is what may be done to it (Allowed).  Before
   it chooses, a request has only dropped what is too old, and what is too old stays so:
   pruning keeps the newest day (OldStaysOld).

   Experience.  The key of an event is unique in what is committed together with what
   any one request has written (Once), because only the request that holds the user's
   node has written events; and what an event is backed by is stored before it, in the
   same transaction (Sourced).  An event and its notices are written in one step, so that
   what anybody sees of both tells the level the points amount to (Telling): a request
   that reads the coefficient before it waits for the node still uses the one that is set,
   as long as nobody changes it (Pending).                                           *)
EXTENDS Naturals, Sequences, FiniteSets, FiniteSetTheorems, WellFoundedInduction, TLAPS

CONSTANTS Users, Requests, QuizIds, Sentences, Fragile, Starts, Scopes, Namings, MaxAsks, MaxNotes, None
VARIABLES sent, quiz, note, last, made, scope, req, asks, crossed, strayed
INSTANCE QuizBoard

(* Quizzes: what is invariant.                                                    *)

States == {"live", "retired", "gone"}
NoteRec == [id : Nat, kind : {"answer", "report"}, of : QuizIds, by : Users,
            picked : SUBSET Sentences, open : BOOLEAN, told : BOOLEAN]

\* What a request has found, by what it is about to do.
FoundOK(w, ns, top) ==
    /\ w.op = "create" => w.new \in QuizRec /\ w.new.broken = {}
    /\ w.op = "answer" => w.quiz \in QuizIds /\ w.by \in Users /\ w.picked \in SUBSET Sentences
    /\ w.op = "report" =>
          /\ w.quiz \in QuizIds /\ w.by \in Users /\ w.created \in BOOLEAN
          /\ w.open \subseteq w.ids /\ \A i \in w.ids : i \in Nat /\ i <= top
          /\ w.ids = {} => w.created
          /\ ~w.created => w.open # {}
          /\ \A n \in ns : n.id \in w.ids => n.kind = "report" /\ n.of = w.quiz /\ n.by = w.by
    /\ w.op = "delete" =>
          /\ w.quizzes \subseteq QuizIds
          /\ \A i \in w.ids : i \in Nat /\ i <= top
          /\ \A n \in ns : n.id \in w.ids => n.of \in w.quizzes
    /\ w.op = "repair" => w.quiz \in QuizIds /\ w.old \in Sentences /\ w.new \in Sentences
    /\ w.op = "import" => w.sentence \in Sentences /\ w.quizzes \subseteq QuizIds
Asking == \A r \in Requests : req[r] = None \/ FoundOK(req[r], note, last)

Shape ==
    /\ sent \in [Sentences -> States] /\ made \in Nat
    /\ quiz \in [QuizIds -> QuizRec \cup {None}]
    /\ note \subseteq NoteRec /\ last \in Nat
    /\ \A n \in note : n.id <= last
    /\ \A n, m \in note : n.id = m.id => n = m
    /\ DOMAIN req = Requests
    /\ scope \in [Users -> SUBSET Sentences]

\* A quiz that only requests that saw each other have changed is broken in exactly the
\* sentences of it that are retired, and none of them is gone.
Sound(q) ==
    /\ \A s \in Refs(q) : sent[s] # "gone"
    /\ \A s \in Sentences : s \in quiz[q].broken <=> s \in Refs(q) /\ sent[s] = "retired"
Sounds == \A q \in There : Sound(q) \/ q \in crossed

\* A note is of a quiz that is there, what was picked is there, and an open report was told.
Placed(n) == n.of \in There \/ n.id \in strayed
Kept(n) == \A s \in n.picked : sent[s] # "gone"
Told(n) == n.kind = "report" /\ n.open => n.told \/ n.id \in strayed \/ Twin(n)
Notes == \A n \in note : Placed(n) /\ Kept(n) /\ Told(n)

BoardInv == Shape /\ Asking /\ Sounds /\ Notes

---------------------------------------------------------------------------
(* What a request has found stays true while others are committed: what it knows of a
   note is never changed, and a new note has a new id.                              *)
LEMMA AskingStays ==
    ASSUME Asking, Shape, NEW r \in Requests, req' = [req EXCEPT ![r] = None],
           last' \in Nat, last <= last',
           \A n \in note' : \/ n.id > last
                           \/ \E m \in note : m.id = n.id /\ m.kind = n.kind /\ m.of = n.of /\ m.by = n.by
    PROVE  Asking' /\ (DOMAIN req = Requests)'
<1>1. DOMAIN req' = Requests
  BY DEF Shape
<1>2. ASSUME NEW w, FoundOK(w, note, last) PROVE FoundOK(w, note', last')
  <2>1. last \in Nat
    BY DEF Shape
  <2>2. w.op = "report" => \A n \in note' : n.id \in w.ids => n.kind = "report" /\ n.of = w.quiz /\ n.by = w.by
    BY <1>2, <2>1 DEF FoundOK
  <2>3. w.op = "delete" => \A n \in note' : n.id \in w.ids => n.of \in w.quizzes
    BY <1>2, <2>1 DEF FoundOK
  <2>4. (w.op = "report" \/ w.op = "delete") => \A i \in w.ids : i \in Nat /\ i <= last'
    BY <1>2, <2>1 DEF FoundOK
  <2> QED
    BY <1>2, <2>2, <2>3, <2>4 DEF FoundOK
<1>3. ASSUME NEW p \in Requests, req'[p] # None
      PROVE  FoundOK(req'[p], note', last')
  <2>1. req'[p] = req[p]
    BY <1>3 DEF Shape
  <2>2. FoundOK(req[p], note, last)
    BY <2>1, <1>3 DEF Asking
  <2> QED
    BY <2>1, <2>2, <1>2
<1> QED
  BY <1>1, <1>3 DEF Asking

LEMMA FoundKeeps ==
    ASSUME BoardInv, NEW r \in Requests, NEW what, Found(r, what), FoundOK(what, note, last)
    PROVE  BoardInv'
<1>1. /\ UNCHANGED <<sent, quiz, note, last, made, scope, crossed, strayed>>
      /\ req' = [req EXCEPT ![r] = what]
  BY DEF Found
<1>4. Asking'
  <2> SUFFICES ASSUME NEW p \in Requests PROVE req'[p] = None \/ FoundOK(req'[p], note', last')
    BY DEF Asking
  <2>1. CASE p = r
    BY <2>1, <1>1 DEF BoardInv, Shape
  <2>2. CASE p # r
    <3>1. req'[p] = req[p]
      BY <2>2, <1>1 DEF BoardInv, Shape
    <3> QED
      BY <3>1, <1>1 DEF BoardInv, Asking
  <2> QED
    BY <2>1, <2>2
<1>5. Shape'
  BY <1>1 DEF BoardInv, Shape
<1>6. Sounds' /\ Notes'
  BY <1>1 DEF BoardInv, Sounds, Sound, Refs, There, Notes, Placed, Kept, Told, Twin
<1> QED
  BY <1>4, <1>5, <1>6 DEF BoardInv

---------------------------------------------------------------------------
(* What each request finds.                                                       *)

LEMMA FindsSound ==
    ASSUME BoardInv, BoardAssumption, NEW r \in Requests,
           \/ FindForQuiz(r) \/ FindForAnswer(r) \/ FindForReport(r) \/ FindForDismissal(r)
           \/ FindForDeletion(r) \/ FindForRepair(r) \/ FindForImport(r)
    PROVE  BoardInv'
<1>. USE DEF BoardInv
<1>0. /\ \A q \in There : q \in QuizIds /\ quiz[q] \in QuizRec
      /\ \A n \in note : n \in NoteRec /\ n.id \in Nat /\ n.id <= last
  BY DEF Shape, There, NoteRec
<1>1. CASE FindForQuiz(r)
  <2>1. PICK u \in Users, t \in Sentences, o \in Sentences :
            Found(r, [op |-> "create", new |-> [creator |-> u, target |-> t, options |-> {o}, broken |-> {}]])
    BY <1>1 DEF FindForQuiz
  <2> DEFINE new == [creator |-> u, target |-> t, options |-> {o}, broken |-> {}]
             w == [op |-> "create", new |-> new]
  <2>2. new \in QuizRec /\ new.broken = {}
    BY DEF QuizRec
  <2>3. w.op = "create" /\ w.new = new
    OBVIOUS
  <2> HIDE DEF new
  <2>4. FoundOK(w, note, last)
    BY <2>2, <2>3 DEF FoundOK
  <2>5. Found(r, w)
    BY <2>1 DEF new
  <2> HIDE DEF w
  <2> QED
    BY <2>4, <2>5, FoundKeeps
<1>2. CASE FindForAnswer(r)
  <2>1. PICK u \in Users, q \in There : \E s \in quiz[q].options :
           Found(r, [op |-> "answer", quiz |-> q, by |-> u, picked |-> IF sent[s] = "live" THEN {s} ELSE {}])
    BY <1>2 DEF FindForAnswer
  <2>2. PICK s \in quiz[q].options :
           Found(r, [op |-> "answer", quiz |-> q, by |-> u, picked |-> IF sent[s] = "live" THEN {s} ELSE {}])
    BY <2>1
  <2>3. s \in Sentences
    BY <1>0 DEF QuizRec
  <2> DEFINE w == [op |-> "answer", quiz |-> q, by |-> u, picked |-> IF sent[s] = "live" THEN {s} ELSE {}]
  <2>4. FoundOK(w, note, last)
    BY <1>0, <2>3 DEF FoundOK
  <2> HIDE DEF w
  <2> QED
    BY <2>2, <2>4, FoundKeeps DEF w
<1>3. CASE FindForReport(r)
  <2>1. PICK u \in Users, q \in There :
           \E created \in FirstReport({n \in Of(q, "report") : n.by = u}) :
              Found(r, [op |-> "report", quiz |-> q, by |-> u,
                        ids |-> {n.id : n \in {x \in Of(q, "report") : x.by = u}},
                        open |-> {n.id : n \in {x \in {n \in Of(q, "report") : n.by = u} : x.open}},
                        created |-> created])
    BY <1>3 DEF FindForReport
  <2> DEFINE known == {n \in Of(q, "report") : n.by = u}
             ids == {n.id : n \in known}
             open == {n.id : n \in {x \in known : x.open}}
  <2>2. PICK created \in FirstReport(known) :
              Found(r, [op |-> "report", quiz |-> q, by |-> u, ids |-> ids, open |-> open, created |-> created])
    BY <2>1
  <2> DEFINE w == [op |-> "report", quiz |-> q, by |-> u, ids |-> ids, open |-> open, created |-> created]
  <2>3. \A n \in known : n \in note /\ n.kind = "report" /\ n.of = q /\ n.by = u
                         /\ n.open \in BOOLEAN /\ n.id \in Nat /\ n.id <= last
    BY <1>0 DEF Of, NoteRec
  <2>4. created \in BOOLEAN /\ (known = {} => created) /\ (~created => \E n \in known : n.open)
    <3> HIDE DEF known
    <3> QED
      BY <2>2, <2>3 DEF FirstReport
  <2>5. open \subseteq ids /\ (ids = {} => created) /\ (~created => open # {})
        /\ \A i \in ids : i \in Nat /\ i <= last
    BY <2>3, <2>4
  <2>6. \A n \in note : n.id \in ids => n.kind = "report" /\ n.of = q /\ n.by = u
    <3> SUFFICES ASSUME NEW n \in note, n.id \in ids PROVE n.kind = "report" /\ n.of = q /\ n.by = u
      OBVIOUS
    <3>1. PICK m \in known : m.id = n.id
      OBVIOUS
    <3>2. m = n
      BY <3>1, <2>3 DEF Shape
    <3> QED
      BY <3>2, <2>3
  <2>7. /\ w.op = "report" /\ w.quiz = q /\ w.by = u /\ w.ids = ids /\ w.open = open /\ w.created = created
    OBVIOUS
  <2>8. Found(r, w)
    BY <2>2
  <2>9. q \in QuizIds
    BY <1>0
  <2> HIDE DEF known, ids, open, w
  <2>10. FoundOK(w, note, last)
    BY <2>4, <2>5, <2>6, <2>7, <2>9 DEF FoundOK
  <2> QED
    BY <2>8, <2>10, FoundKeeps
<1>4. CASE FindForDismissal(r)
  <2>1. PICK q \in There :
           Found(r, [op |-> "dismiss", ids |-> {n.id : n \in {x \in Of(q, "report") : x.open}}])
    BY <1>4 DEF FindForDismissal
  <2> DEFINE w == [op |-> "dismiss", ids |-> {n.id : n \in {x \in Of(q, "report") : x.open}}]
  <2>2. FoundOK(w, note, last)
    BY DEF FoundOK
  <2> HIDE DEF w
  <2> QED
    BY <2>1, <2>2, FoundKeeps DEF w
<1>5. CASE FindForDeletion(r)
  <2>1. PICK u \in Users, list \in SUBSET QuizIds :
           Found(r, [op |-> "delete", quizzes |-> list \cap CreatedBy(u),
                     ids |-> {n.id : n \in {x \in note : x.of \in list \cap CreatedBy(u)}}])
    BY <1>5 DEF FindForDeletion
  <2> DEFINE own == list \cap CreatedBy(u)
             ids == {n.id : n \in {x \in note : x.of \in own}}
             w == [op |-> "delete", quizzes |-> own, ids |-> ids]
  <2>2. own \subseteq QuizIds
    OBVIOUS
  <2>3. w.op = "delete" /\ w.quizzes = own /\ w.ids = ids
    OBVIOUS
  <2> HIDE DEF own
  <2>4. \A i \in ids : i \in Nat /\ i <= last
    BY <1>0
  <2>5. \A n \in note : n.id \in ids => n.of \in own
    BY DEF Shape
  <2>6. Found(r, w)
    BY <2>1 DEF own
  <2> HIDE DEF ids, w
  <2>7. FoundOK(w, note, last)
    BY <2>2, <2>3, <2>4, <2>5 DEF FoundOK
  <2> QED
    BY <2>6, <2>7, FoundKeeps
<1>6. CASE FindForRepair(r)
  <2>1. PICK q \in There : \E old \in quiz[q].broken, new \in Sentences :
           Found(r, [op |-> "repair", quiz |-> q, old |-> old, new |-> new])
    BY <1>6 DEF FindForRepair
  <2>2. PICK old \in quiz[q].broken, new \in Sentences :
           Found(r, [op |-> "repair", quiz |-> q, old |-> old, new |-> new])
    BY <2>1
  <2> DEFINE w == [op |-> "repair", quiz |-> q, old |-> old, new |-> new]
  <2>3. old \in Sentences
    BY <1>0 DEF QuizRec
  <2>4. FoundOK(w, note, last)
    BY <1>0, <2>3 DEF FoundOK
  <2> HIDE DEF w
  <2> QED
    BY <2>2, <2>4, FoundKeeps DEF w
<1>7. CASE FindForImport(r)
  <2>1. PICK s \in Fragile :
           sent[s] = "live" /\ Found(r, [op |-> "import", sentence |-> s, quizzes |-> {q \in There : s \in Refs(q)}])
    BY <1>7 DEF FindForImport
  <2> DEFINE w == [op |-> "import", sentence |-> s, quizzes |-> {q \in There : s \in Refs(q)}]
  <2>2. s \in Sentences
    BY DEF BoardAssumption
  <2>3. FoundOK(w, note, last)
    BY <1>0, <2>2 DEF FoundOK
  <2> HIDE DEF w
  <2> QED
    BY <2>1, <2>3, FoundKeeps DEF w
<1> QED
  BY <1>1, <1>2, <1>3, <1>4, <1>5, <1>6, <1>7

---------------------------------------------------------------------------
(* What a request changes.                                                        *)

\* Nothing about the notes is changed, and what they refer to is left.
LEMMA NotesStay ==
    ASSUME Notes, note' = note, There \subseteq There', strayed \subseteq strayed',
           \A n \in note : \A s \in n.picked : sent[s] # "gone" => sent'[s] # "gone"
    PROVE  Notes'
BY DEF Notes, Placed, Kept, Told, Twin

LEMMA CreateQuizKeeps ==
    ASSUME BoardInv, BoardAssumption, NEW r \in Requests, CreateQuiz(r) PROVE BoardInv'
<1>. USE DEF BoardInv
<1>. DEFINE new == req[r].new  k == made + 1  used == {new.target} \cup new.options
<1>1. /\ k \in QuizIds /\ made' = k /\ quiz' = [quiz EXCEPT ![k] = new]
      /\ \A s \in used : sent[s] # "gone"
      /\ crossed' = IF \E s \in used : sent[s] # "live" THEN crossed \cup {k} ELSE crossed
      /\ req' = [req EXCEPT ![r] = None]
      /\ UNCHANGED <<scope, sent, note, last, strayed>>
  BY DEF CreateQuiz, Done
<1>2. new \in QuizRec /\ new.broken = {} /\ new # None
  BY DEF CreateQuiz, Doing, Asking, FoundOK, BoardAssumption
<1>. HIDE DEF new, k
<1>3. /\ There' = There \cup {k} /\ quiz'[k] = new
      /\ \A q \in There \ {k} : quiz'[q] = quiz[q]
  BY <1>1, <1>2 DEF There, Shape
<1>4. Shape' /\ Asking'
  <2>1. Asking' /\ (DOMAIN req = Requests)'
    <3>1. last' \in Nat /\ last <= last'
      BY <1>1 DEF Shape
    <3>2. \A n \in note' : \/ n.id > last
                         \/ \E m \in note : m.id = n.id /\ m.kind = n.kind /\ m.of = n.of /\ m.by = n.by
      BY <1>1
    <3>3. req' = [req EXCEPT ![r] = None] /\ Asking /\ Shape
      BY <1>1
    <3> QED
      BY <3>1, <3>2, <3>3, AskingStays
  <2>2. quiz' \in [QuizIds -> QuizRec \cup {None}] /\ made' \in Nat
    BY <1>1, <1>2 DEF Shape, k
  <2> QED
    BY <1>1, <2>1, <2>2 DEF Shape
<1>5. Sounds'
  <2> SUFFICES ASSUME NEW q \in There', q \notin crossed' PROVE Sound(q)'
    BY DEF Sounds
  <2>1. CASE q = k
    <3>1. \A s \in used : sent[s] = "live"
      BY <2>1, <1>1
    <3>2. Refs(q)' = used /\ quiz'[q].broken = {}
      BY <2>1, <1>2, <1>3 DEF Refs
    <3> QED
      BY <3>1, <3>2, <1>1 DEF Sound
  <2>2. CASE q # k
    <3>1. q \in There /\ q \notin crossed /\ quiz'[q] = quiz[q]
      BY <2>2, <1>1, <1>3
    <3>2. Sound(q)
      BY <3>1 DEF Sounds
    <3> QED
      BY <3>1, <3>2, <1>1 DEF Sound, Refs
  <2> QED
    BY <2>1, <2>2
<1>6. Notes'
  BY <1>1, <1>3, NotesStay
<1> QED
  BY <1>4, <1>5, <1>6

\* A new note, and those that are there.
LEMMA NewNoteKeeps ==
    ASSUME BoardInv, BoardAssumption, NEW r \in Requests, NEW n \in NoteRec, n.id = last + 1,
           n.of \in There, \A s \in n.picked : sent[s] # "gone", n.kind = "report" => n.told,
           note' = note \cup {n}, last' = last + 1, req' = [req EXCEPT ![r] = None],
           UNCHANGED <<scope, sent, quiz, made, crossed, strayed>>
    PROVE  BoardInv'
<1>. USE DEF BoardInv
<1>1. last \in Nat /\ last' \in Nat /\ last <= last' /\ n.id > last /\ \A m \in note : m.id # n.id
  BY DEF Shape, NoteRec
<1>2. Shape' /\ Asking'
  <2>1. Asking' /\ (DOMAIN req = Requests)'
    BY <1>1, AskingStays
  <2>2. note' \subseteq NoteRec /\ \A m \in note' : m.id <= last'
    BY <1>1 DEF Shape, NoteRec
  <2>3. \A m, p \in note' : m.id = p.id => m = p
    BY <1>1 DEF Shape
  <2> QED
    BY <1>1, <2>1, <2>2, <2>3 DEF Shape
<1>3. Sounds'
  BY DEF Sounds, Sound, Refs, There
<1>4. Notes'
  BY DEF Notes, Placed, Kept, Told, Twin, There
<1> QED
  BY <1>2, <1>3, <1>4

LEMMA StoreAnswerKeeps ==
    ASSUME BoardInv, BoardAssumption, NEW r \in Requests, StoreAnswer(r) PROVE BoardInv'
<1>. DEFINE w == req[r]  n == NewNote("answer", w.quiz, w.by, w.picked, TRUE)
<1>1. w.quiz \in QuizIds /\ w.by \in Users /\ w.picked \in SUBSET Sentences
  BY DEF BoardInv, StoreAnswer, Doing, Asking, FoundOK
<1>2. /\ n \in NoteRec /\ n.id = last + 1 /\ n.kind = "answer" /\ n.of = w.quiz /\ n.picked = w.picked
  BY <1>1 DEF BoardInv, Shape, NewNote, NoteRec
<1>3. /\ w.quiz \in There /\ \A s \in w.picked : sent[s] # "gone"
      /\ note' = note \cup {n} /\ last' = last + 1 /\ req' = [req EXCEPT ![r] = None]
      /\ UNCHANGED <<scope, sent, quiz, made, crossed, strayed>>
  BY DEF StoreAnswer, Done
<1>. HIDE DEF n, w
<1> QED
  BY <1>2, <1>3, NewNoteKeeps

LEMMA StoreReportKeeps ==
    ASSUME BoardInv, BoardAssumption, NEW r \in Requests, StoreReport(r) PROVE BoardInv'
<1>. DEFINE w == req[r]
            Again(n) == IF n.id \in w.ids THEN [n EXCEPT !.open = TRUE, !.told = @ \/ w.created] ELSE n
<1>. USE DEF BoardInv
<1>1. /\ w.quiz \in There /\ w.quiz \in QuizIds /\ w.by \in Users /\ w.created \in BOOLEAN
      /\ w.ids = {} => w.created
      /\ ~w.created => w.open # {}
      /\ w.open \subseteq w.ids
      /\ \A n \in note : n.id \in w.ids => n.kind = "report" /\ n.of = w.quiz /\ n.by = w.by
      /\ \A i \in w.ids : \E n \in note : n.id = i
  BY DEF StoreReport, Doing, Asking, FoundOK, Gone
<1>2. req' = [req EXCEPT ![r] = None] /\ UNCHANGED <<scope, sent, quiz, made, crossed>>
  BY DEF StoreReport, Done
<1>3. CASE w.ids = {}
  <2> DEFINE n == NewNote("report", w.quiz, w.by, {}, w.created)
  <2>1. n \in NoteRec /\ n.id = last + 1 /\ n.of = w.quiz /\ n.picked = {} /\ n.told = TRUE
    BY <1>1, <1>3 DEF Shape, NewNote, NoteRec
  <2>2. note' = note \cup {n} /\ last' = last + 1 /\ strayed' = strayed
    BY <1>3 DEF StoreReport
  <2> HIDE DEF n, w, BoardInv
  <2>3. n.of \in There
    BY <2>1, <1>1
  <2> QED
    BY <1>2, <2>1, <2>2, <2>3, NewNoteKeeps
<1>4. CASE w.ids # {}
  <2>1. /\ note' = {Again(n) : n \in note} /\ last' = last
        /\ strayed' = strayed \cup {n.id : n \in {x \in note : x.id \in w.open /\ ~x.open}}
    BY <1>4 DEF StoreReport
  <2> HIDE DEF w
  <2>2. \A n \in note : n \in NoteRec
    BY DEF Shape
  <2>3. ASSUME NEW n \in note
        PROVE  /\ Again(n) \in NoteRec /\ Again(n).id = n.id /\ Again(n).kind = n.kind /\ Again(n).of = n.of
               /\ Again(n).by = n.by /\ Again(n).picked = n.picked
    <3>1. n \in NoteRec
      BY <2>2
    <3> QED
      BY <3>1, <1>1 DEF NoteRec
  <2>4. ASSUME NEW n \in note, Again(n).open, ~Again(n).told PROVE n.id \notin w.ids \/ (~w.created /\ ~n.told)
    <3>1. n \in NoteRec
      BY <2>2
    <3> QED
      BY <3>1, <1>1, <2>4 DEF NoteRec
  <2>5. ASSUME NEW n \in note, n.id \notin w.ids PROVE Again(n) = n
    BY <2>5
  <2> HIDE DEF Again
  <2>6. Shape' /\ Asking'
    <3>1. \A n \in note' : \/ n.id > last
                         \/ \E m \in note : m.id = n.id /\ m.kind = n.kind /\ m.of = n.of /\ m.by = n.by
      BY <2>1, <2>3
    <3>2. last' \in Nat /\ last <= last'
      BY <2>1 DEF Shape
    <3>3. Asking' /\ (DOMAIN req = Requests)'
      <4>1. req' = [req EXCEPT ![r] = None] /\ Asking /\ Shape
        BY <1>2
      <4> QED
        BY <3>1, <3>2, <4>1, AskingStays
    <3>4. note' \subseteq NoteRec /\ (\A m \in note' : m.id <= last') /\ \A m, p \in note' : m.id = p.id => m = p
      BY <2>1, <2>3 DEF Shape
    <3> QED
      BY <3>2, <3>3, <3>4, <1>2 DEF Shape
  <2>7. Sounds'
    BY <1>2 DEF Sounds, Sound, Refs, There
  <2>8. ASSUME NEW n \in note, NEW k, k = Again(n) PROVE (Placed(k) /\ Kept(k))'
    <3>1. Placed(n) /\ Kept(n)
      BY DEF Notes
    <3> QED
      BY <3>1, <2>1, <2>3, <2>8, <1>2 DEF Placed, Kept, There
  <2>9. ASSUME NEW n \in note, Twin(n), NEW k, k = Again(n) PROVE Twin(k)'
    <3>1. PICK m \in note : m.id # n.id /\ m.kind = "report" /\ m.of = n.of /\ m.by = n.by
      BY <2>9 DEF Twin
    <3>2. Again(m) \in note'
      BY <2>1
    <3> QED
      BY <3>1, <3>2, <2>3, <2>9 DEF Twin
  <2>10. ASSUME NEW n \in note, NEW k, k = Again(n) PROVE Told(k)'
    <3>1. SUFFICES ASSUME k.kind = "report", k.open, ~k.told, n.id \notin strayed'
                   PROVE  Twin(k)'
      BY <2>3, <2>10 DEF Told
    <3>2. Told(n) /\ n.kind = "report" /\ n.id \notin strayed
      BY <3>1, <2>1, <2>3, <2>10 DEF Notes
    <3>3. CASE n.id \notin w.ids
      BY <3>1, <3>2, <3>3, <2>5, <2>9, <2>10 DEF Told
    <3>4. CASE n.id \in w.ids /\ n.open
      BY <3>1, <3>2, <3>4, <2>4, <2>9, <2>10 DEF Told
    <3>5. CASE n.id \in w.ids /\ ~n.open
      <4>1. n.id \notin w.open
        BY <3>1, <3>5, <2>1
      <4>2. PICK i \in w.open : i \in w.ids
        BY <3>1, <3>5, <2>4, <2>10, <1>1
      <4>3. PICK m \in note : m.id = i
        BY <4>2, <1>1
      <4>4. m.id # n.id /\ m.kind = "report" /\ m.of = n.of /\ m.by = n.by
        BY <4>1, <4>2, <4>3, <3>5, <1>1
      <4> QED
        BY <4>4, <2>9, <2>10 DEF Twin
    <3> QED
      BY <3>3, <3>4, <3>5
  <2>11. Notes'
    BY <2>1, <2>8, <2>10 DEF Notes
  <2> QED
    BY <2>6, <2>7, <2>11
<1> QED
  BY <1>3, <1>4

LEMMA DismissKeeps ==
    ASSUME BoardInv, BoardAssumption, NEW r \in Requests, Dismiss(r) PROVE BoardInv'
<1>. DEFINE ids == req[r].ids
            Closed(n) == IF n.id \in ids THEN [n EXCEPT !.open = FALSE, !.told = FALSE] ELSE n
<1>. USE DEF BoardInv
<1>1. /\ note' = {Closed(n) : n \in note} /\ req' = [req EXCEPT ![r] = None]
      /\ UNCHANGED <<scope, sent, quiz, last, crossed, strayed, made>>
  BY DEF Dismiss, Done
<1>. HIDE DEF ids
<1>2. ASSUME NEW n \in note
      PROVE  /\ Closed(n) \in NoteRec /\ Closed(n).id = n.id /\ Closed(n).kind = n.kind /\ Closed(n).of = n.of
             /\ Closed(n).by = n.by /\ Closed(n).picked = n.picked
             /\ Closed(n).open => n.open /\ Closed(n).told = n.told
  <2>1. n \in NoteRec
    BY DEF Shape
  <2> QED
    BY <2>1 DEF NoteRec
<1>. HIDE DEF Closed
<1>3. Shape' /\ Asking'
  <2>1. \A n \in note' : \/ n.id > last
                       \/ \E m \in note : m.id = n.id /\ m.kind = n.kind /\ m.of = n.of /\ m.by = n.by
    BY <1>1, <1>2
  <2>2. last' \in Nat /\ last <= last'
    BY <1>1 DEF Shape
  <2>3. Asking' /\ (DOMAIN req = Requests)'
    <3>1. req' = [req EXCEPT ![r] = None] /\ Asking /\ Shape
      BY <1>1
    <3> QED
      BY <2>1, <2>2, <3>1, AskingStays
  <2>4. note' \subseteq NoteRec /\ (\A m \in note' : m.id <= last') /\ \A m, p \in note' : m.id = p.id => m = p
    BY <1>1, <1>2 DEF Shape
  <2> QED
    BY <1>1, <2>2, <2>3, <2>4 DEF Shape
<1>4. Sounds'
  BY <1>1 DEF Sounds, Sound, Refs, There
<1>5. ASSUME NEW n \in note, NEW k, k = Closed(n) PROVE (Placed(k) /\ Kept(k) /\ Told(k))'
  <2>1. Placed(n) /\ Kept(n) /\ Told(n)
    BY DEF Notes
  <2>2. (Placed(k) /\ Kept(k))'
    BY <2>1, <1>1, <1>2, <1>5 DEF Placed, Kept, There
  <2>3. Twin(n) => Twin(k)'
    <3>1. \A m \in note : Closed(m) \in note'
      BY <1>1
    <3> QED
      BY <3>1, <1>2, <1>5 DEF Twin
  <2>4. Told(k)'
    BY <2>1, <2>3, <1>1, <1>2, <1>5 DEF Told
  <2> QED
    BY <2>2, <2>4
<1>6. Notes'
  BY <1>1, <1>5 DEF Notes
<1> QED
  BY <1>3, <1>4, <1>6

LEMMA DeleteKeeps ==
    ASSUME BoardInv, BoardAssumption, NEW r \in Requests, Delete(r) PROVE BoardInv'
<1>. USE DEF BoardInv
<1>. DEFINE ids == req[r].ids  gone == req[r].quizzes
<1>1. /\ gone \subseteq There /\ note' = {n \in note : n.id \notin ids}
      /\ quiz' = [q \in QuizIds |-> IF q \in gone THEN None ELSE quiz[q]]
      /\ sent' = Purged(There \ gone, note')
      /\ crossed' = crossed \ gone
      /\ strayed' = strayed \cup {n.id : n \in {x \in note : x.of \in gone /\ x.id \notin ids}}
      /\ req' = [req EXCEPT ![r] = None] /\ UNCHANGED <<scope, last, made>>
  BY DEF Delete, Done, WithoutNotes
<1>2. \A n \in note : n.id \in ids => n.of \in gone
  BY DEF Delete, Doing, Asking, FoundOK
<1>. HIDE DEF ids, gone
<1>3. There' = There \ gone /\ \A q \in There' : quiz'[q] = quiz[q]
  BY <1>1 DEF There, Shape
<1>4. ASSUME NEW s \in Sentences
      PROVE  \/ sent'[s] = sent[s]
             \/ /\ sent[s] = "retired" /\ sent'[s] = "gone"
                /\ \A q \in There' : s \notin Refs(q) \cup quiz[q].broken
                /\ \A n \in note' : s \notin n.picked
  BY <1>1, <1>3 DEF Purged
<1>5. sent' \in [Sentences -> States]
  <2>1. DOMAIN sent' = Sentences /\ sent' = [s \in Sentences |-> sent'[s]]
    BY <1>1 DEF Purged
  <2>2. \A s \in Sentences : sent'[s] \in States
    BY <1>4 DEF Shape, States
  <2> QED
    BY <2>1, <2>2
<1>6. Shape' /\ Asking'
  <2>1. \A n \in note' : \/ n.id > last
                       \/ \E m \in note : m.id = n.id /\ m.kind = n.kind /\ m.of = n.of /\ m.by = n.by
    BY <1>1
  <2>2. last' \in Nat /\ last <= last'
    BY <1>1 DEF Shape
  <2>3. Asking' /\ (DOMAIN req = Requests)'
    <3>1. req' = [req EXCEPT ![r] = None] /\ Asking /\ Shape
      BY <1>1
    <3> QED
      BY <2>1, <2>2, <3>1, AskingStays
  <2>4. note' \subseteq NoteRec /\ (\A m \in note' : m.id <= last') /\ \A m, p \in note' : m.id = p.id => m = p
    BY <1>1 DEF Shape
  <2>5. quiz' \in [QuizIds -> QuizRec \cup {None}]
    BY <1>1 DEF Shape
  <2> QED
    BY <1>1, <1>5, <2>2, <2>3, <2>4, <2>5 DEF Shape
<1>7. Sounds'
  <2> SUFFICES ASSUME NEW q \in There', q \notin crossed' PROVE Sound(q)'
    BY DEF Sounds
  <2>1. Sound(q) /\ q \in There
    BY <1>1, <1>3 DEF Sounds
  <2>2. Refs(q)' = Refs(q) /\ quiz'[q] = quiz[q] /\ Refs(q) \subseteq Sentences
    BY <2>1, <1>3 DEF Refs, There, Shape, QuizRec
  <2>3. \A s \in Refs(q) : sent'[s] = sent[s]
    BY <2>2, <1>4
  <2> QED
    BY <2>1, <2>2, <2>3 DEF Sound
<1>8. ASSUME NEW n \in note' PROVE (Placed(n) /\ Kept(n) /\ Told(n))'
  <2>1. n \in note /\ n.id \notin ids /\ Placed(n) /\ Kept(n) /\ Told(n) /\ n.picked \subseteq Sentences
    BY <1>1 DEF Notes, Shape, NoteRec
  <2>2. Placed(n)'
    BY <2>1, <1>1, <1>3 DEF Placed
  <2>3. Kept(n)'
    BY <2>1, <1>4 DEF Kept
  <2>4. Twin(n) => Twin(n)' \/ n.id \in strayed'
    <3> SUFFICES ASSUME Twin(n), n.id \notin strayed' PROVE Twin(n)'
      OBVIOUS
    <3>1. PICK m \in note : m.id # n.id /\ m.kind = "report" /\ m.of = n.of /\ m.by = n.by
      BY DEF Twin
    <3>2. m.id \notin ids
      BY <3>1, <2>1, <1>1, <1>2
    <3> QED
      BY <3>1, <3>2, <1>1 DEF Twin
  <2>5. Told(n)'
    BY <2>1, <2>4, <1>1 DEF Told
  <2> QED
    BY <2>2, <2>3, <2>5
<1> QED
  BY <1>6, <1>7, <1>8 DEF Notes

LEMMA RepairKeeps ==
    ASSUME BoardInv, BoardAssumption, NEW r \in Requests, Repair(r) PROVE BoardInv'
<1>. USE DEF BoardInv
<1>. DEFINE q == req[r].quiz  old == req[r].old  new == req[r].new
            Mended(s) == IF s = old THEN new ELSE s
            mended == [quiz[q] EXCEPT !.target = Mended(@), !.options = {Mended(s) : s \in @}, !.broken = @ \ {old}]
<1>1. /\ q \in There /\ old \in quiz[q].broken /\ sent[new] # "gone" /\ new \in Sentences
      /\ quiz' = [quiz EXCEPT ![q] = mended]
      /\ sent' = IF (\E p \in There \ {q} : old \in Refs(p)) \/ (\E n \in note : old \in n.picked)
                 THEN sent ELSE [sent EXCEPT ![old] = "gone"]
      /\ crossed' = IF sent[new] = "live" THEN crossed ELSE crossed \cup {q}
      /\ req' = [req EXCEPT ![r] = None] /\ UNCHANGED <<note, last, strayed, made, scope>>
  BY DEF Repair, Doing, Done, Asking, FoundOK, StillBroken, There, Shape
<1>. HIDE DEF q, old, new
<1>2. /\ q \in QuizIds /\ quiz[q] \in QuizRec /\ old \in Sentences
  BY <1>1 DEF There, Shape, QuizRec
<1>3. /\ mended \in QuizRec /\ mended.target = Mended(quiz[q].target)
      /\ mended.options = {Mended(s) : s \in quiz[q].options} /\ mended.broken = quiz[q].broken \ {old}
  BY <1>1, <1>2 DEF QuizRec
<1>. HIDE DEF mended
<1>4. There' = There /\ quiz'[q] = mended /\ \A p \in There \ {q} : quiz'[p] = quiz[p]
  BY <1>1, <1>2, <1>3 DEF There, Shape, BoardAssumption
<1>5. /\ \A s \in Sentences : sent'[s] = sent[s] \/ (s = old /\ sent'[s] = "gone")
      /\ sent' \in [Sentences -> States]
      /\ sent'[old] # sent[old] => (\A p \in There \ {q} : old \notin Refs(p)) /\ (\A n \in note : old \notin n.picked)
  <2> DEFINE used == (\E p \in There \ {q} : old \in Refs(p)) \/ (\E n \in note : old \in n.picked)
  <2>1. sent \in [Sentences -> States] /\ "gone" \in States
    BY DEF Shape, States
  <2>2. sent' = IF used THEN sent ELSE [sent EXCEPT ![old] = "gone"]
    BY <1>1
  <2>3. ~used => (\A p \in There \ {q} : old \notin Refs(p)) /\ (\A n \in note : old \notin n.picked)
    OBVIOUS
  <2> HIDE DEF used, BoardInv
  <2>4. CASE used
    BY <2>1, <2>2, <2>4
  <2>5. CASE ~used
    BY <2>1, <2>2, <2>3, <2>5, <1>2
  <2> QED
    BY <2>4, <2>5
<1>6. Shape' /\ Asking'
  <2>1. \A n \in note' : \/ n.id > last
                       \/ \E m \in note : m.id = n.id /\ m.kind = n.kind /\ m.of = n.of /\ m.by = n.by
    BY <1>1
  <2>2. last' \in Nat /\ last <= last'
    BY <1>1 DEF Shape
  <2>3. Asking' /\ (DOMAIN req = Requests)'
    <3>1. req' = [req EXCEPT ![r] = None] /\ Asking /\ Shape
      BY <1>1
    <3> QED
      BY <2>1, <2>2, <3>1, AskingStays
  <2>4. quiz' \in [QuizIds -> QuizRec \cup {None}]
    BY <1>1, <1>3 DEF Shape
  <2> QED
    BY <1>1, <1>5, <2>2, <2>3, <2>4 DEF Shape
<1>7. Sounds'
  <2> SUFFICES ASSUME NEW p \in There', p \notin crossed' PROVE Sound(p)'
    BY DEF Sounds
  <2>1. Sound(p) /\ p \in There /\ Refs(p) \subseteq Sentences
    BY <1>1, <1>4 DEF Sounds, Refs, There, Shape, QuizRec
  <2>2. CASE p # q
    <3>1. quiz'[p] = quiz[p] /\ Refs(p)' = Refs(p)
      BY <2>1, <2>2, <1>4 DEF Refs
    <3>2. \A s \in Refs(p) : sent'[s] = sent[s]
      BY <2>1, <2>2, <1>5
    <3> QED
      BY <2>1, <3>1, <3>2 DEF Sound
  <2>3. CASE p = q
    <3>1. sent[new] = "live" /\ sent[old] = "retired" /\ new # old
      BY <2>1, <2>3, <1>1, <1>2 DEF Sound
    <3>2. Refs(p)' = {Mended(s) : s \in Refs(q)} /\ quiz'[p].broken = quiz[q].broken \ {old}
      BY <2>3, <1>3, <1>4 DEF Refs
    <3>3. \A s \in Refs(p)' : s # old /\ s \in Sentences /\ sent'[s] = sent[s] /\ (s = new \/ s \in Refs(q))
      BY <3>1, <3>2, <2>1, <2>3, <1>1, <1>5
    <3>4. \A s \in Refs(q) : s # old => s \in Refs(p)'
      BY <3>2
    <3>5. \A s \in Sentences : s \in quiz[q].broken <=> s \in Refs(q) /\ sent[s] = "retired"
      BY <2>1, <2>3 DEF Sound
    <3>6. \A s \in Refs(p)' : sent'[s] # "gone"
      BY <3>1, <3>3, <2>1, <2>3 DEF Sound
    <3>7. ASSUME NEW s \in Sentences PROVE s \in quiz'[p].broken <=> s \in Refs(p)' /\ sent'[s] = "retired"
      <4>1. CASE s \in quiz'[p].broken
        BY <4>1, <3>2, <3>3, <3>4, <3>5, <1>5
      <4>2. CASE s \in Refs(p)' /\ sent'[s] = "retired"
        BY <4>2, <3>1, <3>2, <3>3, <3>5
      <4> QED
        BY <4>1, <4>2
    <3> QED
      BY <3>6, <3>7 DEF Sound
  <2> QED
    BY <2>2, <2>3
<1>8. Notes'
  <2>1. \A n \in note : n.picked \subseteq Sentences
    BY DEF Shape, NoteRec
  <2>2. \A n \in note : \A s \in n.picked : sent[s] # "gone" => sent'[s] # "gone"
    BY <2>1, <1>5
  <2>3. Notes /\ note' = note /\ There \subseteq There' /\ strayed \subseteq strayed'
    BY <1>1, <1>4
  <2> QED
    BY <2>2, <2>3, NotesStay
<1> QED
  BY <1>6, <1>7, <1>8

LEMMA ImportKeeps ==
    ASSUME BoardInv, BoardAssumption, NEW r \in Requests, Import(r) PROVE BoardInv'
<1>. USE DEF BoardInv
<1>. DEFINE s == req[r].sentence  found == req[r].quizzes
            Left(n) == IF found = {} THEN [n EXCEPT !.picked = @ \ {s}] ELSE n
            Hit(q) == [quiz[q] EXCEPT !.broken = @ \cup {s}]
<1>1. /\ s \in Sentences /\ found \subseteq There /\ sent[s] = "live"
      /\ sent' = [sent EXCEPT ![s] = IF found # {} THEN "retired" ELSE "gone"]
      /\ quiz' = [q \in QuizIds |-> IF q \in found THEN Hit(q) ELSE quiz[q]]
      /\ note' = {Left(n) : n \in note}
      /\ crossed' = crossed \cup {q \in There : (s \in Refs(q)) # (q \in found)}
      /\ req' = [req EXCEPT ![r] = None] /\ UNCHANGED <<last, strayed, made, scope>>
  BY DEF Import, Doing, Done, Asking, FoundOK
<1>. HIDE DEF s, found
<1>2. ASSUME NEW q \in found
      PROVE  /\ Hit(q) \in QuizRec /\ Hit(q).target = quiz[q].target /\ Hit(q).options = quiz[q].options
             /\ Hit(q).broken = quiz[q].broken \cup {s}
  <2>1. quiz[q] \in QuizRec
    BY <1>1 DEF There, Shape
  <2> QED
    BY <2>1, <1>1 DEF QuizRec
<1>3. ASSUME NEW n \in note
      PROVE  /\ Left(n) \in NoteRec /\ Left(n).id = n.id /\ Left(n).kind = n.kind /\ Left(n).of = n.of
             /\ Left(n).by = n.by /\ Left(n).picked = (IF found = {} THEN n.picked \ {s} ELSE n.picked)
             /\ Left(n).open = n.open /\ Left(n).told = n.told
  <2>1. n \in NoteRec
    BY DEF Shape
  <2> QED
    BY <2>1 DEF NoteRec
<1>. HIDE DEF Hit, Left
<1>0. /\ note' = {Left(n) : n \in note} /\ last' = last
      /\ \A n \in note : Left(n) \in NoteRec /\ Left(n).id = n.id /\ Left(n).kind = n.kind /\ Left(n).of = n.of /\ Left(n).by = n.by
  BY <1>1, <1>3
<1>4. /\ There' = There
      /\ \A q \in There : quiz'[q] = IF q \in found THEN Hit(q) ELSE quiz[q]
  <2>1. \A q \in QuizIds : quiz'[q] = IF q \in found THEN Hit(q) ELSE quiz[q]
    BY <1>1
  <2>2. \A q \in found : q \in There /\ Hit(q) # None
    BY <1>1, <1>2 DEF There, Shape, BoardAssumption
  <2>. QED
    BY <2>1, <2>2 DEF There
<1>5. /\ sent' \in [Sentences -> States]
      /\ sent'[s] = (IF found # {} THEN "retired" ELSE "gone")
      /\ \A t \in Sentences : t # s => sent'[t] = sent[t]
  BY <1>1 DEF Shape, States
<1>6. Shape' /\ Asking'
  <2>1. \A n \in note' : \/ n.id > last
                       \/ \E m \in note : m.id = n.id /\ m.kind = n.kind /\ m.of = n.of /\ m.by = n.by
    BY <1>0
  <2>2. last' \in Nat /\ last <= last'
    BY <1>1 DEF Shape
  <2>3. Asking' /\ (DOMAIN req = Requests)'
    <3>1. req' = [req EXCEPT ![r] = None] /\ Asking /\ Shape
      BY <1>1
    <3> QED
      BY <2>1, <2>2, <3>1, AskingStays
  <2>4. note' \subseteq NoteRec /\ (\A m \in note' : m.id <= last') /\ \A m, p \in note' : m.id = p.id => m = p
    BY <1>0 DEF Shape
  <2>5. quiz' \in [QuizIds -> QuizRec \cup {None}]
    BY <1>1, <1>2 DEF Shape
  <2> QED
    BY <1>1, <1>5, <2>2, <2>3, <2>4, <2>5 DEF Shape
<1>7. Sounds'
  <2> SUFFICES ASSUME NEW q \in There', q \notin crossed' PROVE Sound(q)'
    BY DEF Sounds
  <2>1. /\ Sound(q) /\ q \in There /\ Refs(q) \subseteq Sentences
        /\ s \in Refs(q) <=> q \in found
    BY <1>1, <1>4 DEF Sounds, Refs, There, Shape, QuizRec
  <2>2. Refs(q)' = Refs(q)
    BY <2>1, <1>2, <1>4 DEF Refs
  <2>3. quiz'[q].broken = IF q \in found THEN quiz[q].broken \cup {s} ELSE quiz[q].broken
    BY <2>1, <1>2, <1>4
  <2>4. \A t \in Refs(q) : sent'[t] # "gone"
    BY <2>1, <1>1, <1>5 DEF Sound
  <2>5. ASSUME NEW t \in Sentences PROVE t \in quiz'[q].broken <=> t \in Refs(q) /\ sent'[t] = "retired"
    <3>1. t \in quiz[q].broken <=> t \in Refs(q) /\ sent[t] = "retired"
      BY <2>1 DEF Sound
    <3>2. CASE t = s
      BY <3>1, <3>2, <2>1, <2>3, <1>1, <1>5
    <3>3. CASE t # s
      BY <3>1, <3>3, <2>3, <1>5
    <3> QED
      BY <3>2, <3>3
  <2> QED
    BY <2>2, <2>4, <2>5 DEF Sound
<1>8. ASSUME NEW n \in note, NEW k, k = Left(n) PROVE (Placed(k) /\ Kept(k) /\ Told(k))'
  <2>1. Placed(n) /\ Kept(n) /\ Told(n) /\ n.picked \subseteq Sentences
    BY DEF Notes, Shape, NoteRec
  <2>2. Placed(k)'
    BY <2>1, <1>1, <1>3, <1>4, <1>8 DEF Placed
  <2>3. Kept(k)'
    BY <2>1, <1>3, <1>5, <1>8 DEF Kept
  <2>4. Twin(n) => Twin(k)'
    <3>. SUFFICES ASSUME Twin(n) PROVE Twin(k)'
      OBVIOUS
    <3>1. PICK m \in note : m.id # n.id /\ m.kind = "report" /\ m.of = n.of /\ m.by = n.by
      BY DEF Twin
    <3>2. Left(m) \in note' /\ Left(m).id = m.id /\ Left(m).kind = m.kind /\ Left(m).of = m.of /\ Left(m).by = m.by
      BY <1>1, <1>3
    <3>3. k.id = n.id /\ k.of = n.of /\ k.by = n.by
      BY <1>3, <1>8
    <3> QED
      BY <3>1, <3>2, <3>3 DEF Twin
  <2>5. Told(k)'
    BY <2>1, <2>4, <1>1, <1>3, <1>8 DEF Told
  <2> QED
    BY <2>2, <2>3, <2>5
<1>9. Notes'
  BY <1>1, <1>8 DEF Notes
<1> QED
  BY <1>6, <1>7, <1>9

---------------------------------------------------------------------------
(* The theorem.                                                                   *)

LEMMA BoardStarts ==
    ASSUME BoardAssumption, BInit PROVE BoardInv
<1>1. PICK start \in Starts : sent = start.sent /\ quiz = start.quiz /\ made = start.made
  BY DEF BInit
<1>2. WellFormed(start)
  BY DEF BoardAssumption
<1>3. Shape
  BY <1>1, <1>2 DEF BInit, Shape, WellFormed, BoardAssumption, States
<1>4. Sounds
  BY <1>1, <1>2 DEF Sounds, Sound, There, WellFormed, Refs, QuizRec
<1>5. Asking /\ Notes
  BY DEF BInit, Asking, Notes
<1> QED
  BY <1>3, <1>4, <1>5 DEF BoardInv

LEMMA BoardStep ==
    ASSUME BoardAssumption, BoardInv, [BNext]_boardVars PROVE BoardInv'
<1>1. ASSUME UNCHANGED <<sent, quiz, note, last, made, crossed, strayed>>, DOMAIN req' = Requests,
             \A p \in Requests : req'[p] = req[p] \/ req'[p] = None,
             scope' \in [Users -> SUBSET Sentences]
      PROVE  BoardInv'
  <2>1. Shape'
    BY <1>1 DEF BoardInv, Shape
  <2>2. Asking'
    BY <1>1 DEF BoardInv, Asking
  <2>3. Sounds' /\ Notes'
    BY <1>1 DEF BoardInv, Sounds, Sound, Refs, There, Notes, Placed, Kept, Told, Twin
  <2> QED
    BY <2>1, <2>2, <2>3 DEF BoardInv
<1>2. ASSUME NEW r \in Requests, Fail(r) PROVE BoardInv'
  <2>1. /\ UNCHANGED <<sent, quiz, note, last, made, crossed, strayed>> /\ scope' = scope
        /\ req' = [req EXCEPT ![r] = None] /\ DOMAIN req = Requests /\ scope \in [Users -> SUBSET Sentences]
    BY <1>2 DEF Fail, BoardInv, Shape
  <2> QED
    BY <2>1, <1>1
<1>3. CASE Replan
  <2>1. /\ UNCHANGED <<sent, quiz, note, last, made, crossed, strayed>> /\ req' = req
        /\ DOMAIN req = Requests /\ scope' \in [Users -> SUBSET Sentences]
    BY <1>3 DEF Replan, BoardInv, Shape, BoardAssumption
  <2> QED
    BY <2>1, <1>1
<1>4. CASE UNCHANGED boardVars
  <2>1. /\ UNCHANGED <<sent, quiz, note, last, made, crossed, strayed>> /\ req' = req
        /\ DOMAIN req = Requests /\ scope' \in [Users -> SUBSET Sentences]
    BY <1>4 DEF boardVars, BoardInv, Shape
  <2> QED
    BY <2>1, <1>1
<1>5. ASSUME NEW r \in Requests,
             \/ FindForQuiz(r) \/ FindForAnswer(r) \/ FindForReport(r) \/ FindForDismissal(r)
             \/ FindForDeletion(r) \/ FindForRepair(r) \/ FindForImport(r)
      PROVE  BoardInv'
  BY <1>5, FindsSound
<1>6. ASSUME NEW r \in Requests,
             CreateQuiz(r) \/ StoreAnswer(r) \/ StoreReport(r) \/ Dismiss(r) \/ Delete(r) \/ Repair(r) \/ Import(r)
      PROVE  BoardInv'
  BY <1>6, CreateQuizKeeps, StoreAnswerKeeps, StoreReportKeeps, DismissKeeps, DeleteKeeps, RepairKeeps, ImportKeeps
<1> QED
  BY <1>2, <1>3, <1>4, <1>5, <1>6 DEF BNext

\* With nothing crossed, what is whole is on a sentence: what is neither broken nor reported
\* nor outside the plans is shown, the numbers add up, and only a lost term hides more.
LEMMA NumbersAdd ==
    ASSUME BoardAssumption, BoardInv PROVE IssuesAddUp
<1> SUFFICES ASSUME crossed = {}, NEW u \in Users
    PROVE /\ TotalIssues(u) = Cardinality(CreatedBy(u))
                - Cardinality({q \in CreatedBy(u) \cap Shown : quiz[q].target \in scope[u]} \ Reported(u))
          /\ \A status \in Statuses(u) : status[2] <= Cardinality(CreatedBy(u) \ Broken(u))
          /\ \A n \in Namings : CreatedBy(u) \ Listed(n) = CreatedBy(u) \cap (Broken(u) \cup Nameless(n))
  BY DEF IssuesAddUp
<1> DEFINE mine == CreatedBy(u)
           issues == Broken(u) \cup Reported(u) \cup Unplanned(u)
           fine == {q \in CreatedBy(u) \cap Shown : quiz[q].target \in scope[u]} \ Reported(u)
<1>1. IsFiniteSet(mine)
  <2>1. mine \subseteq QuizIds
    BY DEF CreatedBy, There
  <2> QED
    BY <2>1, FS_Subset DEF BoardAssumption
<1>2. \A q \in mine : Whole(q) => OnSentence(q)
  <2>1. ASSUME NEW q \in mine, Whole(q) PROVE OnSentence(q)
    <3>1. q \in There /\ quiz[q] \in QuizRec /\ Sound(q)
      BY DEF BoardInv, Sounds, Shape, There, CreatedBy
    <3>2. quiz[q].target \in Sentences /\ quiz[q].target \in Refs(q) /\ sent[quiz[q].target] \in States
      BY <3>1 DEF QuizRec, Refs, BoardInv, Shape
    <3> QED
      BY <2>1, <3>1, <3>2 DEF Whole, OnSentence, Sound, States
  <2> QED
    BY <2>1
<1>5. fine \subseteq mine /\ issues = mine \ fine
  BY <1>2 DEF Broken, Reported, Unplanned, Shown, CreatedBy
<1>3. TotalIssues(u) = Cardinality(mine) - Cardinality(fine)
  <2> HIDE DEF mine, issues, fine
  <2>1. Cardinality(mine \ fine) = Cardinality(mine) - Cardinality(mine \cap fine) /\ mine \cap fine = fine
    BY <1>1, <1>5, FS_Difference
  <2> QED
    BY <2>1, <1>5 DEF TotalIssues, issues
<1>4. ASSUME NEW status \in Statuses(u) PROVE status[2] <= Cardinality(mine \ Broken(u))
  <2>1. PICK s \in Sentences : status = <<s, Cardinality({q \in Shown \cap CreatedBy(u) : quiz[q].target = s})>>
    BY DEF Statuses
  <2>2. {q \in Shown \cap mine : quiz[q].target = s} \subseteq mine \ Broken(u)
    BY DEF Shown, Broken
  <2>3. IsFiniteSet(mine \ Broken(u)) /\ status[2] = Cardinality({q \in Shown \cap mine : quiz[q].target = s})
    BY <1>1, <2>1, FS_Subset
  <2> HIDE DEF mine
  <2> QED
    BY <2>1, <2>2, <2>3, FS_Subset
\* What is neither broken nor without a term is listed.
<1>6. ASSUME NEW n \in Namings PROVE mine \ Listed(n) = mine \cap (Broken(u) \cup Nameless(n))
  BY <1>2 DEF Listed, Nameless, Shown, Broken, CreatedBy
<1> QED
  BY <1>3, <1>4, <1>6

(* Whoever answers, reports, repairs, dismisses or deletes quizzes, and whatever imports
   break at the same time: what is shown can be asked, its creator was told what is
   reported, and the pages leave out only what they count or what has lost a term
   (quiz/management/repo.py:21-111, quiz/listing/repo.py:58-280, retirement.py).     *)
THEOREM BoardHoldsAlways ==
    ASSUME BoardAssumption PROVE BSpec => []BoardHolds
<1>1. BInit => BoardInv
  BY BoardStarts
<1>2. BoardInv /\ [BNext]_boardVars => BoardInv'
  BY BoardStep
<1>3. BoardInv => BoardHolds
  <2> SUFFICES ASSUME BoardInv PROVE BoardHolds
    OBVIOUS
  <2>1. BoardTypeOK
    BY DEF BoardInv, BoardTypeOK, Notes, Placed, Sounds, Sound, Shape, There, QuizRec
  <2>2. ShownCanBeAsked
    <3>1. ASSUME NEW q \in Shown \ crossed, NEW s \in Refs(q) PROVE sent[s] = "live"
      <4>1. q \in There /\ quiz[q].broken = {} /\ Sound(q) /\ quiz[q] \in QuizRec
        BY DEF BoardInv, Shown, Whole, Sounds, There, Shape
      <4>2. s \in Sentences /\ sent[s] \in States
        BY <4>1 DEF Refs, QuizRec, BoardInv, Shape
      <4> QED
        BY <4>1, <4>2 DEF Sound, States
    <3>2. ASSUME NEW u \in Users, NEW n \in History(u), NEW s \in n.picked PROVE sent[s] # "gone"
      BY DEF BoardInv, Notes, Kept, History
    <3> QED
      BY <3>1, <3>2 DEF ShownCanBeAsked
  <2>3. ReportsTold
    BY DEF BoardInv, Notes, Told, ReportsTold
  <2>4. IssuesAddUp
    BY NumbersAdd
  <2> QED
    BY <2>1, <2>2, <2>3, <2>4 DEF BoardHolds
<1> QED
  BY <1>1, <1>2, <1>3, PTL DEF BSpec

---------------------------------------------------------------------------
CONSTANTS Devices, MaxStored, MaxNotices
VARIABLES box, read, newest, subs, tx, saved
INSTANCE Notices WITH last <- newest

---------------------------------------------------------------------------
(* Notices: sets of ids.                                                          *)

LEMMA LargestIn ==
    ASSUME NEW T \in SUBSET Nat, T # {}, NEW k \in Nat, \A x \in T : x <= k
    PROVE  \E m \in T : \A x \in T : x <= m
<1> DEFINE R == OpToRel(<, Nat)
           D == {d \in Nat : \E x \in T : d = k - x}
<1>1. D \subseteq Nat /\ D # {}
  <2>1. PICK x \in T : TRUE
    OBVIOUS
  <2>2. k - x \in D
    OBVIOUS
  <2> QED
    BY <2>2
<1>2. \E d \in D : \A e \in D : ~ (<<e, d>> \in R)
  <2> HIDE DEF D, R
  <2> QED
    BY <1>1, NatLessThanWellFounded, WFMin DEF R
<1>3. PICK d \in D : \A e \in D : ~ (<<e, d>> \in R)
  BY <1>2
<1>4. PICK m \in T : d = k - m
  OBVIOUS
<1>5. ASSUME NEW x \in T PROVE x <= m
  <2>1. (k - x) \in D /\ (k - x) \in Nat /\ d \in Nat
    OBVIOUS
  <2>2. ~((k - x) < d)
    BY <2>1, <1>3 DEF OpToRel
  <2> QED
    BY <2>1, <2>2, <1>4
<1> QED
  BY <1>5

\* Among what is left of a set there are as many newer than n as it had, up to MaxStored,
\* if each that is taken away had as many.
LEMMA EnoughLeft ==
    ASSUME MaxStored \in Nat, NEW B \in SUBSET Nat, NEW k \in Nat, \A x \in B : x <= k, NEW G,
           \A g \in G : Cardinality(Newer(g, B)) >= MaxStored,
           NEW n \in Nat, Cardinality(Newer(n, B)) >= MaxStored
    PROVE  Cardinality(Newer(n, B \ G)) >= MaxStored
<1> DEFINE T == Newer(n, B) \cap G
<1>0. IsFiniteSet(B) /\ IsFiniteSet(Newer(n, B \ G))
  <2>1. IsFiniteSet(B)
    BY FS_BoundedSetOfNaturals
  <2> QED
    BY <2>1, FS_Subset DEF Newer
<1>1. CASE T = {}
  BY <1>1, Zenon DEF Newer
<1>2. CASE T # {}
  <2>1. T \subseteq Nat /\ \A x \in T : x <= k
    BY DEF Newer
  <2>2. PICK m \in T : \A x \in T : x <= m
    BY <2>1, <1>2, LargestIn
  <2>3. m \in B /\ m \in G /\ m > n
    BY DEF Newer
  <2>4. ASSUME NEW x \in Newer(m, B) PROVE x \in Newer(n, B \ G)
    <3>1. x \in B /\ x \in Nat /\ m \in Nat /\ x > m /\ x > n
      BY <2>3 DEF Newer
    <3>2. x \notin G
      <4>1. x \in G => x \in T
        BY <3>1 DEF Newer
      <4> HIDE DEF T
      <4> QED
        BY <4>1, <3>1, <2>2
    <3> QED
      BY <3>1, <3>2 DEF Newer
  <2>5. Cardinality(Newer(m, B)) \in Nat /\ Cardinality(Newer(m, B)) <= Cardinality(Newer(n, B \ G))
        /\ Cardinality(Newer(n, B \ G)) \in Nat /\ Cardinality(Newer(m, B)) >= MaxStored
    <3>1. Newer(m, B) \subseteq Newer(n, B \ G)
      BY <2>4
    <3> QED
      BY <2>3, <3>1, <1>0, FS_Subset, FS_CardinalityType
  <2> QED
    BY <2>5
<1> QED
  BY <1>1, <1>2

\* What is kept of a set is MaxStored at the most.
LEMMA FewKept ==
    ASSUME MaxStored \in Nat, NEW B \in SUBSET Nat, NEW k \in Nat, \A x \in B : x <= k
    PROVE  IsFiniteSet(B) /\ Cardinality(B \ Surplus(B)) <= MaxStored
<1> DEFINE K == B \ Surplus(B)
           T == {d \in Nat : \E x \in K : d = k - x}
<1>0. IsFiniteSet(B) /\ IsFiniteSet(K)
  <2>1. IsFiniteSet(B)
    BY FS_BoundedSetOfNaturals
  <2> QED
    BY <2>1, FS_Subset
<1>1. \A x \in K : Cardinality(Newer(x, B)) < MaxStored
  <2>1. ASSUME NEW x \in K PROVE Cardinality(Newer(x, B)) \in Nat
    BY <1>0, FS_Subset, FS_CardinalityType DEF Newer
  <2> QED
    BY <2>1 DEF Surplus
<1>2. CASE K = {}
  BY <1>0, <1>2, FS_EmptySet
<1>3. CASE K # {}
  <2>1. T \subseteq Nat /\ \A d \in T : d <= k
    OBVIOUS
  <2>2. T # {}
    <3>1. PICK x \in K : TRUE
      BY <1>3
    <3>2. k - x \in T
      OBVIOUS
    <3> QED
      BY <3>2
  <2>3. PICK e \in T : \A d \in T : d <= e
    <3> HIDE DEF T
    <3> QED
      BY <2>1, <2>2, LargestIn
  <2>4. PICK m \in K : e = k - m
    OBVIOUS
  <2>5. \A x \in K : m <= x
    <3> SUFFICES ASSUME NEW x \in K PROVE m <= x
      OBVIOUS
    <3>1. k - x \in T
      OBVIOUS
    <3> QED
      BY <3>1, <2>3, <2>4
  <2>6. K \ {m} \subseteq Newer(m, B)
    <3>1. ASSUME NEW x \in K, x # m PROVE x \in B /\ x > m
      BY <3>1, <2>5
    <3> QED
      BY <3>1 DEF Newer
  <2> HIDE DEF K, T
  <2>7. IsFiniteSet(Newer(m, B))
    BY <1>0, FS_Subset DEF Newer
  <2>8. Cardinality(K \ {m}) = Cardinality(K) - 1 /\ Cardinality(K) \in Nat
    BY <1>0, FS_RemoveElement, FS_CardinalityType
  <2>9. Cardinality(K \ {m}) <= Cardinality(Newer(m, B)) /\ Cardinality(Newer(m, B)) \in Nat
    BY <2>6, <2>7, FS_Subset, FS_CardinalityType
  <2>10. Cardinality(Newer(m, B)) < MaxStored
    BY <1>1
  <2> QED
    BY <1>0, <2>8, <2>9, <2>10 DEF K
<1> QED
  BY <1>2, <1>3, <1>0

---------------------------------------------------------------------------
(* The invariant.                                                                 *)

TxOK(t, top) ==
    /\ t \in [at : {"prune", "end"}, user : Users, id : Nat \cup {None}, gone : SUBSET Nat, sub : {t.sub}]
    /\ \A n \in t.gone : n <= top
    /\ IF t.id = None THEN t.at = "end" /\ t.gone = {} ELSE t.id \in Nat /\ t.id <= top
    /\ t.at # "end" => t.gone = {}
Open == {r \in Requests : tx[r] # None /\ tx[r].id # None}

\* An id is that of one transaction or in one box.
Ids ==
    /\ newest \in Nat /\ box \in [Users -> SUBSET Nat] /\ DOMAIN tx = Requests
    /\ \A u \in Users : \A n \in box[u] : n <= newest
    /\ \A r \in Requests : tx[r] = None \/ TxOK(tx[r], newest)
    /\ \A r \in Open : \A u \in Users : tx[r].id \notin box[u]
    /\ \A r, p \in Open : r # p => tx[r].id # tx[p].id /\ tx[r].id \notin tx[p].gone
    /\ \A u, v \in Users : u # v => box[u] \cap box[v] = {}

\* The transactions on a box that have pruned it, and what some of them would leave of it.
Pruners(u) == {r \in Open : tx[r].at = "end" /\ tx[r].user = u}
IdsOf(f, S) == {f[r].id : r \in S}
Remains(b, f, S) == {n \in b \cup IdsOf(f, S) : \A r \in S : n \notin f[r].gone}
\* Whichever of them commit, and in whatever order, the box is not too large.
Bounded == \A u \in Users : \A S \in SUBSET Pruners(u) :
              Cardinality(Remains(box[u], tx, S)) < MaxStored + Cardinality(Requests)
\* What a transaction is going to delete has enough that are newer.
Owed == \A r \in Open : \A n \in tx[r].gone :
            Cardinality(Newer(n, box[tx[r].user] \cup {tx[r].id})) >= MaxStored

MailInv == Ids /\ Bounded /\ Owed

LEMMA Finite ==
    ASSUME MailAssumption, Ids, NEW u \in Users, NEW S \in SUBSET Open
    PROVE  /\ IsFiniteSet(box[u])
           /\ Remains(box[u], tx, S) \subseteq Nat
           /\ IsFiniteSet(Remains(box[u], tx, S))
<1>1. IsFiniteSet(box[u])
  <2>1. box[u] \in SUBSET Nat /\ newest \in Nat /\ \A n \in box[u] : n <= newest
    BY DEF Ids
  <2> QED
    BY <2>1, FS_BoundedSetOfNaturals
<1>2. \A r \in S : tx[r].id \in Nat /\ tx[r].id <= newest
  BY DEF Ids, Open, TxOK
<1>3. Remains(box[u], tx, S) \in SUBSET Nat /\ newest \in Nat /\ \A n \in Remains(box[u], tx, S) : n <= newest
  BY <1>2 DEF Ids, Remains, IdsOf
<1> QED
  BY <1>1, <1>3, FS_BoundedSetOfNaturals

LEMMA FewIds ==
    ASSUME MailAssumption, NEW S \in SUBSET Requests, NEW f
    PROVE  IsFiniteSet(IdsOf(f, S)) /\ Cardinality(IdsOf(f, S)) <= Cardinality(S) /\ IsFiniteSet(S)
<1> DEFINE g == [r \in S |-> f[r].id]
<1>1. g \in Surjection(S, IdsOf(f, S))
  BY DEF Surjection, IdsOf
<1>2. IsFiniteSet(S)
  BY FS_Subset DEF MailAssumption
<1> HIDE DEF g
<1> QED
  BY <1>1, <1>2, FS_Surjection

\* A transaction that has not pruned the box, or has no notice, or ends without a commit.
LEMMA SameBox ==
    ASSUME MailAssumption, MailInv, NEW r \in Requests, NEW t,
           tx' = [tx EXCEPT ![r] = t], box' = box, newest' \in Nat, newest <= newest',
           t = None \/ (t \in [at : {"prune", "end"}, user : Users, id : Nat \cup {None}, gone : {{}}, sub : {t.sub}]),
           t = None \/ (t.id = None /\ t.at = "end")
                    \/ (t.id = newest' /\ t.id # None /\ newest < newest' /\ t.at # "end")
    PROVE  MailInv'
<1>. USE DEF MailInv
<1>1. /\ DOMAIN tx' = Requests /\ tx'[r] = t /\ \A p \in Requests : p # r => tx'[p] = tx[p]
      /\ newest \in Nat
  BY DEF Ids
<1>2. ASSUME NEW p \in Open', p # r PROVE p \in Open /\ tx'[p] = tx[p] /\ tx[p].id <= newest /\ tx[p].id \in Nat
                                          /\ \A n \in tx[p].gone : n \in Nat /\ n <= newest
  BY <1>1, <1>2 DEF Open, Ids, TxOK
<1>3. r \in Open' => t.id = newest' /\ newest < newest' /\ t.at # "end" /\ t.gone = {}
  BY <1>1 DEF Open
<1>4. Ids'
  <2>1. ASSUME NEW p \in Requests PROVE tx'[p] = None \/ TxOK(tx'[p], newest')
    <3>1. CASE p = r
      BY <3>1, <1>1 DEF TxOK
    <3>2. CASE p # r
      <4>1. \A x : TxOK(x, newest) => TxOK(x, newest')
        BY <1>1 DEF TxOK
      <4> QED
        BY <3>2, <1>1, <4>1 DEF Ids
    <3> QED
      BY <3>1, <3>2
  <2>2. ASSUME NEW p \in Open', NEW u \in Users PROVE tx'[p].id \notin box'[u]
    BY <2>2, <1>1, <1>2, <1>3 DEF Ids
  <2>3. ASSUME NEW p \in Open', NEW q \in Open', p # q PROVE tx'[p].id # tx'[q].id /\ tx'[p].id \notin tx'[q].gone
    BY <2>3, <1>1, <1>2, <1>3 DEF Ids
  <2>4. \A u \in Users : \A n \in box'[u] : n <= newest'
    BY <1>1 DEF Ids
  <2> QED
    BY <1>1, <2>1, <2>2, <2>3, <2>4 DEF Ids
<1>5. Bounded'
  <2> SUFFICES ASSUME NEW u \in Users, NEW S \in SUBSET Pruners(u)'
               PROVE  Cardinality(Remains(box'[u], tx', S)) < MaxStored + Cardinality(Requests)
    BY DEF Bounded
  <2>1. \A p \in S : p # r /\ p \in Pruners(u) /\ tx'[p] = tx[p]
    BY <1>1, <1>2, <1>3 DEF Pruners
  <2>2. Remains(box'[u], tx', S) = Remains(box[u], tx, S)
    <3>1. IdsOf(tx', S) = IdsOf(tx, S)
      BY <2>1 DEF IdsOf
    <3> QED
      BY <2>1, <3>1 DEF Remains
  <2> QED
    BY <2>1, <2>2 DEF Bounded
<1>6. Owed'
  BY <1>1, <1>2, <1>3 DEF Owed
<1> QED
  BY <1>4, <1>5, <1>6

LEMMA PruneKeeps ==
    ASSUME MailAssumption, MailInv, NEW r \in Requests, Prune(r) PROVE MailInv'
<1>. USE DEF MailInv
<1> DEFINE old == tx[r]  u == old.user  seen == box[u] \cup {old.id}
           t == [old EXCEPT !.at = "end", !.gone = Surplus(seen)]
<1>1. /\ tx' = [tx EXCEPT ![r] = t] /\ box' = box /\ newest' = newest
      /\ r \in Open /\ TxOK(old, newest) /\ old.id # None /\ old.at = "prune"
  BY DEF Prune, At, Step, Ids, TxOK, Open
<1>3. u \in Users /\ old.id \in Nat /\ old.id <= newest /\ newest \in Nat
      /\ seen \in SUBSET Nat /\ \A n \in seen : n <= newest
  BY <1>1 DEF TxOK, Ids
<1>4. Surplus(seen) \subseteq seen
  BY DEF Surplus
<1>2. /\ t \in [at : {"prune", "end"}, user : Users, id : Nat \cup {None}, gone : SUBSET Nat, sub : {t.sub}]
      /\ t.at = "end" /\ t.user = u /\ t.id = old.id /\ t.gone = Surplus(seen)
  <2>1. Surplus(seen) \in SUBSET Nat
    BY <1>3, <1>4
  <2>2. TxOK(old, newest)
    BY <1>1
  <2>3. t = [old EXCEPT !.at = "end", !.gone = Surplus(seen)]
    OBVIOUS
  <2> HIDE DEF seen, old, t
  <2> QED
    BY <2>1, <2>2, <2>3 DEF TxOK
<1> HIDE DEF t
<1>5. /\ DOMAIN tx' = Requests /\ tx'[r] = t /\ \A p \in Requests : p # r => tx'[p] = tx[p]
  BY <1>1 DEF Ids
<1>6. Open' \subseteq Open /\ \A p \in Open' : tx'[p].id = tx[p].id
  BY <1>1, <1>2, <1>5 DEF Open
<1>7. Ids'
  <2>1. ASSUME NEW p \in Requests PROVE tx'[p] = None \/ TxOK(tx'[p], newest')
    <3>1. CASE p = r
      BY <3>1, <1>1, <1>2, <1>3, <1>4, <1>5 DEF TxOK
    <3>2. CASE p # r
      BY <3>2, <1>1, <1>5 DEF Ids
    <3> QED
      BY <3>1, <3>2
  <2>2. ASSUME NEW p \in Open', NEW v \in Users PROVE tx'[p].id \notin box'[v]
    BY <1>1, <1>6 DEF Ids
  <2>3. ASSUME NEW p \in Open', NEW q \in Open', p # q PROVE tx'[p].id # tx'[q].id /\ tx'[p].id \notin tx'[q].gone
    <3>1. tx'[p].id # tx'[q].id /\ tx[p].id \notin tx[q].gone
      BY <2>3, <1>6 DEF Ids
    <3>2. CASE q = r
      <4>1. tx'[q].gone \subseteq box[u] \cup {tx[q].id}
        BY <3>2, <1>2, <1>4, <1>5
      <4>2. p \in Open /\ q \in Open /\ tx[p].id # tx[q].id /\ tx[p].id \notin box[u] /\ tx'[p].id = tx[p].id
        BY <2>3, <1>3, <1>6 DEF Ids
      <4> QED
        BY <3>1, <4>1, <4>2
    <3>3. CASE q # r
      BY <3>1, <3>3, <1>5, <1>6 DEF Open
    <3> QED
      BY <3>2, <3>3
  <2> QED
    BY <1>1, <1>5, <2>1, <2>2, <2>3 DEF Ids
<1>8. Bounded'
  <2> SUFFICES ASSUME NEW v \in Users, NEW S \in SUBSET Pruners(v)'
               PROVE  Cardinality(Remains(box'[v], tx', S)) < MaxStored + Cardinality(Requests)
    BY DEF Bounded
  <2>1. \A p \in S : p # r => p \in Pruners(v) /\ tx'[p] = tx[p]
    BY <1>5, <1>6 DEF Pruners, Open
  <2>2. CASE r \notin S
    <3>1. IdsOf(tx', S) = IdsOf(tx, S)
      BY <2>1, <2>2 DEF IdsOf
    <3>2. Remains(box'[v], tx', S) = Remains(box[v], tx, S)
      BY <2>1, <2>2, <3>1, <1>1 DEF Remains
    <3>3. S \subseteq Pruners(v)
      BY <2>1, <2>2
    <3> QED
      BY <3>2, <3>3 DEF Bounded
  <2>3. CASE r \in S
    <3> DEFINE others == S \ {r}  kept == seen \ Surplus(seen)
    <3>1. v = u
      BY <2>3, <1>2, <1>5 DEF Pruners
    <3>2. Remains(box'[v], tx', S) \subseteq kept \cup IdsOf(tx', others)
      BY <2>3, <3>1, <1>1, <1>2, <1>5 DEF Remains, IdsOf
    <3>3. IsFiniteSet(kept) /\ Cardinality(kept) \in Nat /\ Cardinality(kept) <= MaxStored
      <4>1. IsFiniteSet(seen) /\ Cardinality(kept) <= MaxStored
        BY <1>3, FewKept DEF MailAssumption
      <4> QED
        BY <4>1, FS_Subset, FS_CardinalityType
    <3>4. S \subseteq Requests /\ others \subseteq Requests
      BY DEF Pruners, Open
    <3>5. /\ IsFiniteSet(IdsOf(tx', others)) /\ Cardinality(IdsOf(tx', others)) <= Cardinality(others)
          /\ IsFiniteSet(S) /\ IsFiniteSet(others)
      BY <3>4, FewIds
    <3>6. Cardinality(others) = Cardinality(S) - 1 /\ Cardinality(S) <= Cardinality(Requests)
          /\ Cardinality(S) \in Nat /\ Cardinality(Requests) \in Nat
          /\ Cardinality(IdsOf(tx', others)) \in Nat /\ Cardinality(others) \in Nat
      <4>1. Cardinality(others) = Cardinality(S) - 1
        BY <2>3, <3>5, FS_RemoveElement
      <4>2. Cardinality(S) <= Cardinality(Requests)
        BY <3>4, FS_Subset DEF MailAssumption
      <4> HIDE DEF others
      <4> QED
        BY <4>1, <4>2, <3>5, FS_CardinalityType DEF MailAssumption
    <3> HIDE DEF kept, others
    <3>7. /\ IsFiniteSet(kept \cup IdsOf(tx', others))
          /\ Cardinality(kept \cup IdsOf(tx', others)) <= Cardinality(kept) + Cardinality(IdsOf(tx', others))
      <4>1. IsFiniteSet(kept \cap IdsOf(tx', others))
        BY <3>3, FS_Subset
      <4>2. Cardinality(kept \cap IdsOf(tx', others)) \in Nat
        BY <4>1, FS_CardinalityType
      <4>3. /\ IsFiniteSet(kept \cup IdsOf(tx', others))
            /\ Cardinality(kept \cup IdsOf(tx', others))
                  = Cardinality(kept) + Cardinality(IdsOf(tx', others)) - Cardinality(kept \cap IdsOf(tx', others))
        BY <3>3, <3>5, FS_Union
      <4> QED
        BY <3>3, <3>6, <4>2, <4>3
    <3>8. Cardinality(Remains(box'[v], tx', S)) <= Cardinality(kept \cup IdsOf(tx', others))
          /\ Cardinality(Remains(box'[v], tx', S)) \in Nat /\ Cardinality(kept \cup IdsOf(tx', others)) \in Nat
      BY <3>2, <3>7, FS_Subset, FS_CardinalityType
    <3> QED
      BY <3>3, <3>5, <3>6, <3>7, <3>8 DEF MailAssumption
  <2> QED
    BY <2>2, <2>3
<1>9. Owed'
  <2> SUFFICES ASSUME NEW p \in Open', NEW n \in tx'[p].gone
               PROVE  Cardinality(Newer(n, box'[tx'[p].user] \cup {tx'[p].id})) >= MaxStored
    BY DEF Owed
  <2>1. CASE p = r
    BY <2>1, <1>1, <1>2, <1>5 DEF Surplus
  <2>2. CASE p # r
    BY <2>2, <1>1, <1>5, <1>6 DEF Owed, Open
  <2> QED
    BY <2>1, <2>2
<1> QED
  BY <1>7, <1>8, <1>9

\* Ending without a change of a box.
LEMMA EndKeeps ==
    ASSUME MailAssumption, MailInv, NEW r \in Requests, tx' = [tx EXCEPT ![r] = None], UNCHANGED <<box, newest>>
    PROVE  MailInv'
<1>1. newest' \in Nat /\ newest <= newest' /\ box' = box
  BY DEF MailInv, Ids
<1> QED
  BY <1>1, SameBox

LEMMA CreateKeeps ==
    ASSUME MailAssumption, MailInv, NEW r \in Requests, Create(r) PROVE MailInv'
<1>1. PICK u \in Users : tx' = [tx EXCEPT ![r] = [at |-> "prune", user |-> u, id |-> newest + 1, gone |-> {}, sub |-> None]]
  BY DEF Create, Step
<1> DEFINE t == [at |-> "prune", user |-> u, id |-> newest + 1, gone |-> {}, sub |-> None]
<1>2. newest' = newest + 1 /\ newest \in Nat /\ box' = box
  BY DEF Create, MailInv, Ids
<1>3. /\ t \in [at : {"prune", "end"}, user : Users, id : Nat \cup {None}, gone : {{}}, sub : {t.sub}]
      /\ t.id = newest' /\ t.id # None /\ t.at # "end"
  BY <1>2 DEF MailAssumption
<1>4. tx' = [tx EXCEPT ![r] = t] /\ newest' \in Nat /\ newest <= newest' /\ newest < newest'
  BY <1>1, <1>2
<1> HIDE DEF t
<1> QED
  BY <1>2, <1>3, <1>4, SameBox

LEMMA SubscribeKeeps ==
    ASSUME MailAssumption, MailInv, NEW r \in Requests, Subscribe(r) PROVE MailInv'
<1>0. PICK u \in Users : \E x : tx' = [tx EXCEPT ![r] = [at |-> "end", user |-> u, id |-> None, gone |-> {}, sub |-> x]]
  BY DEF Subscribe, Step
<1>1. PICK x : tx' = [tx EXCEPT ![r] = [at |-> "end", user |-> u, id |-> None, gone |-> {}, sub |-> x]]
  BY <1>0
<1> DEFINE t == [at |-> "end", user |-> u, id |-> None, gone |-> {}, sub |-> x]
<1>2. newest' = newest /\ newest \in Nat /\ box' = box
  BY DEF Subscribe, MailInv, Ids
<1>3. /\ t \in [at : {"prune", "end"}, user : Users, id : Nat \cup {None}, gone : {{}}, sub : {t.sub}]
      /\ t.id = None /\ t.at = "end"
  OBVIOUS
<1>4. tx' = [tx EXCEPT ![r] = t] /\ newest' \in Nat /\ newest <= newest'
  BY <1>1, <1>2
<1> HIDE DEF t
<1> QED
  BY <1>2, <1>3, <1>4, SameBox

\* What a commit with a notice does to the box.
LEMMA CommitStores ==
    ASSUME MailAssumption, MailInv, NEW r \in Requests, CommitTx(r)
    PROVE  LET t == tx[r]  u == t.user IN
           /\ u \in Users /\ tx' = [tx EXCEPT ![r] = None] /\ newest' = newest
           /\ t.id = None => box' = box
           /\ t.id # None => /\ box' = [box EXCEPT ![u] = (box[u] \cup {t.id}) \ t.gone]
                             /\ r \in Pruners(u) /\ t.id \in Nat /\ t.id <= newest
<1> DEFINE t == tx[r]  u == t.user
<1>1. /\ TxOK(t, newest) /\ r \in Requests /\ t # None /\ t.at = "end" /\ newest' = newest
      /\ tx' = [tx EXCEPT ![r] = None]
      /\ box' = [box EXCEPT ![u] = (@ \cup IF t.id = None THEN {} ELSE {t.id}) \ t.gone]
  BY DEF CommitTx, At, Step, MailInv, Ids
<1>2. box \in [Users -> SUBSET Nat] /\ u \in Users
  BY <1>1 DEF MailInv, Ids, TxOK
<1> HIDE DEF t
<1>3. t.id = None => box' = box
  <2>1. t.id = None => t.gone = {}
    BY <1>1 DEF TxOK
  <2>2. t.id = None => box' = [box EXCEPT ![u] = box[u]]
    BY <1>1, <2>1
  <2> QED
    BY <2>2, <1>2
<1>4. t.id # None => box' = [box EXCEPT ![u] = (box[u] \cup {t.id}) \ t.gone]
  BY <1>1
<1>5. t.id # None => r \in Pruners(u) /\ t.id \in Nat /\ t.id <= newest
  BY <1>1 DEF Pruners, Open, TxOK, t
<1> QED
  BY <1>1, <1>2, <1>3, <1>4, <1>5 DEF t

LEMMA CommitKeeps ==
    ASSUME MailAssumption, MailInv, NEW r \in Requests, CommitTx(r) PROVE MailInv' /\ GoesAsOld
<1>. USE DEF MailInv
<1> DEFINE t == tx[r]  u == t.user
<1>0. /\ u \in Users /\ tx' = [tx EXCEPT ![r] = None] /\ newest' = newest
      /\ t.id = None => box' = box
      /\ t.id # None => /\ box' = [box EXCEPT ![u] = (box[u] \cup {t.id}) \ t.gone]
                        /\ r \in Pruners(u) /\ t.id \in Nat /\ t.id <= newest
  BY CommitStores
<1> HIDE DEF t, u
<1>1. CASE t.id = None
  <2>1. MailInv'
    BY <1>0, <1>1, EndKeeps
  <2> QED
    BY <2>1, <1>0, <1>1 DEF GoesAsOld
<1>2. CASE t.id # None
  <2>1. /\ DOMAIN box = Users /\ box'[u] = (box[u] \cup {t.id}) \ t.gone
        /\ \A v \in Users : v # u => box'[v] = box[v]
        /\ box[u] \subseteq Nat /\ newest \in Nat /\ \A n \in box[u] : n <= newest
        /\ newest' = newest /\ u \in Users /\ t.id \in Nat /\ t.id <= newest /\ r \in Pruners(u)
    BY <1>0, <1>2 DEF Ids
  <2>2. /\ r \in Open /\ Open' = Open \ {r} /\ (\A p \in Open' : tx'[p] = tx[p]) /\ DOMAIN tx' = Requests
        /\ tx'[r] = None /\ \A p \in Requests : p # r => tx'[p] = tx[p]
    BY <1>0, <2>1 DEF Open, Pruners, Ids
  <2>3. /\ \A v \in Users : t.id \notin box[v]
        /\ \A p \in Open' : tx[p].id # t.id /\ tx[p].id \notin t.gone /\ tx[p].id \in Nat /\ tx[p].id <= newest
                            /\ tx[p].user \in Users
    BY <2>2 DEF Ids, Open, TxOK, t
  <2>4. Ids'
    <3>1. box' \in [Users -> SUBSET Nat]
      BY <1>0, <1>2, <2>1 DEF Ids
    <3>2. \A v \in Users : \A n \in box'[v] : n <= newest'
      BY <2>1 DEF Ids
    <3>3. \A p \in Requests : tx'[p] = None \/ TxOK(tx'[p], newest')
      BY <2>1, <2>2 DEF Ids
    <3>4. ASSUME NEW p \in Open', NEW v \in Users PROVE tx'[p].id \notin box'[v]
      BY <2>1, <2>2, <2>3 DEF Ids
    <3>5. \A p, q \in Open' : p # q => tx'[p].id # tx'[q].id /\ tx'[p].id \notin tx'[q].gone
      BY <2>2 DEF Ids
    <3>6. ASSUME NEW v \in Users, NEW w \in Users, v # w PROVE box'[v] \cap box'[w] = {}
      BY <3>6, <2>1, <2>3 DEF Ids
    <3> QED
      BY <2>1, <2>2, <3>1, <3>2, <3>3, <3>4, <3>5, <3>6 DEF Ids
  <2>5. Bounded'
    <3> SUFFICES ASSUME NEW v \in Users, NEW S \in SUBSET Pruners(v)'
                 PROVE  Cardinality(Remains(box'[v], tx', S)) < MaxStored + Cardinality(Requests)
      BY DEF Bounded
    <3>1. \A p \in S : p # r /\ p \in Open' /\ p \in Pruners(v) /\ tx'[p] = tx[p]
      BY <2>2 DEF Pruners
    <3>2. IdsOf(tx', S) = IdsOf(tx, S)
      BY <3>1 DEF IdsOf
    <3>3. CASE v # u
      <4>1. Remains(box'[v], tx', S) = Remains(box[v], tx, S) /\ S \subseteq Pruners(v)
        BY <3>1, <3>2, <3>3, <2>1 DEF Remains
      <4> QED
        BY <4>1 DEF Bounded
    <3>4. CASE v = u
      <4> DEFINE all == S \cup {r}
      <4>1. all \in SUBSET Pruners(u) /\ all \subseteq Open
        BY <3>1, <3>4, <2>1 DEF Pruners
      <4>2. Remains(box'[v], tx', S) \subseteq Remains(box[u], tx, all)
        <5> SUFFICES ASSUME NEW n \in Remains(box'[v], tx', S) PROVE n \in Remains(box[u], tx, all)
          OBVIOUS
        <5>1. \A p \in S : n \notin tx[p].gone
          BY <3>1 DEF Remains
        <5>2. n \in box[u] \cup IdsOf(tx, all) /\ n \notin t.gone
          <6>1. n \in box'[u] \/ n \in IdsOf(tx, S)
            BY <3>2, <3>4 DEF Remains
          <6>2. CASE n \in box'[u]
            BY <6>2, <2>1 DEF IdsOf, t
          <6>3. CASE n \in IdsOf(tx, S)
            <7>1. PICK p \in S : n = tx[p].id
              BY <6>3 DEF IdsOf
            <7> QED
              BY <7>1, <3>1, <2>3 DEF IdsOf
          <6> QED
            BY <6>1, <6>2, <6>3
        <5> QED
          BY <5>1, <5>2 DEF Remains, t
      <4> HIDE DEF all
      <4>3. IsFiniteSet(Remains(box[u], tx, all))
        BY <4>1, <2>1, Finite
      <4>4. Cardinality(Remains(box[u], tx, all)) < MaxStored + Cardinality(Requests)
        BY <4>1, <2>1 DEF Bounded
      <4>5. Cardinality(Remains(box'[v], tx', S)) <= Cardinality(Remains(box[u], tx, all))
            /\ Cardinality(Remains(box'[v], tx', S)) \in Nat /\ Cardinality(Remains(box[u], tx, all)) \in Nat
            /\ Cardinality(Requests) \in Nat
        BY <4>2, <4>3, FS_Subset, FS_CardinalityType DEF MailAssumption
      <4> QED
        BY <4>4, <4>5 DEF MailAssumption
    <3> QED
      BY <3>3, <3>4
  \* What goes has enough that are newer left, and so have those that others have to delete.
  <2>6. \A n \in t.gone : n \in Nat /\ Cardinality(Newer(n, box[u] \cup {t.id})) >= MaxStored
    BY <2>2 DEF Owed, Ids, TxOK, t, u, Open
  <2>7. ASSUME NEW x \in Nat, x <= newest, NEW n \in Nat, Cardinality(Newer(n, box[u] \cup {x})) >= MaxStored
        PROVE  Cardinality(Newer(n, (box[u] \cup {x, t.id}) \ t.gone)) >= MaxStored
    <3> DEFINE B == box[u] \cup {x, t.id}
    <3>1. B \in SUBSET Nat /\ \A y \in B : y <= newest
      BY <2>7, <2>1
    <3>2. IsFiniteSet(B)
      BY <3>1, <2>1, FS_BoundedSetOfNaturals
    <3>3. ASSUME NEW m \in Nat, NEW C \in SUBSET B, Cardinality(Newer(m, C)) >= MaxStored
          PROVE  Cardinality(Newer(m, B)) >= MaxStored
      <4> HIDE DEF B
      <4>1. Newer(m, C) \subseteq Newer(m, B) /\ Newer(m, B) \subseteq B
        BY DEF Newer
      <4>2. IsFiniteSet(Newer(m, B))
        BY <4>1, <3>2, FS_Subset
      <4>3. Cardinality(Newer(m, C)) <= Cardinality(Newer(m, B)) /\ Cardinality(Newer(m, C)) \in Nat
            /\ Cardinality(Newer(m, B)) \in Nat
        BY <4>1, <4>2, FS_Subset, FS_CardinalityType
      <4> QED
        BY <3>3, <4>3 DEF MailAssumption
    <3>4. (box[u] \cup {x}) \subseteq B /\ (box[u] \cup {t.id}) \subseteq B
      OBVIOUS
    <3> HIDE DEF B
    <3>5. \A g \in t.gone : Cardinality(Newer(g, B)) >= MaxStored
      BY <2>6, <3>3, <3>4
    <3>6. Cardinality(Newer(n, B)) >= MaxStored
      BY <2>7, <3>3, <3>4
    <3>7. Cardinality(Newer(n, B \ t.gone)) >= MaxStored
      BY <3>1, <3>5, <3>6, <2>1, EnoughLeft DEF MailAssumption
    <3> QED
      BY <3>7 DEF B
  <2>8. Owed'
    <3> SUFFICES ASSUME NEW p \in Open', NEW n \in tx'[p].gone
                 PROVE  Cardinality(Newer(n, box'[tx'[p].user] \cup {tx'[p].id})) >= MaxStored
      BY DEF Owed
    <3>1. /\ p \in Open /\ tx'[p] = tx[p] /\ n \in Nat /\ n \in tx[p].gone
          /\ Cardinality(Newer(n, box[tx[p].user] \cup {tx[p].id})) >= MaxStored
      BY <2>2 DEF Owed, Ids, TxOK, Open
    <3>2. CASE tx[p].user # u
      BY <3>1, <3>2, <2>1, <2>3
    <3>3. CASE tx[p].user = u
      <4>1. Cardinality(Newer(n, (box[u] \cup {tx[p].id, t.id}) \ t.gone)) >= MaxStored
        BY <3>1, <3>3, <2>3, <2>7
      <4>2. (box[u] \cup {tx[p].id, t.id}) \ t.gone = box'[u] \cup {tx[p].id}
        BY <2>1, <2>3
      <4> QED
        BY <4>1, <4>2, <3>1, <3>3
    <3> QED
      BY <3>2, <3>3
  <2>9. GoesAsOld
    <3> SUFFICES ASSUME NEW v \in Users, NEW n \in box[v] \ box'[v]
                 PROVE  Cardinality(Newer(n, box'[v])) >= MaxStored
      BY DEF GoesAsOld
    <3>1. v = u /\ n \in t.gone
      BY <2>1
    <3>2. Cardinality(Newer(n, (box[u] \cup {t.id, t.id}) \ t.gone)) >= MaxStored
      BY <3>1, <2>1, <2>6, <2>7
    <3>3. (box[u] \cup {t.id, t.id}) \ t.gone = box'[u]
      BY <2>1
    <3> QED
      BY <3>1, <3>2, <3>3
  <2> QED
    BY <2>4, <2>5, <2>8, <2>9
<1> QED
  BY <1>1, <1>2

LEMMA MailStep ==
    ASSUME MailAssumption, MailInv, [NNext]_noticeVars PROVE MailInv' /\ GoesAsOld
<1>1. ASSUME box' = box PROVE GoesAsOld
  BY <1>1 DEF GoesAsOld
<1>2. ASSUME NEW r \in Requests, Create(r) PROVE MailInv' /\ GoesAsOld
  BY <1>2, <1>1, CreateKeeps DEF Create
<1>3. ASSUME NEW r \in Requests, Prune(r) PROVE MailInv' /\ GoesAsOld
  BY <1>3, <1>1, PruneKeeps DEF Prune
<1>4. ASSUME NEW r \in Requests, Subscribe(r) PROVE MailInv' /\ GoesAsOld
  BY <1>4, <1>1, SubscribeKeeps DEF Subscribe
<1>5. ASSUME NEW r \in Requests, CommitTx(r) PROVE MailInv' /\ GoesAsOld
  BY <1>5, CommitKeeps
<1>6. ASSUME NEW r \in Requests, Rollback(r) PROVE MailInv' /\ GoesAsOld
  BY <1>6, <1>1, EndKeeps DEF Rollback, Step
<1>7. ASSUME UNCHANGED <<box, newest, tx>> PROVE MailInv' /\ GoesAsOld
  BY <1>7, <1>1 DEF MailInv, Ids, Bounded, Owed, Open, Pruners
<1>8. CASE (\E u \in Users : MarkRead(u)) \/ Push \/ Unsubscribe \/ UNCHANGED noticeVars
  BY <1>8, <1>7 DEF MarkRead, Push, Unsubscribe, noticeVars
<1> QED
  BY <1>2, <1>3, <1>4, <1>5, <1>6, <1>8 DEF NNext

(* However many requests store notices in a box and prune it at a time, it is over its
   limit by fewer than there are requests, and what is deleted is not among the newest
   (notification/repo.py:121-160).                                                   *)
THEOREM NoticesKept ==
    ASSUME MailAssumption PROVE NSpec => NewestKept
<1>1. NInit => MailInv
  <2> SUFFICES ASSUME NInit PROVE MailInv
    OBVIOUS
  <2>1. Ids /\ Owed
    BY DEF NInit, Ids, Owed, Open
  <2>2. Bounded
    <3> SUFFICES ASSUME NEW u \in Users, NEW S \in SUBSET Pruners(u)
                 PROVE  Cardinality(Remains(box[u], tx, S)) < MaxStored + Cardinality(Requests)
      BY DEF Bounded
    <3>1. Remains(box[u], tx, S) = {}
      BY DEF NInit, Remains, IdsOf, Pruners, Open
    <3>2. Cardinality(Requests) \in Nat /\ Cardinality(Requests) # 0
      BY FS_EmptySet, FS_CardinalityType DEF MailAssumption
    <3> QED
      BY <3>1, <3>2, FS_EmptySet DEF MailAssumption
  <2> QED
    BY <2>1, <2>2 DEF MailInv
<1>2. MailInv /\ [NNext]_noticeVars => MailInv' /\ [GoesAsOld]_noticeVars
  BY MailStep
<1>3. MailInv => BoxBounded
  <2> SUFFICES ASSUME MailInv PROVE BoxBounded
    OBVIOUS
  <2>1. ASSUME NEW u \in Users PROVE Cardinality(box[u]) < MaxStored + Cardinality(Requests)
    <3>1. Remains(box[u], tx, {}) = box[u]
      BY DEF Remains, IdsOf
    <3> QED
      BY <3>1 DEF MailInv, Bounded
  <2> QED
    BY <2>1 DEF MailInv, Ids, BoxBounded
<1> QED
  BY <1>1, <1>2, <1>3, PTL DEF NSpec, NewestKept

---------------------------------------------------------------------------
CONSTANTS Clients, Profiles, Items, KindOf, SourceOf, Passing, Configs, Standard,
          LastDay, Keep, Limit, MaxOrders
VARIABLES today, living, born, db, work, holder, order, orders
INSTANCE DailyReview WITH Fragile <- Passing, MaxAsks <- MaxOrders, req <- order, asks <- orders

---------------------------------------------------------------------------
(* The review of a day: what is invariant.                                        *)

Docs == [config : [Profiles -> Settings \cup {None}],
         fixed  : [Profiles \X Days -> Settings \cup {None}],
         sets   : [Keys -> Seq(Items) \cup {None}]]
Full(set) == set \notin {None, <<>>}
FixOf(k) == <<k.profile, k.day>>

\* A set of a day and the copy of the settings it was chosen by.
Proper(s, k) ==
    /\ IsInjective(s) /\ Len(s) <= Limit
    /\ \A n \in DOMAIN s : KindOf[s[n]] = k.kind
Chosen(s, config) == config # None /\ \A n \in DOMAIN s : SourceOf[s[n]] \in config.scope
Faithful(d) ==
    \A k \in Keys : d.sets[k] # None => /\ Proper(d.sets[k], k)
                                        /\ Full(d.sets[k]) => Chosen(d.sets[k], d.fixed[FixOf(k)])

\* What a request may do to the set of a day.
Allowed(old, d, r, k) ==
    Full(old) /\ d.sets[k] # old =>
        \/ d.sets[k] # None /\ IsPrefix(old, d.sets[k])
        \/ /\ d.sets[k] = None
           /\ \/ r.op = "reset" /\ r.profile = k.profile
              \/ Outdated(d, k.day)
\* Before it chooses, a request has only dropped what is too old.
Untouched(old, d, k) == d.sets[k] = old \/ (d.sets[k] = None /\ Outdated(d, k.day))

Places == {"load", "config", "fix", "choose", "end"}
SetRequests == [op : {"set"}, at : Places, key : Keys, more : BOOLEAN, past : BOOLEAN,
                ids : Seq(Items) \cup {None}, config : Settings \cup {None}]
Ordered(r) ==
    \/ /\ r \in SetRequests
       /\ r.at \in {"fix", "choose"} => r.config # None
    \/ r \in [op : {"save"}, at : {"save", "end"}, profile : Profiles, config : Configs]
    \/ r \in [op : {"reset"}, at : {"reset", "end"}, profile : Profiles, delete : BOOLEAN, day : Days]

Working(r) ==
    /\ work \in Docs /\ Faithful(work)
    /\ \A k \in Keys : Allowed(db.sets[k], work, r, k)
    /\ r.at = "choose" =>
          /\ r.op = "set" /\ \A k \in Keys : Untouched(db.sets[k], work, k)
          /\ \/ work.fixed[FixOf(r.key)] = r.config
             \/ work.sets[r.key] = None /\ Outdated(work, r.key.day)
DailyInv ==
    /\ today \in Days /\ living \subseteq Items /\ db \in Docs /\ Faithful(db)
    /\ DOMAIN order = Clients
    /\ \A c \in Clients : order[c] # None => Ordered(order[c])
    /\ \A c \in Clients : order[c] # None /\ order[c].at \in {"choose", "end"}
                            => holder = c /\ Working(order[c])

---------------------------------------------------------------------------
(* Sequences.                                                                     *)

LEMMA SeqParts ==
    ASSUME NEW u \in Seq(Items), NEW v \in Seq(Items), Limit \in Nat
    PROVE  LET w == u \o v
               t == UpToLimit(w)
           IN  /\ t \in Seq(Items) /\ Len(t) <= Limit
               /\ \A i \in DOMAIN t : i \in Nat /\ i > 0 /\ i <= Len(u) + Len(v)
                     /\ t[i] = IF i <= Len(u) THEN u[i] ELSE v[i - Len(u)]
               /\ Len(u) <= Limit => Len(u) <= Len(t)
<1>. DEFINE w == u \o v
            n == IF Len(w) < Limit THEN Len(w) ELSE Limit
<1>1. w \in Seq(Items) /\ Len(w) = Len(u) + Len(v) /\ Len(u) \in Nat /\ Len(v) \in Nat
  OBVIOUS
<1>2. \A i \in 1 .. Len(w) : w[i] = IF i <= Len(u) THEN u[i] ELSE v[i - Len(u)]
  OBVIOUS
<1>. HIDE DEF w
<1>3. n \in 0 .. Len(w) /\ n <= Limit /\ (Len(u) <= Limit => Len(u) <= n)
  BY <1>1
<1>. HIDE DEF n
<1>4. SubSeq(w, 1, n) \in Seq(Items) /\ Len(SubSeq(w, 1, n)) = n
      /\ \A i \in 1 .. n : SubSeq(w, 1, n)[i] = w[i]
  BY <1>1, <1>3
<1>5. UpToLimit(w) = SubSeq(w, 1, n)
  BY DEF UpToLimit, n
<1>6. UpToLimit(w) \in Seq(Items) /\ Len(UpToLimit(w)) = n /\ \A i \in 1 .. n : UpToLimit(w)[i] = w[i]
  BY <1>4, <1>5
<1>. QED
  BY <1>1, <1>2, <1>3, <1>6 DEF w

LEMMA PrefixOf ==
    ASSUME NEW u \in Seq(Items), NEW t \in Seq(Items), Len(u) <= Len(t),
           \A i \in 1 .. Len(u) : t[i] = u[i]
    PROVE  IsPrefix(u, t)
<1>1. SubSeq(u, 1, Len(u)) = SubSeq(t, 1, Len(u))
  <2>1. /\ SubSeq(u, 1, Len(u)) \in Seq(Items) /\ Len(SubSeq(u, 1, Len(u))) = Len(u)
        /\ SubSeq(t, 1, Len(u)) \in Seq(Items) /\ Len(SubSeq(t, 1, Len(u))) = Len(u)
    OBVIOUS
  <2>2. \A i \in 1 .. Len(u) : SubSeq(u, 1, Len(u))[i] = SubSeq(t, 1, Len(u))[i]
    OBVIOUS
  <2>. QED
    BY <2>1, <2>2
<1>. QED
  BY <1>1 DEF IsPrefix

\* A draw holds items of the resources and the kind it was made from, once each.
LEMMA SelectionIs ==
    ASSUME DailyAssumption, NEW T \in SUBSET Items, NEW size \in 0 .. Limit, NEW s \in Selections(T, size)
    PROVE  /\ s \in Seq(Items) /\ IsInjective(s) /\ Len(s) <= Limit
           /\ \A i \in DOMAIN s : s[i] \in T
<1>1. IsFiniteSet(T) /\ Cardinality(T) \in Nat
  BY FS_Subset, FS_CardinalityType DEF DailyAssumption
<1>2. PICK n \in Nat : n <= size /\ s \in [1 .. n -> T] /\ IsInjective(s)
  BY <1>1 DEF Selections
<1>3. s \in Seq(Items) /\ Len(s) = n
  BY <1>2
<1>. QED
  BY <1>2, <1>3 DEF DailyAssumption

\* What is appended is in none of the places before it.
LEMMA OthersAre ==
    ASSUME DailyAssumption, NEW new \in Seq(Items), NEW before \in Seq(Items), NEW s \in Others(new, before)
    PROVE  /\ s \in Seq(Items) /\ IsInjective(s)
           /\ \A i \in DOMAIN s : /\ \E m \in DOMAIN new : s[i] = new[m]
                                  /\ \A m \in DOMAIN before : s[i] # before[m]
<1>. DEFINE others == {new[n] : n \in DOMAIN new} \ {before[n] : n \in DOMAIN before}
<1>1. others \subseteq Items
  OBVIOUS
<1>2. \A x \in others : (\E m \in DOMAIN new : x = new[m]) /\ \A m \in DOMAIN before : x # before[m]
  OBVIOUS
<1>3. /\ s \in [1 .. Cardinality(others) -> others]
      /\ \A i, j \in DOMAIN s : \A m, n \in DOMAIN new : i < j /\ s[i] = new[m] /\ s[j] = new[n] => m < n
  BY DEF Others
<1>. HIDE DEF others
<1>4. Cardinality(others) \in Nat
  BY <1>1, FS_Subset, FS_CardinalityType DEF DailyAssumption
<1>5. s \in Seq(Items) /\ DOMAIN s \subseteq Nat
  <2>1. PICK k \in Nat : s \in [1 .. k -> others]
    BY <1>3, <1>4
  <2>2. s \in [1 .. k -> Items]
    BY <2>1, <1>1
  <2>. QED
    BY <2>2
<1>6. ASSUME NEW i \in DOMAIN s, NEW j \in DOMAIN s, s[i] = s[j], i < j PROVE FALSE
  <2>1. PICK m \in DOMAIN new : s[i] = new[m]
    BY <1>2, <1>3
  <2>2. m < m
    BY <1>3, <1>6, <2>1
  <2>3. m \in Nat
    OBVIOUS
  <2>. QED
    BY <2>2, <2>3
<1>7. IsInjective(s)
  <2>. SUFFICES ASSUME NEW i \in DOMAIN s, NEW j \in DOMAIN s, s[i] = s[j] PROVE i = j
    BY DEF IsInjective
  <2>1. i < j \/ j < i \/ i = j
    BY <1>5
  <2>. QED
    BY <2>1, <1>6
<1>. QED
  BY <1>2, <1>3, <1>5, <1>7

---------------------------------------------------------------------------
(* Documents.                                                                     *)

LEMMA NewSetIs ==
    ASSUME DailyAssumption, NEW k \in Keys, NEW old \in Seq(Items) \cup {None}, NEW config \in Settings,
           old # None => Proper(old, k), Full(old) => Chosen(old, config),
           NEW T \in SUBSET Items, \A i \in T : KindOf[i] = k.kind /\ SourceOf[i] \in config.scope,
           NEW new \in Selections(T, config.size), NEW more \in BOOLEAN, NEW set \in NewSets(more, old, new)
    PROVE  /\ set \in Seq(Items) /\ set # None /\ Proper(set, k) /\ Chosen(set, config)
           /\ Full(old) => set = old \/ IsPrefix(old, set)
<1>1. /\ new \in Seq(Items) /\ IsInjective(new) /\ Len(new) <= Limit
      /\ \A i \in DOMAIN new : new[i] \in T
  BY SelectionIs DEF DailyAssumption
<1>2. config # None /\ None \notin Seq(Items) /\ Limit \in Nat
  BY DEF DailyAssumption
<1>3. Proper(new, k) /\ Chosen(new, config)
  BY <1>1, <1>2 DEF Proper, Chosen
<1>4. CASE ~more
  <2>1. set = IF old \in {None, <<>>} THEN new ELSE old
    BY <1>4 DEF NewSets, SavedSet
  <2>. QED
    BY <2>1, <1>1, <1>2, <1>3 DEF Full
<1>5. CASE more
  <2>. DEFINE before == IF old = None THEN <<>> ELSE old
  <2>1. before \in Seq(Items) /\ Len(before) \in Nat
    OBVIOUS
  <2>2. Proper(before, k) /\ Chosen(before, config)
    <3>1. CASE before = <<>>
      BY <3>1, <1>2 DEF Proper, Chosen, IsInjective
    <3>2. CASE before # <<>>
      BY <3>2 DEF Full
    <3>. QED
      BY <3>1, <3>2
  <2>3. PICK s \in Others(new, before) : set = UpToLimit(before \o s)
    BY <1>5 DEF NewSets, AppendedSets
  <2>4. Full(old) => before = old
    BY DEF Full
  <2>. HIDE DEF before
  <2>5. /\ s \in Seq(Items) /\ IsInjective(s)
        /\ \A i \in DOMAIN s : /\ \E m \in DOMAIN new : s[i] = new[m]
                               /\ \A m \in DOMAIN before : s[i] # before[m]
    BY <1>1, <2>1, OthersAre
  <2>6. /\ set \in Seq(Items) /\ Len(set) <= Limit
        /\ \A i \in DOMAIN set : i \in Nat /\ i > 0 /\ i <= Len(before) + Len(s)
              /\ set[i] = IF i <= Len(before) THEN before[i] ELSE s[i - Len(before)]
        /\ Len(before) <= Limit => Len(before) <= Len(set)
    BY <2>1, <2>3, <2>5, <1>2, SeqParts
  <2>7. ASSUME NEW i \in DOMAIN set
        PROVE  \/ i \in DOMAIN before /\ set[i] = before[i]
               \/ i - Len(before) \in DOMAIN s /\ i > Len(before) /\ set[i] = s[i - Len(before)]
    <3>1. Len(s) \in Nat /\ DOMAIN s = 1 .. Len(s) /\ DOMAIN before = 1 .. Len(before)
      BY <2>1, <2>5
    <3>. QED
      BY <2>1, <2>6, <3>1
  <2>8. IsInjective(set)
    <3>. SUFFICES ASSUME NEW i \in DOMAIN set, NEW j \in DOMAIN set, set[i] = set[j] PROVE i = j
      BY DEF IsInjective
    <3>0. i \in Nat /\ j \in Nat
      BY <2>6
    <3>1. CASE i \in DOMAIN before /\ set[i] = before[i] /\ j \in DOMAIN before /\ set[j] = before[j]
      BY <3>1, <2>2 DEF Proper, IsInjective
    <3>2. CASE /\ i - Len(before) \in DOMAIN s /\ set[i] = s[i - Len(before)]
               /\ j - Len(before) \in DOMAIN s /\ set[j] = s[j - Len(before)]
      <4>1. i - Len(before) = j - Len(before)
        BY <3>2, <2>5 DEF IsInjective
      <4>. QED
        BY <4>1, <3>0, <2>1
    <3>3. CASE i \in DOMAIN before /\ set[i] = before[i] /\ j - Len(before) \in DOMAIN s /\ set[j] = s[j - Len(before)]
      BY <3>3, <2>5
    <3>4. CASE j \in DOMAIN before /\ set[j] = before[j] /\ i - Len(before) \in DOMAIN s /\ set[i] = s[i - Len(before)]
      BY <3>4, <2>5
    <3>. QED
      BY <2>7, <3>1, <3>2, <3>3, <3>4
  <2>9. ASSUME NEW i \in DOMAIN set PROVE KindOf[set[i]] = k.kind /\ SourceOf[set[i]] \in config.scope
    <3>1. CASE i \in DOMAIN before /\ set[i] = before[i]
      BY <3>1, <2>2 DEF Proper, Chosen
    <3>2. CASE i - Len(before) \in DOMAIN s /\ set[i] = s[i - Len(before)]
      BY <3>2, <2>5, <1>1
    <3>. QED
      BY <2>7, <3>1, <3>2
  <2>10. Full(old) => IsPrefix(old, set)
    <3>. SUFFICES ASSUME Full(old) PROVE IsPrefix(before, set)
      BY <2>4
    <3>1. Len(before) <= Limit
      BY <2>2 DEF Proper
    <3>2. Len(before) <= Len(set)
      BY <3>1, <2>6
    <3>3. \A i \in 1 .. Len(before) : i \in DOMAIN set /\ i <= Len(before)
      BY <3>2, <2>1, <2>6
    <3>4. \A i \in 1 .. Len(before) : set[i] = before[i]
      BY <3>3, <2>6
    <3>. QED
      BY <2>1, <2>6, <3>2, <3>4, PrefixOf
  <2>. QED
    BY <1>2, <2>6, <2>8, <2>9, <2>10 DEF Proper, Chosen
<1>. QED
  BY <1>4, <1>5

LEMMA PrunedIs ==
    ASSUME NEW d \in Docs
    PROVE  /\ Pruned(d) \in Docs /\ Pruned(d).config = d.config
           /\ \A k \in Keys : Pruned(d).sets[k] = IF Outdated(d, k.day) THEN None ELSE d.sets[k]
           /\ \A k \in Profiles \X Days : Pruned(d).fixed[k] = IF Outdated(d, k[2]) THEN None ELSE d.fixed[k]
<1>. DEFINE fixed == [k \in DOMAIN d.fixed |-> IF Outdated(d, k[2]) THEN None ELSE d.fixed[k]]
            sets == [k \in Keys |-> IF Outdated(d, k.day) THEN None ELSE d.sets[k]]
<1>1. Pruned(d) = [d EXCEPT !.fixed = fixed, !.sets = sets]
  BY DEF Pruned
<1>2. fixed \in [Profiles \X Days -> Settings \cup {None}] /\ sets \in [Keys -> Seq(Items) \cup {None}]
  BY DEF Docs
<1>3. \A k \in Profiles \X Days : fixed[k] = IF Outdated(d, k[2]) THEN None ELSE d.fixed[k]
  BY DEF Docs
<1>4. \A k \in Keys : sets[k] = IF Outdated(d, k.day) THEN None ELSE d.sets[k]
  OBVIOUS
<1>. HIDE DEF fixed, sets
<1>5. Pruned(d) \in Docs /\ Pruned(d).config = d.config /\ Pruned(d).sets = sets /\ Pruned(d).fixed = fixed
  BY <1>1, <1>2 DEF Docs
<1>. QED
  BY <1>3, <1>4, <1>5

LEMMA StoredIs ==
    ASSUME NEW d \in Docs
    PROVE  /\ \A day : day \in Stored(d) <=> \/ \E k \in Profiles \X Days : k[2] = day /\ d.fixed[k] # None
                                             \/ \E k \in Keys : k.day = day /\ d.sets[k] # None
           /\ Stored(d) \subseteq Days
<1>1. DOMAIN d.fixed = Profiles \X Days
  BY DEF Docs
<1>2. \A day : day \in Stored(d) <=> \/ \E k \in Profiles \X Days : k[2] = day /\ d.fixed[k] # None
                                     \/ \E k \in Keys : k.day = day /\ d.sets[k] # None
  BY <1>1 DEF Stored
<1>. QED
  BY <1>2 DEF Keys

\* What is too old stays so: the newest day is kept.
LEMMA OldStaysOld ==
    ASSUME DailyAssumption, NEW d \in Docs, NEW day \in Days, Outdated(d, day)
    PROVE  Outdated(Pruned(d), day)
<1>1. Stored(d) \subseteq Days /\ Days \subseteq Nat /\ \A x \in Days : x <= LastDay
  BY StoredIs DEF Days, DailyAssumption
<1>2. Stored(d) # {}
  BY DEF Outdated
<1>3. PICK m \in Stored(d) : \A x \in Stored(d) : x <= m
  <2>1. Stored(d) \in SUBSET Nat /\ \A x \in Stored(d) : x <= LastDay
    BY <1>1
  <2>2. LastDay \in Nat
    BY DEF DailyAssumption
  <2>. QED
    BY <1>2, <2>1, <2>2, LargestIn
<1>4. ~Outdated(d, m)
  <2>. SUFFICES ASSUME NEW newer \in Stored(d), m + Keep <= newer PROVE FALSE
    BY DEF Outdated
  <2>1. m \in Nat /\ newer \in Nat /\ Keep \in Nat /\ Keep # 0 /\ newer <= m
    BY <1>1, <1>3 DEF DailyAssumption
  <2>. QED
    BY <2>1
<1>5. m \in Stored(Pruned(d))
  <2>1. CASE \E k \in Profiles \X Days : k[2] = m /\ d.fixed[k] # None
    BY <2>1, <1>4, PrunedIs, StoredIs
  <2>2. CASE \E k \in Keys : k.day = m /\ d.sets[k] # None
    BY <2>2, <1>4, PrunedIs, StoredIs
  <2>. QED
    BY <2>1, <2>2, StoredIs
<1>6. PICK newer \in Stored(d) : day + Keep <= newer
  BY DEF Outdated
<1>7. day + Keep <= m
  <2>1. day \in Nat /\ Keep \in Nat /\ newer \in Nat /\ m \in Nat /\ newer <= m
    BY <1>1, <1>3 DEF DailyAssumption
  <2>. QED
    BY <2>1, <1>6
<1>. QED
  BY <1>5, <1>7 DEF Outdated

LEMMA OldInMore ==
    ASSUME NEW d, NEW e, Stored(d) \subseteq Stored(e), NEW day, Outdated(d, day)
    PROVE  Outdated(e, day)
BY DEF Outdated

LEMMA PrunedFaithful ==
    ASSUME NEW d \in Docs, Faithful(d)
    PROVE  Faithful(Pruned(d))
<1>. SUFFICES ASSUME NEW k \in Keys, Pruned(d).sets[k] # None
              PROVE  /\ Proper(Pruned(d).sets[k], k)
                     /\ Full(Pruned(d).sets[k]) => Chosen(Pruned(d).sets[k], Pruned(d).fixed[FixOf(k)])
  BY DEF Faithful
<1>1. ~Outdated(d, k.day) /\ Pruned(d).sets[k] = d.sets[k]
  BY PrunedIs
<1>2. FixOf(k) \in Profiles \X Days /\ FixOf(k)[2] = k.day
  BY DEF FixOf, Keys
<1>3. Pruned(d).fixed[FixOf(k)] = d.fixed[FixOf(k)]
  BY <1>1, <1>2, PrunedIs
<1>. QED
  BY <1>1, <1>3 DEF Faithful

---------------------------------------------------------------------------
(* The steps.                                                                     *)

\* A request goes on without the lock, or fails without it.
LEMMA Waiting ==
    ASSUME DailyInv, NEW c \in Clients, NEW r, order' = [order EXCEPT ![c] = r],
           r # None => Ordered(r) /\ r.at \notin {"choose", "end"},
           today' \in Days, UNCHANGED <<living, db, work, holder>>
    PROVE  DailyInv'
<1>1. \A e \in Clients : order'[e] = IF e = c THEN r ELSE order[e]
  BY DEF DailyInv
<1>2. DOMAIN order' = Clients
  BY DEF DailyInv
<1>3. \A e \in Clients : order'[e] # None => Ordered(order'[e])
  BY <1>1 DEF DailyInv
<1>4. ASSUME NEW e \in Clients, order'[e] # None, order'[e].at \in {"choose", "end"}
      PROVE  (holder = e /\ Working(order[e]))'
  <2>1. order'[e] = order[e] /\ order[e] # None /\ order[e].at \in {"choose", "end"}
    BY <1>1, <1>4
  <2>2. holder = e /\ Working(order[e])
    BY <2>1 DEF DailyInv
  <2>. QED
    BY <2>1, <2>2 DEF Working
<1>. QED
  BY <1>2, <1>3, <1>4 DEF DailyInv, Ordered

\* A request that has the lock, or takes it, goes on with what it has written.
LEMMA Holding ==
    ASSUME DailyAssumption, DailyInv, NEW c \in Clients, NEW r, order' = [order EXCEPT ![c] = r],
           Ordered(r), holder \in {None, c}, holder' = c, UNCHANGED <<today, living, db>>,
           Working(r)'
    PROVE  DailyInv'
<1>1. \A e \in Clients : order'[e] = IF e = c THEN r ELSE order[e]
  BY DEF DailyInv
<1>2. DOMAIN order' = Clients
  BY DEF DailyInv
<1>3. \A e \in Clients : order'[e] # None => Ordered(order'[e])
  BY <1>1 DEF DailyInv
<1>4. None \notin Clients
  BY DEF DailyAssumption
<1>5. ASSUME NEW e \in Clients, order'[e] # None, order'[e].at \in {"choose", "end"}
      PROVE  (holder = e /\ Working(order[e]))'
  <2>1. e = c
    BY <1>1, <1>4, <1>5 DEF DailyInv
  <2>2. order'[e] = r
    BY <1>1, <2>1
  <2>. QED
    BY <2>1, <2>2 DEF Working
<1>. QED
  BY <1>2, <1>3, <1>5 DEF DailyInv, Ordered

\* It is committed or rolled back.
LEMMA Releasing ==
    ASSUME DailyAssumption, DailyInv, NEW c \in Clients, order' = [order EXCEPT ![c] = None],
           holder = c, db' \in Docs, Faithful(db'), UNCHANGED <<today, living>>
    PROVE  DailyInv'
<1>1. \A e \in Clients : order'[e] = IF e = c THEN None ELSE order[e]
  BY DEF DailyInv
<1>2. DOMAIN order' = Clients
  BY DEF DailyInv
<1>3. \A e \in Clients : order'[e] # None => Ordered(order'[e])
  BY <1>1 DEF DailyInv
<1>4. \A e \in Clients : ~(order'[e] # None /\ order'[e].at \in {"choose", "end"})
  BY <1>1 DEF DailyInv
<1>. QED
  BY <1>2, <1>3, <1>4 DEF DailyInv, Ordered, Faithful

\* A request for a set goes on.
LEMMA SetGoesOn ==
    ASSUME NEW r, Ordered(r), r.op = "set"
    PROVE  r \in SetRequests
BY DEF Ordered

LEMMA FixKeeps ==
    ASSUME DailyAssumption, DailyInv, NEW c \in Clients, FixConfig(c)
    PROVE  DailyInv'
<1>1. PICK r, k : r = order[c] /\ k = r.key
  OBVIOUS
<1>2. r # None /\ r.at = "fix" /\ holder = None /\ holder' = c /\ UNCHANGED <<today, living, db>>
  BY <1>1 DEF FixConfig, DayAt
<1>3. Ordered(r) /\ r.op = "set" /\ k \in Keys /\ r.more \in BOOLEAN /\ r.config \in Settings /\ r.ids \in Seq(Items) \cup {None}
  BY <1>1, <1>2 DEF DailyInv, Ordered, SetRequests
<1>4. PICK key : key = FixOf(k)
  OBVIOUS
<1>5. key \in Profiles \X Days /\ k.day \in Days /\ key[2] = k.day
  BY <1>3, <1>4 DEF FixOf, Keys
<1>6. PICK config : config = FixedConfig(db.fixed[key], r.config)
  OBVIOUS
<1>7. config \in Settings /\ (db.fixed[key] # None => config = db.fixed[key])
  BY <1>3, <1>5, <1>6 DEF FixedConfig, DailyInv, Docs
<1>8. PICK d : d = [db EXCEPT !.fixed[key] = config]
  OBVIOUS
<1>9. d \in Docs /\ d.sets = db.sets
      /\ \A x \in Profiles \X Days : d.fixed[x] = IF x = key THEN config ELSE db.fixed[x]
  BY <1>5, <1>7, <1>8 DEF DailyInv, Docs
<1>10. PICK at \in {"choose", "end"} : at = IF r.more \/ r.ids = <<>> THEN "choose" ELSE "end"
  OBVIOUS
<1>11. PICK s : s = [r EXCEPT !.config = config, !.at = at]
  OBVIOUS
<1>12. Ordered(s) /\ s.at = at /\ s.config = config /\ s.key = k /\ s.op = "set"
  <2>1. r \in SetRequests /\ config # None
    BY <1>3, <1>7, SetGoesOn DEF DailyAssumption
  <2>2. s \in SetRequests /\ s.at = at /\ s.config = config /\ s.key = k /\ s.op = "set"
    BY <1>1, <1>7, <1>10, <1>11, <2>1 DEF SetRequests, Places
  <2>. QED
    BY <2>1, <2>2 DEF Ordered
<1>13. order' = [order EXCEPT ![c] = s] /\ work' = Pruned(d)
  BY <1>1, <1>4, <1>6, <1>8, <1>10, <1>11 DEF FixConfig, DayStep, FixOf
<1>14. Faithful(d)
  <2>. SUFFICES ASSUME NEW x \in Keys, db.sets[x] # None, Full(db.sets[x])
                PROVE  Chosen(db.sets[x], d.fixed[FixOf(x)])
    BY <1>9 DEF Faithful, DailyInv
  <2>1. Chosen(db.sets[x], db.fixed[FixOf(x)]) /\ FixOf(x) \in Profiles \X Days
    BY DEF DailyInv, Faithful, FixOf, Keys
  <2>2. d.fixed[FixOf(x)] = db.fixed[FixOf(x)]
    BY <2>1, <1>7, <1>9 DEF Chosen
  <2>. QED
    BY <2>1, <2>2
<1>15. PICK w : w = work'
  OBVIOUS
<1>16. w \in Docs /\ Faithful(w)
  BY <1>9, <1>13, <1>14, <1>15, PrunedIs, PrunedFaithful
<1>17. \A x \in Keys : Untouched(db.sets[x], w, x)
  <2>. SUFFICES ASSUME NEW x \in Keys PROVE Untouched(db.sets[x], w, x)
    OBVIOUS
  <2>1. x.day \in Days
    BY DEF Keys
  <2>2. w.sets[x] = IF Outdated(d, x.day) THEN None ELSE db.sets[x]
    BY <1>9, <1>13, <1>15, PrunedIs
  <2>3. Outdated(d, x.day) => Outdated(w, x.day)
    BY <1>9, <1>13, <1>15, <2>1, OldStaysOld
  <2>. QED
    BY <2>2, <2>3 DEF Untouched
<1>18. w.fixed[key] = config \/ (w.sets[k] = None /\ Outdated(w, k.day))
  <2>1. /\ w.fixed[key] = IF Outdated(d, k.day) THEN None ELSE config
        /\ Outdated(d, k.day) => w.sets[k] = None
    BY <1>3, <1>5, <1>9, <1>13, <1>15, PrunedIs
  <2>2. Outdated(d, k.day) => Outdated(w, k.day)
    BY <1>5, <1>9, <1>13, <1>15, OldStaysOld
  <2>. QED
    BY <2>1, <2>2
<1>19. \A x \in Keys : Allowed(db.sets[x], w, s, x)
  BY <1>17 DEF Untouched, Allowed
<1>20. Working(s)'
  BY <1>2, <1>4, <1>12, <1>15, <1>16, <1>17, <1>18, <1>19 DEF Working
<1>. QED
  BY <1>2, <1>12, <1>13, <1>20, Holding

\* A draw is stored with the copy it was made from, or both are too old.
LEMMA ChooseKeeps ==
    ASSUME DailyAssumption, DailyInv, NEW c \in Clients, Choose(c)
    PROVE  DailyInv'
<1>1. PICK r, k : r = order[c] /\ k = r.key
  OBVIOUS
<1>2. r # None /\ r.at = "choose" /\ UNCHANGED <<today, living, db, holder>>
  BY <1>1 DEF Choose, DayAt
<1>3. Ordered(r) /\ r.op = "set" /\ k \in Keys /\ r.more \in BOOLEAN /\ r.config \in Settings /\ r.ids \in Seq(Items) \cup {None}
  BY <1>1, <1>2 DEF DailyInv, Ordered, SetRequests
<1>4. holder = c /\ Working(r)
  BY <1>1, <1>2 DEF DailyInv
<1>5. PICK before, old : before = work /\ old = before.sets[k]
  OBVIOUS
<1>6. /\ before \in Docs /\ Faithful(before)
      /\ \A x \in Keys : Untouched(db.sets[x], before, x)
      /\ before.fixed[FixOf(k)] = r.config \/ (before.sets[k] = None /\ Outdated(before, k.day))
  BY <1>1, <1>2, <1>4, <1>5 DEF Working
<1>7. PICK additions \in Selections(Candidates(r), r.config.size) :
        \E set \in NewSets(r.more, old, additions) : work' = Pruned([before EXCEPT !.sets[k] = set])
  BY <1>1, <1>5 DEF Choose
<1>8. PICK set \in NewSets(r.more, old, additions) : work' = Pruned([before EXCEPT !.sets[k] = set])
  BY <1>7
<1>9. /\ set \in Seq(Items) /\ set # None /\ Proper(set, k) /\ Chosen(set, r.config)
      /\ Full(old) => set = old \/ IsPrefix(old, set)
  <2>1. old \in Seq(Items) \cup {None} /\ (old # None => Proper(old, k))
        /\ (Full(old) => Chosen(old, before.fixed[FixOf(k)]))
    BY <1>3, <1>5, <1>6 DEF Docs, Faithful, Full
  <2>2. Full(old) => Chosen(old, r.config)
    BY <2>1, <1>5, <1>6 DEF Full
  <2>3. PICK T, config, more : T = Candidates(r) /\ config = r.config /\ more = r.more
    OBVIOUS
  <2>4. T \in SUBSET Items /\ \A i \in T : KindOf[i] = k.kind /\ SourceOf[i] \in config.scope
    BY <2>3, <1>1 DEF Candidates, DailyInv
  <2>5. config \in Settings /\ more \in BOOLEAN /\ additions \in Selections(T, config.size)
        /\ set \in NewSets(more, old, additions) /\ (Full(old) => Chosen(old, config))
    BY <2>2, <2>3, <1>3, <1>7, <1>8
  <2>6. /\ set \in Seq(Items) /\ set # None /\ Proper(set, k) /\ Chosen(set, config)
        /\ Full(old) => set = old \/ IsPrefix(old, set)
    BY <1>3, <2>1, <2>4, <2>5, NewSetIs
  <2>. QED
    BY <2>3, <2>6
<1>10. PICK d : d = [before EXCEPT !.sets[k] = set]
  OBVIOUS
<1>11. d \in Docs /\ d.fixed = before.fixed /\ \A x \in Keys : d.sets[x] = IF x = k THEN set ELSE before.sets[x]
  BY <1>3, <1>6, <1>9, <1>10 DEF Docs
<1>12. PICK w : w = work' /\ w = Pruned(d)
  BY <1>8, <1>10
<1>13. /\ w \in Docs
       /\ \A x \in Keys : w.sets[x] = IF Outdated(d, x.day) THEN None ELSE d.sets[x]
       /\ \A x \in Profiles \X Days : w.fixed[x] = IF Outdated(d, x[2]) THEN None ELSE d.fixed[x]
  BY <1>11, <1>12, PrunedIs
<1>14. \A day \in Days : Outdated(before, day) => Outdated(d, day)
  <2>1. ASSUME NEW day, day \in Stored(before) PROVE day \in Stored(d)
    <3>1. CASE \E x \in Profiles \X Days : x[2] = day /\ before.fixed[x] # None
      BY <3>1, <1>11, StoredIs
    <3>2. CASE \E x \in Keys : x.day = day /\ before.sets[x] # None
      <4>1. \E x \in Keys : x.day = day /\ d.sets[x] # None
        BY <3>2, <1>9, <1>11
      <4>. QED
        BY <4>1, <1>11, StoredIs
    <3>. QED
      BY <2>1, <3>1, <3>2, <1>6, StoredIs
  <2>. QED
    BY <2>1, OldInMore
<1>15. \A day \in Days : Outdated(d, day) => Outdated(w, day)
  BY <1>11, <1>12, OldStaysOld
<1>16. Faithful(w)
  <2>. SUFFICES ASSUME NEW x \in Keys, w.sets[x] # None
                PROVE  Proper(w.sets[x], x) /\ (Full(w.sets[x]) => Chosen(w.sets[x], w.fixed[FixOf(x)]))
    BY DEF Faithful
  <2>1. FixOf(x) \in Profiles \X Days /\ FixOf(x)[2] = x.day /\ x.day \in Days
    BY DEF FixOf, Keys
  <2>2. ~Outdated(d, x.day) /\ w.sets[x] = d.sets[x] /\ w.fixed[FixOf(x)] = before.fixed[FixOf(x)]
    BY <1>11, <1>13, <2>1
  <2>3. CASE x = k
    <3>1. before.fixed[FixOf(k)] = r.config
      BY <1>6, <1>14, <2>1, <2>2, <2>3
    <3>. QED
      BY <3>1, <2>2, <2>3, <1>9, <1>11
  <2>4. CASE x # k
    BY <2>2, <2>4, <1>6, <1>11 DEF Faithful
  <2>. QED
    BY <2>3, <2>4
<1>17. \A x \in Keys : Allowed(db.sets[x], w, r, x)
  <2>. SUFFICES ASSUME NEW x \in Keys, Full(db.sets[x]), w.sets[x] # db.sets[x]
                PROVE  \/ w.sets[x] # None /\ IsPrefix(db.sets[x], w.sets[x])
                       \/ w.sets[x] = None /\ Outdated(w, x.day)
    BY DEF Allowed
  <2>1. x.day \in Days
    BY DEF Keys
  <2>2. CASE Outdated(d, x.day)
    BY <2>1, <2>2, <1>13, <1>15
  <2>3. CASE ~Outdated(d, x.day)
    <3>1. before.sets[x] = db.sets[x] /\ w.sets[x] = d.sets[x]
      BY <2>1, <2>3, <1>6, <1>13, <1>14 DEF Untouched
    <3>2. x = k
      BY <3>1, <1>11
    <3>. QED
      BY <3>1, <3>2, <1>5, <1>9, <1>11
  <2>. QED
    BY <2>2, <2>3
<1>18. PICK s : s = [r EXCEPT !.at = "end"]
  OBVIOUS
<1>19. Ordered(s) /\ s.at = "end" /\ s.op = "set"
  <2>1. r \in SetRequests
    BY <1>3, SetGoesOn
  <2>2. s \in SetRequests /\ s.at = "end" /\ s.op = "set"
    BY <1>18, <2>1 DEF SetRequests, Places
  <2>. QED
    BY <2>2 DEF Ordered
<1>20. order' = [order EXCEPT ![c] = s]
  BY <1>1, <1>18 DEF Choose, DayStep
<1>21. Working(s)'
  <2>1. \A x \in Keys : Allowed(db.sets[x], w, s, x)
    BY <1>17, <1>3, <1>19 DEF Allowed
  <2>. QED
    BY <2>1, <1>2, <1>12, <1>13, <1>16, <1>19 DEF Working
<1>. QED
  BY <1>2, <1>4, <1>19, <1>20, <1>21, Holding

LEMMA SaveKeeps ==
    ASSUME DailyAssumption, DailyInv, NEW c \in Clients, SaveConfig(c)
    PROVE  DailyInv'
<1>1. PICK r, s, d : /\ r = order[c] /\ s = [r EXCEPT !.at = "end"]
                     /\ d = [db EXCEPT !.config[r.profile] = r.config]
  OBVIOUS
<1>2. r # None /\ r.at = "save" /\ holder = None /\ holder' = c /\ work' = d
      /\ order' = [order EXCEPT ![c] = s] /\ UNCHANGED <<today, living, db>>
  BY <1>1 DEF SaveConfig, DayAt, DayStep
<1>3. r \in [op : {"save"}, at : {"save", "end"}, profile : Profiles, config : Configs]
  BY <1>1, <1>2 DEF DailyInv, Ordered, SetRequests, Places
<1>4. Ordered(s) /\ s.at = "end"
  BY <1>1, <1>3 DEF Ordered
<1>5. db \in Docs /\ Faithful(db)
  BY DEF DailyInv
<1>6. d \in Docs /\ d.sets = db.sets /\ d.fixed = db.fixed
  <2>1. r.profile \in Profiles /\ r.config \in Settings \cup {None}
    BY <1>3 DEF Settings
  <2>. QED
    BY <2>1, <1>1, <1>5 DEF Docs
<1>7. Faithful(d) /\ \A k \in Keys : Allowed(db.sets[k], d, s, k)
  BY <1>5, <1>6 DEF Faithful, Allowed
<1>8. Working(s)'
  BY <1>2, <1>4, <1>6, <1>7 DEF Working
<1>. QED
  BY <1>2, <1>4, <1>8, Holding

LEMMA ResetKeeps ==
    ASSUME DailyAssumption, DailyInv, NEW c \in Clients, Reset(c)
    PROVE  DailyInv'
<1>1. PICK r, s : r = order[c] /\ s = [r EXCEPT !.at = "end"]
  OBVIOUS
<1>2. r # None /\ r.at = "reset" /\ holder = None /\ holder' = c
      /\ order' = [order EXCEPT ![c] = s] /\ UNCHANGED <<today, living, db>>
  BY <1>1 DEF Reset, DayAt, DayStep
<1>3. r \in [op : {"reset"}, at : {"reset", "end"}, profile : Profiles,
             delete : BOOLEAN, day : Days]
  BY <1>1, <1>2 DEF DailyInv, Ordered, SetRequests, Places
<1>4. Ordered(s) /\ s.at = "end" /\ s.op = "reset" /\ s.profile = r.profile
  <2>1. s \in [op : {"reset"}, at : {"reset", "end"}, profile : Profiles,
               delete : BOOLEAN, day : Days]
    BY <1>1, <1>3
  <2>2. s.at = "end" /\ s.op = "reset" /\ s.profile = r.profile
    BY <1>1, <1>3
  <2>. QED
    BY <2>1, <2>2 DEF Ordered
<1>5. db \in Docs /\ Faithful(db)
  BY DEF DailyInv
<1>. DEFINE Dropped(day) == r.delete \/ day = r.day
            fixed == [k \in DOMAIN db.fixed |-> IF k[1] = r.profile /\ Dropped(k[2]) THEN None ELSE db.fixed[k]]
            sets == [k \in Keys |-> IF k.profile = r.profile /\ Dropped(k.day) THEN None ELSE db.sets[k]]
            config == IF r.delete THEN None ELSE db.config[r.profile]
<1>6. work' = [db EXCEPT !.fixed = fixed, !.sets = sets, !.config[r.profile] = config]
  BY <1>1 DEF Reset
<1>7. /\ fixed \in [Profiles \X Days -> Settings \cup {None}]
      /\ sets \in [Keys -> Seq(Items) \cup {None}]
      /\ config \in Settings \cup {None}
  BY <1>3, <1>5 DEF Docs
<1>8. \A k \in Keys : /\ sets[k] = None \/ sets[k] = db.sets[k]
                      /\ sets[k] # None => fixed[FixOf(k)] = db.fixed[FixOf(k)]
                      /\ sets[k] # db.sets[k] => sets[k] = None /\ r.profile = k.profile
  <2>. SUFFICES ASSUME NEW k \in Keys
                PROVE  /\ sets[k] = None \/ sets[k] = db.sets[k]
                       /\ sets[k] # None => fixed[FixOf(k)] = db.fixed[FixOf(k)]
                       /\ sets[k] # db.sets[k] => sets[k] = None /\ r.profile = k.profile
    OBVIOUS
  <2>1. DOMAIN db.fixed = Profiles \X Days /\ FixOf(k) \in Profiles \X Days
        /\ FixOf(k)[1] = k.profile /\ FixOf(k)[2] = k.day
    BY <1>5 DEF Docs, FixOf, Keys
  <2>2. fixed[FixOf(k)] = IF k.profile = r.profile /\ Dropped(k.day) THEN None ELSE db.fixed[FixOf(k)]
    BY <2>1
  <2>3. sets[k] = IF k.profile = r.profile /\ Dropped(k.day) THEN None ELSE db.sets[k]
    OBVIOUS
  <2>. QED
    BY <2>2, <2>3
<1>. HIDE DEF fixed, sets, config
<1>9. work' \in Docs /\ work'.sets = sets /\ work'.fixed = fixed
  BY <1>3, <1>5, <1>6, <1>7 DEF Docs
<1>10. PICK d : d = work' /\ d \in Docs /\ d.sets = sets /\ d.fixed = fixed
  BY <1>9
<1>11. Faithful(d)
  BY <1>5, <1>8, <1>10 DEF Faithful
<1>12. \A k \in Keys : Allowed(db.sets[k], d, s, k)
  BY <1>4, <1>8, <1>10 DEF Allowed
<1>13. Working(s)'
  BY <1>2, <1>4, <1>10, <1>11, <1>12 DEF Working
<1>. QED
  BY <1>2, <1>4, <1>13, Holding

LEMMA FinishKeeps ==
    ASSUME DailyAssumption, DailyInv, NEW c \in Clients, Finish(c)
    PROVE  DailyInv' /\ SetKept
<1>1. order[c] # None /\ order[c].at = "end" /\ db' = work /\ UNCHANGED <<today, living>>
      /\ order' = [order EXCEPT ![c] = None]
  BY DEF Finish, DayAt, Return
<1>2. holder = c /\ work \in Docs /\ Faithful(work)
      /\ \A k \in Keys : Allowed(db.sets[k], work, order[c], k)
  BY <1>1 DEF DailyInv, Working
<1>3. DailyInv'
  <2>1. db' \in Docs
    BY <1>1, <1>2
  <2>2. Faithful(db')
    BY <1>1, <1>2
  <2>. QED
    BY <1>1, <1>2, <2>1, <2>2, Releasing
<1>4. SetKept
  BY <1>1, <1>2 DEF SetKept, Allowed, Full
<1>. QED
  BY <1>3, <1>4

LEMMA DayFailKeeps ==
    ASSUME DailyAssumption, DailyInv, NEW c \in Clients, DayFail(c)
    PROVE  DailyInv'
<1>1. order' = [order EXCEPT ![c] = None] /\ UNCHANGED <<today, living, db>>
  BY DEF DayFail, Return
<1>2. CASE holder = c
  <2>1. db' \in Docs /\ Faithful(db')
    BY <1>1 DEF DailyInv
  <2>. QED
    BY <1>1, <1>2, <2>1, Releasing
<1>3. CASE holder # c
  <2>1. UNCHANGED <<work, holder>>
    BY <1>3 DEF DayFail
  <2>2. PICK r : r = None
    OBVIOUS
  <2>3. today' \in Days
    BY <1>1 DEF DailyInv
  <2>. QED
    BY <1>1, <2>1, <2>2, <2>3, Waiting
<1>. QED
  BY <1>2, <1>3

LEMMA AsksKeep ==
    ASSUME DailyAssumption, DailyInv, NEW c \in Clients, AskSet(c) \/ AskSave(c) \/ AskReset(c)
    PROVE  DailyInv' /\ UNCHANGED db
<1>1. today \in Days /\ None \notin Settings
  BY DEF DailyInv, DailyAssumption
<1>2. PICK r : /\ Ordered(r) /\ r.at \notin {"choose", "end"}
               /\ order' = [order EXCEPT ![c] = r] /\ UNCHANGED <<today, living, db, work, holder>>
  <2>1. CASE AskSet(c)
    <3>1. PICK k \in Keys, more \in BOOLEAN :
             Sent(c, [op |-> "set", at |-> "load", key |-> k, more |-> more,
                      past |-> k.day < today, ids |-> None, config |-> None])
      BY <2>1 DEF AskSet
    <3>2. PICK past : past = (k.day < today)
      OBVIOUS
    <3>3. PICK r : r = [op |-> "set", at |-> "load", key |-> k, more |-> more,
                        past |-> past, ids |-> None, config |-> None]
      OBVIOUS
    <3>4. Ordered(r) /\ r.at \notin {"choose", "end"}
      BY <3>2, <3>3 DEF Ordered, SetRequests, Places
    <3>5. Sent(c, r)
      BY <3>1, <3>2, <3>3
    <3>. QED
      BY <3>4, <3>5 DEF Sent
  <2>2. CASE AskSave(c)
    <3>1. PICK p \in Profiles, config \in Configs :
             Sent(c, [op |-> "save", at |-> "save", profile |-> p, config |-> config])
      BY <2>2 DEF AskSave
    <3>2. PICK r : r = [op |-> "save", at |-> "save", profile |-> p, config |-> config]
      OBVIOUS
    <3>3. Ordered(r) /\ r.at \notin {"choose", "end"}
      BY <3>2 DEF Ordered
    <3>. QED
      BY <3>1, <3>2, <3>3 DEF Sent
  <2>3. CASE AskReset(c)
    <3>1. PICK p \in Profiles, delete \in BOOLEAN :
             Sent(c, [op |-> "reset", at |-> "reset", profile |-> p, delete |-> delete, day |-> today])
      BY <2>3 DEF AskReset
    <3>2. PICK day \in Days : day = today
      BY <1>1
    <3>3. PICK r : r = [op |-> "reset", at |-> "reset", profile |-> p, delete |-> delete, day |-> day]
      OBVIOUS
    <3>4. Ordered(r) /\ r.at \notin {"choose", "end"}
      BY <3>3 DEF Ordered
    <3>5. Sent(c, r)
      BY <3>1, <3>2, <3>3
    <3>. QED
      BY <3>4, <3>5 DEF Sent
  <2>. QED
    BY <2>1, <2>2, <2>3
<1>3. today' \in Days
  BY <1>1, <1>2
<1>. QED
  BY <1>2, <1>3, Waiting

LEMMA LoadKeeps ==
    ASSUME DailyAssumption, DailyInv, NEW c \in Clients, Load(c) \/ ReadConfig(c)
    PROVE  DailyInv' /\ UNCHANGED db
<1>1. PICK r : r = order[c]
  OBVIOUS
<1>2. r # None /\ r.at \in {"load", "config"} /\ UNCHANGED <<today, living, db, work, holder>>
  BY <1>1 DEF Load, ReadConfig, DayAt
<1>3. today' \in Days /\ db \in Docs
  BY <1>2 DEF DailyInv
<1>4. Ordered(r) /\ r.op = "set" /\ r.key \in Keys
  BY <1>1, <1>2 DEF DailyInv, Ordered, SetRequests
<1>5. r \in SetRequests
  BY <1>4, SetGoesOn
<1>6. CASE Return(c)
  <2>1. PICK s : s = None /\ order' = [order EXCEPT ![c] = s]
    BY <1>6 DEF Return
  <2>. QED
    BY <1>2, <1>3, <2>1, Waiting
<1>7. CASE Load(c) /\ ~Return(c)
  <2>1. PICK old : old = db.sets[r.key] /\ old \in Seq(Items) \cup {None}
    BY <1>3, <1>4 DEF Docs
  <2>2. PICK ids : ids = IF old = None THEN <<>> ELSE old
    OBVIOUS
  <2>3. ids \in Seq(Items) \cup {None}
    BY <2>1, <2>2
  <2>4. PICK s : s = [r EXCEPT !.at = "config", !.ids = ids]
    OBVIOUS
  <2>5. order' = [order EXCEPT ![c] = s]
    BY <1>1, <1>7, <2>1, <2>2, <2>4 DEF Load, DayStep
  <2>6. s \in SetRequests /\ s.at = "config"
    BY <1>5, <2>3, <2>4 DEF SetRequests, Places
  <2>7. Ordered(s) /\ s.at \notin {"choose", "end"}
    BY <2>6 DEF Ordered
  <2>. QED
    BY <1>2, <1>3, <2>5, <2>7, Waiting
<1>8. CASE ReadConfig(c) /\ ~Return(c)
  <2>1. PICK config : config = SettingsOf(db, r.key.profile)
    OBVIOUS
  <2>2. config # None /\ DayStep(c, [r EXCEPT !.at = "fix", !.config = config])
    BY <1>1, <1>8, <2>1 DEF ReadConfig
  <2>3. config \in Settings \cup {None}
    <3>1. r.key.profile \in Profiles
      BY <1>4 DEF Keys
    <3>. QED
      BY <1>3, <2>1, <3>1 DEF SettingsOf, Docs, Settings
  <2>4. PICK s : s = [r EXCEPT !.at = "fix", !.config = config]
    OBVIOUS
  <2>5. order' = [order EXCEPT ![c] = s]
    BY <2>2, <2>4 DEF DayStep
  <2>6. s \in SetRequests /\ s.at = "fix" /\ s.config = config
    BY <1>5, <2>3, <2>4 DEF SetRequests, Places
  <2>7. Ordered(s) /\ s.at \notin {"choose", "end"}
    BY <2>2, <2>6 DEF Ordered
  <2>. QED
    BY <1>2, <1>3, <2>5, <2>7, Waiting
<1>. QED
  BY <1>2, <1>6, <1>7, <1>8

LEMMA AroundKeeps ==
    ASSUME DailyAssumption, DailyInv, Midnight \/ Vanish \/ UNCHANGED dailyVars
    PROVE  DailyInv' /\ UNCHANGED db
<1>1. UNCHANGED <<db, work, holder, order>>
  BY DEF Midnight, Vanish, dailyVars
<1>2. living' \subseteq Items
  BY DEF Midnight, Vanish, dailyVars, DailyInv
<1>3. today' \in Days
  <2>1. today \in Days /\ LastDay \in Nat
    BY DEF DailyInv, DailyAssumption
  <2>2. today' = today \/ (today < LastDay /\ today' = today + 1)
    BY DEF Midnight, Vanish, dailyVars
  <2>. QED
    BY <2>1, <2>2 DEF Days
<1>4. DailyInv
  OBVIOUS
<1>. QED
  BY <1>1, <1>2, <1>3, <1>4 DEF DailyInv, Working, Faithful

LEMMA DailyStep ==
    ASSUME DailyAssumption, DailyInv, [DayNext]_dailyVars
    PROVE  DailyInv' /\ SetKept
<1>1. UNCHANGED db => SetKept
  BY DEF SetKept
<1>2. ASSUME NEW c \in Clients, Finish(c) PROVE DailyInv' /\ SetKept
  BY <1>2, FinishKeeps
<1>3. ASSUME NEW c \in Clients, FixConfig(c) \/ Choose(c) \/ SaveConfig(c) \/ Reset(c) \/ DayFail(c)
      PROVE  DailyInv' /\ UNCHANGED db
  <2>1. UNCHANGED db
    BY <1>3 DEF FixConfig, Choose, SaveConfig, Reset, DayFail
  <2>. QED
    BY <1>3, <2>1, FixKeeps, ChooseKeeps, SaveKeeps, ResetKeeps, DayFailKeeps
<1>4. ASSUME NEW c \in Clients, AskSet(c) \/ AskSave(c) \/ AskReset(c) PROVE DailyInv' /\ UNCHANGED db
  BY <1>4, AsksKeep
<1>5. ASSUME NEW c \in Clients, Load(c) \/ ReadConfig(c) PROVE DailyInv' /\ UNCHANGED db
  BY <1>5, LoadKeeps
<1>6. CASE Midnight \/ Vanish \/ UNCHANGED dailyVars
  BY <1>1, <1>6, AroundKeeps
<1>. QED
  BY <1>1, <1>2, <1>3, <1>4, <1>5, <1>6 DEF DayNext

LEMMA DailyStarts ==
    ASSUME DailyAssumption, DayInit
    PROVE  DailyInv
<1>1. db \in Docs /\ \A k \in Keys : db.sets[k] = None
  BY DEF DayInit, Docs
<1>2. today \in Days
  BY DEF DayInit, DailyAssumption, Days
<1>. QED
  BY <1>1, <1>2 DEF DailyInv, DayInit, Faithful

LEMMA DailyInvShows ==
    ASSUME DailyInv
    PROVE  DailyTypeOK /\ SetFromSnapshot
<1>1. Faithful(db)
  BY DEF DailyInv
<1>2. DailyTypeOK
  BY <1>1 DEF DailyTypeOK, Faithful, Proper
<1>3. SetFromSnapshot
  BY <1>1 DEF SetFromSnapshot, Faithful, Full, Chosen, FixOf
<1>. QED
  BY <1>2, <1>3

\* For every number of devices, profiles, items and days: a stored set holds items of its
\* kind once, up to the limit, from the resources of the one copy of the settings made
\* for its day (save_daily, append_daily, today_settings), and what is there changes only
\* by something added at its end until the user resets it or it is too old.
THEOREM ReviewSetIsKept ==
    ASSUME DailyAssumption PROVE DaySpec => ReviewSetKept
<1>1. DayInit => DailyInv
  BY DailyStarts
<1>2. DailyInv /\ [DayNext]_dailyVars => DailyInv' /\ SetKept
  BY DailyStep
<1>3. DailyInv => DailyTypeOK /\ SetFromSnapshot
  BY DailyInvShows
<1>. QED
  BY <1>1, <1>2, <1>3, PTL DEF DaySpec, ReviewSetKept

---------------------------------------------------------------------------
CONSTANTS Subjects, IsQuiz, ResourceOf, Coefficients, MaxSettings
VARIABLES xDay, existing, coefficient, settings, ledger, xOwn, xHolder, xReq, xAsks
INSTANCE Experience WITH Fragile <- Passing, today <- xDay, db <- ledger, own <- xOwn,
    holder <- xHolder, req <- xReq, asks <- xAsks

---------------------------------------------------------------------------
(* Experience: what is invariant.                                                 *)

Sources == {"tanbun_exposure", "quiz_answer", "correct_bonus"}
Awards == [source : Sources, xp : Nat]
Events == [key : Subjects \X Nat \X Sources, resource : {ResourceOf[s] : s \in Subjects}, xp : Nat]
Book(b) ==
    b \in [events : Seq(Events), seen : Seq([subject : Subjects, day : Nat]),
           answers : Seq([subject : Subjects, day : Nat, correct : BOOLEAN]), told : {b.told}]
Joined(d, o) == [part \in DOMAIN d |-> d[part] \o o[part]]

\* The events of a book: a key once, and each for what was read or answered.
Once(b) == \A n, m \in DOMAIN b.events : b.events[n].key = b.events[m].key => n = m
Sourced(b) == \A n \in DOMAIN b.events : Backed(b.events[n].key, b)

\* A request earns what it has stored, or found.
Requested(r, b) ==
    /\ r \in [at : {"expose", "answer", "next", "award", "end", "fail"}, subject : Subjects,
              correct : BOOLEAN, day : Nat, award : Seq(Awards), coef : {r.coef}]
    /\ r.at = "award" => r.award # <<>>
    /\ \A n \in DOMAIN r.award : Backed(<<r.subject, r.day, r.award[n].source>>, b)

\* Only the request that holds the user's node has written events.
Earning(c) ==
    /\ c # xHolder => xOwn[c].events = <<>>
    /\ Once(Joined(ledger, xOwn[c])) /\ Sourced(Joined(ledger, xOwn[c]))
    /\ xReq[c] # None => Requested(xReq[c], Joined(ledger, xOwn[c]))
XpInv ==
    /\ xDay \in Nat /\ xOwn = [c \in Clients |-> xOwn[c]] /\ DOMAIN xReq = Clients
    /\ Book(ledger) /\ Once(ledger) /\ Sourced(ledger)
    /\ \A c \in Clients : Book(xOwn[c]) /\ Earning(c)

LEMMA JoinedIs ==
    ASSUME NEW d, NEW o, Book(d), Book(o)
    PROVE  LET j == Joined(d, o) IN
           /\ Book(j) /\ j.events = d.events \o o.events
           /\ j.seen = d.seen \o o.seen /\ j.answers = d.answers \o o.answers
<1>1. d \in [events : Seq(Events), seen : Seq([subject : Subjects, day : Nat]),
           answers : Seq([subject : Subjects, day : Nat, correct : BOOLEAN]), told : {d.told}]
  BY DEF Book
<1>2. o \in [events : Seq(Events), seen : Seq([subject : Subjects, day : Nat]),
           answers : Seq([subject : Subjects, day : Nat, correct : BOOLEAN]), told : {o.told}]
  BY DEF Book
<1>3. DOMAIN d = {"events", "seen", "answers", "told"}
  BY <1>1
<1>4. Joined(d, o) = [events |-> d.events \o o.events, seen |-> d.seen \o o.seen,
                      answers |-> d.answers \o o.answers, told |-> d.told \o o.told]
  <2>1. DOMAIN Joined(d, o) = {"events", "seen", "answers", "told"}
    BY <1>3 DEF Joined
  <2>2. \A part \in {"events", "seen", "answers", "told"} : Joined(d, o)[part] = d[part] \o o[part]
    BY <1>3 DEF Joined
  <2>3. Joined(d, o) = [part \in {"events", "seen", "answers", "told"} |-> Joined(d, o)[part]]
    BY <2>1 DEF Joined
  <2>. QED
    BY <2>1, <2>2, <2>3
<1>5. /\ d.events \o o.events \in Seq(Events)
      /\ d.seen \o o.seen \in Seq([subject : Subjects, day : Nat])
      /\ d.answers \o o.answers \in Seq([subject : Subjects, day : Nat, correct : BOOLEAN])
  <2>1. d.events \in Seq(Events) /\ o.events \in Seq(Events)
    BY <1>1, <1>2
  <2>2. d.seen \in Seq([subject : Subjects, day : Nat]) /\ o.seen \in Seq([subject : Subjects, day : Nat])
    BY <1>1, <1>2
  <2>3. /\ d.answers \in Seq([subject : Subjects, day : Nat, correct : BOOLEAN])
        /\ o.answers \in Seq([subject : Subjects, day : Nat, correct : BOOLEAN])
    BY <1>1, <1>2
  <2>. QED
    BY <2>1, <2>2, <2>3
<1>6. /\ Joined(d, o).events = d.events \o o.events /\ Joined(d, o).seen = d.seen \o o.seen
      /\ Joined(d, o).answers = d.answers \o o.answers
  <2>1. PICK events, seen, answers, told :
          /\ events = d.events \o o.events /\ seen = d.seen \o o.seen /\ answers = d.answers \o o.answers
          /\ Joined(d, o) = [events |-> events, seen |-> seen, answers |-> answers, told |-> told]
    BY <1>4, Zenon
  <2>2. PICK j : j = [events |-> events, seen |-> seen, answers |-> answers, told |-> told]
    OBVIOUS
  <2>3. j.events = events /\ j.seen = seen /\ j.answers = answers
    BY <2>2
  <2>. QED
    BY <2>1, <2>2, <2>3, Zenon
<1>7. Book(Joined(d, o))
  <2>1. PICK events \in Seq(Events), seen \in Seq([subject : Subjects, day : Nat]),
             answers \in Seq([subject : Subjects, day : Nat, correct : BOOLEAN]),
             told \in {d.told \o o.told} :
          Joined(d, o) = [events |-> events, seen |-> seen, answers |-> answers, told |-> told]
    BY <1>4, <1>5
  <2>. QED
    BY <2>1 DEF Book
<1>. QED
  BY <1>6, <1>7

LEMMA JoinedTold ==
    ASSUME NEW d, NEW o, Book(d), Book(o)
    PROVE  Joined(d, o).told = d.told \o o.told
<1>1. "told" \in DOMAIN d
  BY DEF Book
<1>. QED
  BY <1>1 DEF Joined

\* What is in a list is in a longer one.
Chained(w, u, v) == w = u \o v
LEMMA ListsGrow ==
    ASSUME NEW T, NEW u \in Seq(T), NEW v \in Seq(T), NEW w, Chained(w, u, v)
    PROVE  /\ \A m \in DOMAIN u : m \in DOMAIN w /\ w[m] = u[m]
           /\ \A m \in DOMAIN u : \E n \in DOMAIN w : w[n] = u[m]
           /\ \A m \in DOMAIN v : \E n \in DOMAIN w : w[n] = v[m]
           /\ \A n \in DOMAIN w : \/ n \in DOMAIN u /\ w[n] = u[n]
                                  \/ /\ n \in Nat /\ n > Len(u) /\ n - Len(u) \in DOMAIN v
                                     /\ w[n] = v[n - Len(u)]
<1>1. w \in Seq(T) /\ Len(w) = Len(u) + Len(v) /\ Len(u) \in Nat /\ Len(v) \in Nat
  BY DEF Chained
<1>2. DOMAIN u = 1 .. Len(u) /\ DOMAIN v = 1 .. Len(v) /\ DOMAIN w = 1 .. (Len(u) + Len(v))
  BY <1>1
<1>3. \A n \in 1 .. (Len(u) + Len(v)) : w[n] = IF n <= Len(u) THEN u[n] ELSE v[n - Len(u)]
  BY DEF Chained
<1>4. \A m \in DOMAIN u : m \in DOMAIN w /\ w[m] = u[m]
  BY <1>1, <1>2, <1>3
<1>5. ASSUME NEW m \in DOMAIN v PROVE \E n \in DOMAIN w : w[n] = v[m]
  <2>1. m + Len(u) \in 1 .. (Len(u) + Len(v)) /\ ~(m + Len(u) <= Len(u)) /\ (m + Len(u)) - Len(u) = m
    BY <1>1, <1>2
  <2>2. w[m + Len(u)] = v[m]
    BY <2>1, <1>3
  <2>. QED
    BY <2>1, <2>2, <1>2
<1>6. \A n \in DOMAIN w : \/ n \in DOMAIN u /\ w[n] = u[n]
                          \/ /\ n \in Nat /\ n > Len(u) /\ n - Len(u) \in DOMAIN v
                             /\ w[n] = v[n - Len(u)]
  BY <1>1, <1>2, <1>3
<1>. QED
  BY <1>4, <1>5, <1>6

Within(d, e) ==
    /\ \A m \in DOMAIN d.seen : \E n \in DOMAIN e.seen : e.seen[n] = d.seen[m]
    /\ \A m \in DOMAIN d.answers : \E n \in DOMAIN e.answers : e.answers[n] = d.answers[m]
LEMMA BackedStays ==
    ASSUME NEW d, NEW e, Within(d, e), NEW key, Backed(key, d)
    PROVE  Backed(key, e)
<1>1. CASE \E m \in DOMAIN d.seen : d.seen[m].subject = key[1] /\ d.seen[m].day = key[2]
  BY <1>1 DEF Within, Backed
<1>2. CASE \E m \in DOMAIN d.answers :
             /\ d.answers[m].subject = key[1] /\ d.answers[m].day = key[2]
             /\ key[3] = "correct_bonus" => d.answers[m].correct
  BY <1>2 DEF Within, Backed
<1>. QED
  BY <1>1, <1>2 DEF Backed

LEMMA JoinedWithin ==
    ASSUME NEW d, NEW o, Book(d), Book(o)
    PROVE  Within(d, Joined(d, o)) /\ Within(o, Joined(d, o))
<1>1. PICK S : d.seen \in Seq(S) /\ o.seen \in Seq(S)
  BY DEF Book
<1>2. PICK T : d.answers \in Seq(T) /\ o.answers \in Seq(T)
  BY DEF Book
<1>3. PICK seen, answers : seen = d.seen \o o.seen /\ answers = d.answers \o o.answers
  OBVIOUS
<1>4. /\ \A m \in DOMAIN d.seen : \E n \in DOMAIN seen : seen[n] = d.seen[m]
      /\ \A m \in DOMAIN o.seen : \E n \in DOMAIN seen : seen[n] = o.seen[m]
  <2>1. PICK u \in Seq(S), v \in Seq(S) : u = d.seen /\ v = o.seen
    BY <1>1
  <2>2. Chained(seen, u, v)
    BY <2>1, <1>3 DEF Chained
  <2>3. \A m \in DOMAIN u : \E n \in DOMAIN seen : seen[n] = u[m]
    BY <2>2, ListsGrow
  <2>4. \A m \in DOMAIN v : \E n \in DOMAIN seen : seen[n] = v[m]
    BY <2>2, ListsGrow
  <2>. QED
    BY <2>1, <2>3, <2>4
<1>5. /\ \A m \in DOMAIN d.answers : \E n \in DOMAIN answers : answers[n] = d.answers[m]
      /\ \A m \in DOMAIN o.answers : \E n \in DOMAIN answers : answers[n] = o.answers[m]
  <2>1. PICK u \in Seq(T), v \in Seq(T) : u = d.answers /\ v = o.answers
    BY <1>2
  <2>2. Chained(answers, u, v)
    BY <2>1, <1>3 DEF Chained
  <2>3. \A m \in DOMAIN u : \E n \in DOMAIN answers : answers[n] = u[m]
    BY <2>2, ListsGrow
  <2>4. \A m \in DOMAIN v : \E n \in DOMAIN answers : answers[n] = v[m]
    BY <2>2, ListsGrow
  <2>. QED
    BY <2>1, <2>3, <2>4
<1>6. Joined(d, o).seen = seen /\ Joined(d, o).answers = answers
  BY <1>3, JoinedIs
<1>. QED
  BY <1>4, <1>5, <1>6 DEF Within


\* A request changes what it has written itself.
LEMMA OwnStep ==
    ASSUME XpInv, NEW c \in Clients, NEW o, NEW r,
           xOwn' = [xOwn EXCEPT ![c] = o], xReq' = [xReq EXCEPT ![c] = r], UNCHANGED <<xDay, ledger>>,
           Book(o), Once(Joined(ledger, o)), Sourced(Joined(ledger, o)),
           r # None => Requested(r, Joined(ledger, o)),
           c # xHolder' => o.events = <<>>,
           \A e \in Clients \ {c} : xHolder = e => xHolder' = e
    PROVE  XpInv'
<1>1. /\ \A e \in Clients : xOwn'[e] = IF e = c THEN o ELSE xOwn[e]
      /\ \A e \in Clients : xReq'[e] = IF e = c THEN r ELSE xReq[e]
      /\ xOwn' = [e \in Clients |-> xOwn'[e]] /\ DOMAIN xReq' = Clients
  BY DEF XpInv
<1>2. xDay' \in Nat /\ Book(ledger') /\ Once(ledger') /\ Sourced(ledger')
  BY DEF XpInv
<1>3. ASSUME NEW e \in Clients PROVE Book(xOwn'[e]) /\ Earning(e)'
  <2>1. CASE e = c
    <3>1. xOwn'[e] = o /\ xReq'[e] = r
      BY <1>1, <2>1
    <3>. QED
      BY <3>1, <2>1 DEF Earning
  <2>2. CASE e # c
    <3>1. xOwn'[e] = xOwn[e] /\ xReq'[e] = xReq[e] /\ Book(xOwn[e]) /\ Earning(e)
      BY <1>1, <2>2 DEF XpInv
    <3>. QED
      BY <3>1, <2>2 DEF Earning
  <2>. QED
    BY <2>1, <2>2
<1>. QED
  BY <1>1, <1>2, <1>3 DEF XpInv

\* It only goes on.
LEMMA GoesOn ==
    ASSUME XpInv, NEW c \in Clients, NEW r,
           xReq' = [xReq EXCEPT ![c] = r], UNCHANGED <<xDay, ledger, xOwn, xHolder>>,
           r # None => Requested(r, Joined(ledger, xOwn[c]))
    PROVE  XpInv'
<1>1. PICK o : o = xOwn[c]
  OBVIOUS
<1>2. xOwn' = [xOwn EXCEPT ![c] = o]
  BY <1>1 DEF XpInv
<1>3. Book(o) /\ Once(Joined(ledger, o)) /\ Sourced(Joined(ledger, o)) /\ (c # xHolder => o.events = <<>>)
  BY <1>1 DEF XpInv, Earning
<1>. QED
  BY <1>1, <1>2, <1>3, OwnStep

\* It stores something else than an event.
LEMMA Stores ==
    ASSUME NEW c \in Clients, XpInv, NEW o, Book(o), o.events = xOwn[c].events,
           Within(Joined(ledger, xOwn[c]), Joined(ledger, o))
    PROVE  Once(Joined(ledger, o)) /\ Sourced(Joined(ledger, o)) /\ (c # xHolder => o.events = <<>>)
<1>1. PICK d, j : d = Joined(ledger, xOwn[c]) /\ j = Joined(ledger, o)
  OBVIOUS
<1>2. Book(ledger) /\ Book(xOwn[c]) /\ Once(d) /\ Sourced(d)
  BY <1>1 DEF XpInv, Earning
<1>3. j.events = d.events
  <2>1. d.events = ledger.events \o xOwn[c].events
    BY <1>1, <1>2, JoinedIs
  <2>2. j.events = ledger.events \o o.events
    BY <1>1, <1>2, JoinedIs
  <2>. QED
    BY <2>1, <2>2
<1>4. Once(j)
  BY <1>2, <1>3 DEF Once
<1>5. Sourced(j)
  BY <1>1, <1>2, <1>3, BackedStays DEF Sourced
<1>. QED
  BY <1>1, <1>4, <1>5 DEF XpInv, Earning

LEMMA AskKeeps ==
    ASSUME XpInv, NEW c \in Clients, Ask(c)
    PROVE  XpInv'
<1>1. PICK s \in Subjects, correct \in BOOLEAN :
         Goes(c, [at |-> IF IsQuiz[s] THEN "answer" ELSE "expose", subject |-> s, correct |-> correct,
                     day |-> xDay, award |-> <<>>, coef |-> None])
  BY DEF Ask
<1>2. PICK at \in {"answer", "expose"} : at = IF IsQuiz[s] THEN "answer" ELSE "expose"
  OBVIOUS
<1>3. PICK day \in Nat : day = xDay
  BY DEF XpInv
<1>4. PICK r : r = [at |-> at, subject |-> s, correct |-> correct, day |-> day, award |-> <<>>, coef |-> None]
  OBVIOUS
<1>5. Requested(r, Joined(ledger, xOwn[c]))
  <2>1. r.at # "award" /\ r.award = <<>> /\ r.award \in Seq(Awards)
    BY <1>4
  <2>2. r \in [at : {"expose", "answer", "next", "award", "end", "fail"}, subject : Subjects,
               correct : BOOLEAN, day : Nat, award : Seq(Awards), coef : {r.coef}]
    BY <1>4
  <2>. QED
    BY <2>1, <2>2 DEF Requested
<1>6. xReq' = [xReq EXCEPT ![c] = r]
  BY <1>1, <1>2, <1>3, <1>4 DEF Goes
<1>7. UNCHANGED <<xDay, ledger, xOwn, xHolder>>
  BY DEF Ask
<1>. QED
  BY <1>5, <1>6, <1>7, GoesOn

LEMMA ReadCoefficientKeeps ==
    ASSUME XpInv, NEW c \in Clients, ReadCoefficient(c)
    PROVE  XpInv'
<1>1. PICK r, d : r = xReq[c] /\ d = Joined(ledger, xOwn[c])
  OBVIOUS
<1>2. r # None /\ r.at = "next" /\ UNCHANGED <<xDay, ledger, xOwn, xHolder>>
  BY <1>1 DEF ReadCoefficient, NowAt, Rest
<1>3. Requested(r, d)
  BY <1>1, <1>2 DEF XpInv, Earning
<1>4. CASE r.award = <<>>
  <2>1. PICK s : s = [r EXCEPT !.at = "end"]
    OBVIOUS
  <2>2. Requested(s, d)
    BY <2>1, <1>3 DEF Requested
  <2>3. xReq' = [xReq EXCEPT ![c] = s]
    BY <1>1, <1>4, <2>1 DEF ReadCoefficient, Goes
  <2>. QED
    BY <1>1, <1>2, <2>2, <2>3, GoesOn
<1>5. CASE r.award # <<>>
  <2>1. PICK s : s = [r EXCEPT !.at = "award", !.coef = coefficient]
    OBVIOUS
  <2>2. Requested(s, d)
    BY <2>1, <1>3, <1>5 DEF Requested
  <2>3. xReq' = [xReq EXCEPT ![c] = s]
    BY <1>1, <1>5, <2>1 DEF ReadCoefficient, Goes
  <2>. QED
    BY <1>1, <1>2, <2>2, <2>3, GoesOn
<1>. QED
  BY <1>4, <1>5


\* What is appended is there.
LEMMA AppendedIs ==
    ASSUME NEW T, NEW u \in Seq(T), NEW x \in T, NEW w, w = Append(u, x)
    PROVE  /\ w \in Seq(T) /\ \A m \in DOMAIN u : m \in DOMAIN w /\ w[m] = u[m]
           /\ \E n \in DOMAIN w : w[n] = x
           /\ \A n \in DOMAIN w : (n \in DOMAIN u /\ w[n] = u[n]) \/ (n = Len(u) + 1 /\ w[n] = x)
<1>1. /\ w \in Seq(T) /\ Len(w) = Len(u) + 1 /\ Len(u) \in Nat
      /\ \A n \in 1 .. Len(u) : w[n] = u[n]
      /\ w[Len(u) + 1] = x
  OBVIOUS
<1>2. DOMAIN u = 1 .. Len(u) /\ DOMAIN w = 1 .. (Len(u) + 1)
  BY <1>1
<1>3. \A n \in 1 .. (Len(u) + 1) : n \in 1 .. Len(u) \/ n = Len(u) + 1
  BY <1>1
<1>4. Len(u) + 1 \in 1 .. (Len(u) + 1) /\ \A n \in 1 .. Len(u) : n \in 1 .. (Len(u) + 1)
  BY <1>1
<1>. QED
  BY <1>1, <1>2, <1>3, <1>4

\* One of the lists of a book grows.
LEMMA JoinedGrows ==
    ASSUME NEW d, NEW o, NEW p, Book(d), Book(o), Book(p), Within(o, p)
    PROVE  Within(Joined(d, o), Joined(d, p))
<1>1. PICK S : d.seen \in Seq(S) /\ o.seen \in Seq(S) /\ p.seen \in Seq(S)
  BY DEF Book
<1>2. PICK T : d.answers \in Seq(T) /\ o.answers \in Seq(T) /\ p.answers \in Seq(T)
  BY DEF Book
<1>3. PICK i, j : i = Joined(d, o) /\ j = Joined(d, p)
  OBVIOUS
<1>4. /\ Chained(i.seen, d.seen, o.seen) /\ Chained(i.answers, d.answers, o.answers)
      /\ Chained(j.seen, d.seen, p.seen) /\ Chained(j.answers, d.answers, p.answers)
  BY <1>3, JoinedIs DEF Chained
<1>5. \A m \in DOMAIN i.seen : \E n \in DOMAIN j.seen : j.seen[n] = i.seen[m]
  <2>1. PICK a, b, e, v, w : /\ a \in Seq(S) /\ b \in Seq(S) /\ e \in Seq(S)
           /\ a = d.seen /\ b = o.seen /\ e = p.seen /\ v = i.seen /\ w = j.seen
    BY <1>1
  <2>2. /\ a \in Seq(S) /\ b \in Seq(S) /\ e \in Seq(S)
        /\ Chained(v, a, b) /\ Chained(w, a, e)
        /\ \A m \in DOMAIN b : \E n \in DOMAIN e : e[n] = b[m]
    BY <2>1, <1>4 DEF Within
  <2>3. \A m \in DOMAIN v : (m \in DOMAIN a /\ v[m] = a[m]) \/ (\E n \in DOMAIN b : v[m] = b[n])
    BY <2>2, ListsGrow
  <2>4. /\ \A m \in DOMAIN a : \E n \in DOMAIN w : w[n] = a[m]
        /\ \A m \in DOMAIN e : \E n \in DOMAIN w : w[n] = e[m]
    BY <2>2, ListsGrow
  <2>5. \A m \in DOMAIN v : \E n \in DOMAIN w : w[n] = v[m]
    BY <2>2, <2>3, <2>4
  <2>. QED
    BY <2>1, <2>5
<1>6. \A m \in DOMAIN i.answers : \E n \in DOMAIN j.answers : j.answers[n] = i.answers[m]
  <2>1. PICK a, b, e, v, w : /\ a \in Seq(T) /\ b \in Seq(T) /\ e \in Seq(T)
           /\ a = d.answers /\ b = o.answers /\ e = p.answers /\ v = i.answers /\ w = j.answers
    BY <1>2
  <2>2. /\ a \in Seq(T) /\ b \in Seq(T) /\ e \in Seq(T)
        /\ Chained(v, a, b) /\ Chained(w, a, e)
        /\ \A m \in DOMAIN b : \E n \in DOMAIN e : e[n] = b[m]
    BY <2>1, <1>4 DEF Within
  <2>3. \A m \in DOMAIN v : (m \in DOMAIN a /\ v[m] = a[m]) \/ (\E n \in DOMAIN b : v[m] = b[n])
    BY <2>2, ListsGrow
  <2>4. /\ \A m \in DOMAIN a : \E n \in DOMAIN w : w[n] = a[m]
        /\ \A m \in DOMAIN e : \E n \in DOMAIN w : w[n] = e[m]
    BY <2>2, ListsGrow
  <2>5. \A m \in DOMAIN v : \E n \in DOMAIN w : w[n] = v[m]
    BY <2>2, <2>3, <2>4
  <2>. QED
    BY <2>1, <2>5
<1>. QED
  BY <1>3, <1>5, <1>6 DEF Within

LEMMA LongerWithin ==
    ASSUME NEW d, NEW e, NEW o, Book(d), Book(e), Book(o), Within(d, e)
    PROVE  Within(Joined(d, o), Joined(e, o))
<1>1. PICK S : d.seen \in Seq(S) /\ e.seen \in Seq(S) /\ o.seen \in Seq(S)
  BY DEF Book
<1>2. PICK T : d.answers \in Seq(T) /\ e.answers \in Seq(T) /\ o.answers \in Seq(T)
  BY DEF Book
<1>3. PICK i, j : i = Joined(d, o) /\ j = Joined(e, o)
  OBVIOUS
<1>4. /\ Chained(i.seen, d.seen, o.seen) /\ Chained(i.answers, d.answers, o.answers)
      /\ Chained(j.seen, e.seen, o.seen) /\ Chained(j.answers, e.answers, o.answers)
  BY <1>3, JoinedIs DEF Chained
<1>5. \A m \in DOMAIN i.seen : \E n \in DOMAIN j.seen : j.seen[n] = i.seen[m]
  <2>1. PICK a, b, t, v, w : /\ a \in Seq(S) /\ b \in Seq(S) /\ t \in Seq(S)
           /\ a = d.seen /\ b = e.seen /\ t = o.seen /\ v = i.seen /\ w = j.seen
    BY <1>1
  <2>2. /\ a \in Seq(S) /\ b \in Seq(S) /\ t \in Seq(S)
        /\ Chained(v, a, t) /\ Chained(w, b, t)
        /\ \A m \in DOMAIN a : \E n \in DOMAIN b : b[n] = a[m]
    BY <2>1, <1>4 DEF Within
  <2>3. \A m \in DOMAIN v : (m \in DOMAIN a /\ v[m] = a[m]) \/ (\E n \in DOMAIN t : v[m] = t[n])
    BY <2>2, ListsGrow
  <2>4. /\ \A m \in DOMAIN b : \E n \in DOMAIN w : w[n] = b[m]
        /\ \A m \in DOMAIN t : \E n \in DOMAIN w : w[n] = t[m]
    BY <2>2, ListsGrow
  <2>5. \A m \in DOMAIN v : \E n \in DOMAIN w : w[n] = v[m]
    BY <2>2, <2>3, <2>4
  <2>. QED
    BY <2>1, <2>5
<1>6. \A m \in DOMAIN i.answers : \E n \in DOMAIN j.answers : j.answers[n] = i.answers[m]
  <2>1. PICK a, b, t, v, w : /\ a \in Seq(T) /\ b \in Seq(T) /\ t \in Seq(T)
           /\ a = d.answers /\ b = e.answers /\ t = o.answers /\ v = i.answers /\ w = j.answers
    BY <1>2
  <2>2. /\ a \in Seq(T) /\ b \in Seq(T) /\ t \in Seq(T)
        /\ Chained(v, a, t) /\ Chained(w, b, t)
        /\ \A m \in DOMAIN a : \E n \in DOMAIN b : b[n] = a[m]
    BY <2>1, <1>4 DEF Within
  <2>3. \A m \in DOMAIN v : (m \in DOMAIN a /\ v[m] = a[m]) \/ (\E n \in DOMAIN t : v[m] = t[n])
    BY <2>2, ListsGrow
  <2>4. /\ \A m \in DOMAIN b : \E n \in DOMAIN w : w[n] = b[m]
        /\ \A m \in DOMAIN t : \E n \in DOMAIN w : w[n] = t[m]
    BY <2>2, ListsGrow
  <2>5. \A m \in DOMAIN v : \E n \in DOMAIN w : w[n] = v[m]
    BY <2>2, <2>3, <2>4
  <2>. QED
    BY <2>1, <2>5
<1>. QED
  BY <1>3, <1>5, <1>6 DEF Within

\* One award, or two, for what is backed.
Earns(r, day, awards) == [r EXCEPT !.at = "next", !.day = day, !.award = awards]
LEMMA AwardsBacked ==
    ASSUME NEW r, NEW b, NEW awards, NEW s, NEW day, s = Earns(r, day, awards),
           Requested(r, b), day \in Nat, awards \in Seq(Awards), NEW e,
           \A n \in DOMAIN awards : Backed(<<r.subject, day, awards[n].source>>, e)
    PROVE  Requested(s, e)
<1>1. s.award = awards /\ s.subject = r.subject /\ s.day = day /\ s.at = "next" /\ s.coef = r.coef
  BY DEF Requested, Earns
<1>2. s \in [at : {"expose", "answer", "next", "award", "end", "fail"}, subject : Subjects,
             correct : BOOLEAN, day : Nat, award : Seq(Awards), coef : {r.coef}]
  BY DEF Requested, Earns
<1>. QED
  BY <1>1, <1>2 DEF Requested

LEMMA ExposeKeeps ==
    ASSUME XpInv, NEW c \in Clients, Expose(c)
    PROVE  XpInv'
<1>1. PICK r, d, before : r = xReq[c] /\ before = xOwn[c] /\ d = Joined(ledger, before)
  OBVIOUS
<1>2. r # None /\ r.at = "expose" /\ UNCHANGED <<xDay, ledger, xHolder>>
  BY <1>1 DEF Expose, NowAt, Rest
<1>3. Requested(r, d) /\ Book(before) /\ Book(ledger)
  BY <1>1, <1>2 DEF XpInv, Earning
<1>4. CASE r.subject \notin existing
  <2>1. PICK s : s = [r EXCEPT !.at = "fail"]
    OBVIOUS
  <2>2. Requested(s, d)
    BY <2>1, <1>3 DEF Requested
  <2>3. xReq' = [xReq EXCEPT ![c] = s] /\ xOwn' = xOwn
    BY <1>1, <1>4, <2>1 DEF Expose, Goes
  <2>. QED
    BY <1>1, <1>2, <2>2, <2>3, GoesOn
<1>5. CASE r.subject \in existing
  <2>1. PICK entry, awards, s, day :
           /\ day = r.day
           /\ entry = [subject |-> r.subject, day |-> r.day]
           /\ awards = <<Event("tanbun_exposure", 1)>>
           /\ s = Earns(r, day, awards)
    OBVIOUS
  <2>2. entry \in [subject : Subjects, day : Nat] /\ entry.subject = r.subject /\ entry.day = r.day
    BY <2>1, <1>3 DEF Requested
  <2>3. awards \in Seq(Awards) /\ DOMAIN awards = {1}
    BY <2>1 DEF Event, Awards, Sources
  <2>4. \A e : (\E n \in DOMAIN e.seen : e.seen[n] = entry) => Requested(s, e)
    <3>. SUFFICES ASSUME NEW e, \E n \in DOMAIN e.seen : e.seen[n] = entry PROVE Requested(s, e)
      OBVIOUS
    <3>1. \A n \in DOMAIN awards : Backed(<<r.subject, day, awards[n].source>>, e)
      BY <2>1, <2>2 DEF Backed
    <3>2. day \in Nat
      BY <2>1, <1>3 DEF Requested
    <3>3. awards \in Seq(Awards) /\ s = Earns(r, day, awards)
      BY <2>1, <2>3
    <3>. QED
      BY <3>1, <3>2, <3>3, <1>3, AwardsBacked
  <2>5. xReq' = [xReq EXCEPT ![c] = s]
    <3>1. s = [r EXCEPT !.at = "next", !.award = awards]
      BY <2>1, <1>3 DEF Requested, Earns
    <3>. QED
      BY <3>1, <2>1, <1>1, <1>5 DEF Expose, Goes, TANBUN_EXPOSURE_XP
  <2>6. CASE \E n \in DOMAIN d.seen : d.seen[n] = entry
    <3>1. xOwn' = xOwn
      BY <2>6, <2>1, <1>1, <1>5 DEF Expose, Visible, Joined
    <3>. QED
      BY <3>1, <2>4, <2>5, <2>6, <1>1, <1>2, GoesOn
  <2>7. CASE ~ \E n \in DOMAIN d.seen : d.seen[n] = entry
    <3>1. PICK o : o = [before EXCEPT !.seen = Append(before.seen, entry)]
      OBVIOUS
    <3>2. xOwn' = [xOwn EXCEPT ![c] = o]
      BY <3>1, <2>7, <2>1, <1>1, <1>5 DEF Expose, Visible, Joined, Records
    <3>3. before.seen \in Seq([subject : Subjects, day : Nat])
      BY <1>3 DEF Book
    <3>4. PICK seen : seen = Append(before.seen, entry)
      OBVIOUS
    <3>5. /\ seen \in Seq([subject : Subjects, day : Nat])
          /\ \A m \in DOMAIN before.seen : m \in DOMAIN seen /\ seen[m] = before.seen[m]
          /\ \E n \in DOMAIN seen : seen[n] = entry
      BY <3>3, <3>4, <2>2, AppendedIs
    <3>6. Book(o) /\ o.events = before.events /\ o.seen = seen /\ o.answers = before.answers
      BY <3>1, <3>4, <3>5, <1>3 DEF Book
    <3>7. Within(before, o)
      BY <3>5, <3>6 DEF Within
    <3>8. Within(d, Joined(ledger, o)) /\ Within(o, Joined(ledger, o))
      BY <3>6, <3>7, <1>1, <1>3, JoinedGrows, JoinedWithin
    <3>9. Requested(s, Joined(ledger, o))
      BY <3>5, <3>6, <3>8, <2>4 DEF Within
    <3>10. Once(Joined(ledger, o)) /\ Sourced(Joined(ledger, o)) /\ (c # xHolder => o.events = <<>>)
      BY <3>6, <3>8, <1>1, Stores
    <3>. QED
      BY <3>2, <3>6, <3>9, <3>10, <2>5, <1>2, OwnStep
  <2>. QED
    BY <2>6, <2>7
<1>. QED
  BY <1>4, <1>5


LEMMA AnswerAwards ==
    ASSUME NEW correct \in BOOLEAN, NEW there, NEW awards,
           awards = IF ~there THEN <<>>
                    ELSE <<Event("quiz_answer", 5)>> \o IF correct THEN <<Event("correct_bonus", 2)>> ELSE <<>>
    PROVE  /\ awards \in Seq(Awards)
           /\ \A n \in DOMAIN awards : awards[n].source = "correct_bonus" => correct
<1>1. PICK answer, bonus : answer = Event("quiz_answer", 5) /\ bonus = Event("correct_bonus", 2)
  OBVIOUS
<1>2. answer \in Awards /\ bonus \in Awards /\ answer.source # "correct_bonus"
  BY <1>1 DEF Event, Awards, Sources
<1>3. CASE ~there
  BY <1>3
<1>4. CASE there /\ correct
  <2>1. awards = <<answer>> \o <<bonus>>
    BY <1>1, <1>4
  <2>2. awards \in Seq(Awards)
    BY <2>1, <1>2
  <2>. QED
    BY <2>2, <1>4
<1>5. CASE there /\ ~correct
  <2>1. awards = <<answer>>
    BY <1>1, <1>5
  <2>. QED
    BY <2>1, <1>2
<1>. QED
  BY <1>3, <1>4, <1>5

LEMMA StoreAnswerKeepsXp ==
    ASSUME XpInv, NEW c \in Clients, CreateAnswer(c)
    PROVE  XpInv'
<1>1. PICK r, before, d : r = xReq[c] /\ before = xOwn[c] /\ d = Joined(ledger, before)
  OBVIOUS
<1>2. r # None /\ r.at = "answer" /\ UNCHANGED <<xDay, ledger, xHolder>>
  BY <1>1 DEF CreateAnswer, NowAt, Rest
<1>3. Requested(r, d) /\ Book(before) /\ Book(ledger) /\ xDay \in Nat
  BY <1>1, <1>2 DEF XpInv, Earning
<1>4. PICK there : there = (r.subject \in existing)
  OBVIOUS
<1>5. PICK day, entry, awards, s :
        /\ day = xDay /\ entry = [subject |-> r.subject, day |-> day, correct |-> r.correct]
        /\ awards = IF ~there THEN <<>>
                    ELSE <<Event("quiz_answer", 5)>>
                         \o IF r.correct THEN <<Event("correct_bonus", 2)>> ELSE <<>>
        /\ s = Earns(r, day, awards)
  OBVIOUS
<1>6. day \in Nat /\ r.correct \in BOOLEAN
  BY <1>3, <1>5 DEF Requested
<1>7. /\ entry \in [subject : Subjects, day : Nat, correct : BOOLEAN]
      /\ entry.subject = r.subject /\ entry.day = day /\ entry.correct = r.correct
  BY <1>3, <1>5, <1>6 DEF Requested
<1>8. /\ awards \in Seq(Awards)
      /\ \A n \in DOMAIN awards : awards[n].source = "correct_bonus" => r.correct
  <2>1. PICK correct \in BOOLEAN : correct = r.correct
    BY <1>6
  <2>2. awards = IF ~there THEN <<>>
                 ELSE <<Event("quiz_answer", 5)>>
                      \o IF correct THEN <<Event("correct_bonus", 2)>> ELSE <<>>
    BY <2>1, <1>5
  <2>3. /\ awards \in Seq(Awards)
        /\ \A n \in DOMAIN awards : awards[n].source = "correct_bonus" => correct
    BY <2>2, AnswerAwards
  <2>. QED
    BY <2>1, <2>3
<1>9. PICK o, answers : answers = Append(before.answers, entry) /\ o = [before EXCEPT !.answers = answers]
  OBVIOUS
<1>10. xOwn' = [xOwn EXCEPT ![c] = o] /\ xReq' = [xReq EXCEPT ![c] = s]
  <2>1. xOwn' = [xOwn EXCEPT ![c] = o]
    BY <1>1, <1>5, <1>9 DEF CreateAnswer, Records
  <2>2. s = [r EXCEPT !.at = "next", !.day = day, !.award = awards]
    BY <1>5 DEF Earns
  <2>3. xReq' = [xReq EXCEPT ![c] = s]
    BY <2>2, <1>1, <1>4, <1>5 DEF CreateAnswer, Goes, QUIZ_ANSWERED_XP, QUIZ_CORRECT_BONUS_XP
  <2>. QED
    BY <2>1, <2>3
<1>11. /\ answers \in Seq([subject : Subjects, day : Nat, correct : BOOLEAN])
       /\ \A m \in DOMAIN before.answers : m \in DOMAIN answers /\ answers[m] = before.answers[m]
       /\ \E n \in DOMAIN answers : answers[n] = entry
  <2>1. PICK T : T = [subject : Subjects, day : Nat, correct : BOOLEAN]
    OBVIOUS
  <2>2. PICK list \in Seq(T) : list = before.answers
    BY <2>1, <1>3 DEF Book
  <2>3. entry \in T /\ answers = Append(list, entry)
    BY <2>1, <2>2, <1>7, <1>9
  <2>4. /\ answers \in Seq(T) /\ \A m \in DOMAIN list : m \in DOMAIN answers /\ answers[m] = list[m]
        /\ \E n \in DOMAIN answers : answers[n] = entry
    BY <2>3, AppendedIs
  <2>. QED
    BY <2>1, <2>2, <2>4
<1>12. Book(o) /\ o.events = before.events /\ o.seen = before.seen /\ o.answers = answers
  BY <1>9, <1>11, <1>3 DEF Book
<1>13. Within(before, o)
  BY <1>11, <1>12 DEF Within
<1>14. PICK e : e = Joined(ledger, o)
  OBVIOUS
<1>15. Within(d, e) /\ Within(o, e)
  BY <1>1, <1>3, <1>12, <1>13, <1>14, JoinedGrows, JoinedWithin
<1>16. Requested(s, e)
  <2>1. PICK m \in DOMAIN e.answers : e.answers[m] = entry
    BY <1>11, <1>12, <1>15 DEF Within
  <2>2. \A n \in DOMAIN awards : Backed(<<r.subject, day, awards[n].source>>, e)
    BY <2>1, <1>7, <1>8 DEF Backed
  <2>3. s = Earns(r, day, awards)
    BY <1>5
  <2>. QED
    BY <2>2, <2>3, <1>3, <1>6, <1>8, AwardsBacked
<1>17. Once(e) /\ Sourced(e) /\ (c # xHolder => o.events = <<>>)
  BY <1>1, <1>12, <1>14, <1>15, Stores
<1>. QED
  BY <1>2, <1>10, <1>12, <1>14, <1>16, <1>17, OwnStep

\* What is appended to the second of two lists comes last of both.
JoinsLast(x, y, e) == x \o Append(y, e) = Append(x \o y, e)
LEMMA AppendJoins ==
    ASSUME NEW T, NEW x \in Seq(T), NEW y \in Seq(T), NEW e \in T
    PROVE  JoinsLast(x, y, e)
BY DEF JoinsLast

LEMMA AwardKeeps ==
    ASSUME XpInv, XpAssumption, NEW c \in Clients, Award(c)
    PROVE  XpInv'
<1>1. PICK r, before, d : r = xReq[c] /\ before = xOwn[c] /\ d = Joined(ledger, before)
  OBVIOUS
<1>2. r # None /\ r.at = "award" /\ UNCHANGED <<xDay, ledger>> /\ xHolder \in {None, c} /\ xHolder' = c
  BY <1>1 DEF Award, NowAt, Rest
<1>3. Requested(r, d) /\ Book(before) /\ Book(ledger) /\ Once(d) /\ Sourced(d)
  BY <1>1, <1>2 DEF XpInv, Earning
<1>4. PICK award, rest, key : /\ award = Head(r.award) /\ rest = Tail(r.award)
                              /\ key = <<r.subject, r.day, award.source>>
  OBVIOUS
<1>5. /\ award \in Awards /\ rest \in Seq(Awards) /\ Backed(key, d)
      /\ \A n \in DOMAIN rest : Backed(<<r.subject, r.day, rest[n].source>>, d)
  <2>1. PICK list \in Seq(Awards) : list = r.award /\ list # <<>>
    BY <1>2, <1>3 DEF Requested
  <2>2. /\ Head(list) = list[1] /\ 1 \in DOMAIN list /\ list[1] \in Awards /\ Tail(list) \in Seq(Awards)
        /\ \A n \in DOMAIN Tail(list) : n + 1 \in DOMAIN list /\ Tail(list)[n] = list[n + 1]
    BY <2>1
  <2>3. \A n \in DOMAIN list : Backed(<<r.subject, r.day, list[n].source>>, d)
    BY <2>1, <1>3 DEF Requested
  <2>. QED
    BY <2>1, <2>2, <2>3, <1>4
<1>6. PICK s : s = [r EXCEPT !.award = rest, !.at = "next"]
  OBVIOUS
<1>7. \A e : Within(d, e) => Requested(s, e)
  <2>. SUFFICES ASSUME NEW e, Within(d, e) PROVE Requested(s, e)
    OBVIOUS
  <2>1. \A n \in DOMAIN rest : Backed(<<r.subject, r.day, rest[n].source>>, e)
    BY <1>5, BackedStays
  <2>. QED
    BY <2>1, <1>3, <1>5, <1>6 DEF Requested
<1>8. xReq' = [xReq EXCEPT ![c] = s]
  BY <1>1, <1>4, <1>6 DEF Award, Goes
<1>11. \A e \in Clients \ {c} : xHolder = e => xHolder' = e
  BY <1>2 DEF XpAssumption
<1>9. CASE \E n \in DOMAIN d.events : d.events[n].key = key
  <2>1. xOwn' = [xOwn EXCEPT ![c] = before]
    <3>1. xOwn' = xOwn
      BY <1>9, <1>1, <1>4 DEF Award, Exists, Visible, Joined
    <3>. QED
      BY <3>1, <1>1 DEF XpInv
  <2>2. Requested(s, d)
    BY <1>7 DEF Within
  <2>. QED
    BY <2>1, <2>2, <1>1, <1>2, <1>3, <1>8, <1>11, OwnStep
<1>10. CASE ~ \E n \in DOMAIN d.events : d.events[n].key = key
  <2>1. PICK event, events, told :
          /\ event = [key |-> key, resource |-> ResourceOf[r.subject], xp |-> award.xp]
          /\ events = Append(before.events, event)
          /\ xOwn' = [xOwn EXCEPT ![c].events = events, ![c].told = told]
    BY <1>10, <1>1, <1>4 DEF Award, Exists, Visible, Joined
  <2>2. PICK o : o = [before EXCEPT !.events = events, !.told = told]
    OBVIOUS
  <2>3. xOwn' = [xOwn EXCEPT ![c] = o]
    BY <2>1, <2>2, <1>1 DEF XpInv
  <2>4. event \in Events /\ event.key = key /\ before.events \in Seq(Events) /\ d.events \in Seq(Events)
    <3>1. event \in Events /\ event.key = key
      BY <2>1, <1>3, <1>4, <1>5 DEF Requested, Events, Awards
    <3>2. Book(d) /\ before.events \in Seq(Events)
      BY <1>1, <1>3, JoinedIs DEF Book
    <3>. QED
      BY <3>1, <3>2 DEF Book
  <2>5. Book(o) /\ o.events = events /\ o.seen = before.seen /\ o.answers = before.answers
    <3>1. before \in [events : Seq(Events), seen : Seq([subject : Subjects, day : Nat]),
             answers : Seq([subject : Subjects, day : Nat, correct : BOOLEAN]), told : {before.told}]
      BY <1>3 DEF Book
    <3>2. o = [events |-> events, seen |-> before.seen, answers |-> before.answers, told |-> told]
      BY <2>2, <3>1
    <3>3. events \in Seq(Events)
      BY <2>1, <2>4
    <3>4. /\ before.seen \in Seq([subject : Subjects, day : Nat])
          /\ before.answers \in Seq([subject : Subjects, day : Nat, correct : BOOLEAN])
      BY <3>1
    <3>. QED
      BY <3>2, <3>3, <3>4 DEF Book
  <2>6. PICK e : e = Joined(ledger, o)
    OBVIOUS
  <2>7. Within(d, e)
    <3>1. Within(before, o)
      BY <2>5 DEF Within
    <3>. QED
      BY <3>1, <2>5, <2>6, <1>1, <1>3, JoinedGrows
  <2>8. e.events = Append(d.events, event)
    <3>1. PICK a \in Seq(Events), b \in Seq(Events) : a = ledger.events /\ b = before.events
      BY <1>3, <2>4 DEF Book
    <3>2. JoinsLast(a, b, event)
      BY <2>4, AppendJoins
    <3>3. e.events = a \o events /\ d.events = a \o b
      <4>1. Book(ledger) /\ Book(o) /\ Book(before)
        BY <1>3, <2>5
      <4>2. e.events = ledger.events \o o.events
        BY <4>1, <2>6, JoinedIs
      <4>3. d.events = ledger.events \o before.events
        BY <4>1, <1>1, JoinedIs
      <4>. QED
        BY <4>2, <4>3, <3>1, <2>5
    <3>4. a \o events = Append(a \o b, event)
      BY <3>1, <3>2, <2>1 DEF JoinsLast
    <3>. QED
      BY <3>3, <3>4
  <2>9. PICK old, new : old = d.events /\ new = e.events
    OBVIOUS
  <2>10. /\ \A n \in DOMAIN old : old[n].key # key /\ Backed(old[n].key, e)
         /\ \A n, m \in DOMAIN old : old[n].key = old[m].key => n = m
    BY <2>7, <2>9, <1>3, <1>10, BackedStays DEF Once, Sourced
  <2>11. /\ Backed(key, e)
         /\ \A n \in DOMAIN new : \/ n \in DOMAIN old /\ new[n] = old[n]
                                  \/ n = Len(old) + 1 /\ new[n] = event
    <3>1. Backed(key, e)
      BY <1>5, <2>7, BackedStays
    <3>2. old \in Seq(Events) /\ new = Append(old, event)
      BY <2>4, <2>8, <2>9
    <3>. QED
      BY <3>1, <3>2, <2>4, AppendedIs
  <2>12. Once(e) /\ Sourced(e)
    <3>1. ASSUME NEW n \in DOMAIN new PROVE Backed(new[n].key, e)
      BY <2>4, <2>10, <2>11
    <3>2. ASSUME NEW n \in DOMAIN new, NEW m \in DOMAIN new, new[n].key = new[m].key PROVE n = m
      BY <3>2, <2>4, <2>10, <2>11
    <3>. QED
      BY <3>1, <3>2, <2>9 DEF Once, Sourced
  <2>13. Requested(s, e)
    BY <2>7, <1>7
  <2>. QED
    BY <2>3, <2>5, <2>6, <2>12, <2>13, <1>2, <1>8, <1>11, OwnStep
<1>. QED
  BY <1>9, <1>10


LEMMA NothingAdded ==
    ASSUME NEW T, NEW u \in Seq(T), NEW v, NEW w, Chained(w, u, v), v = <<>>
    PROVE  w = u
<1>1. w = u \o <<>>
  BY DEF Chained
<1>. QED
  BY <1>1

\* Nothing is written yet.
LEMMA EmptyBook ==
    ASSUME XpInv
    PROVE  Book(Empty) /\ Once(Joined(ledger, Empty)) /\ Sourced(Joined(ledger, Empty))
<1>1. PICK o, j : o = Empty /\ j = Joined(ledger, o)
  OBVIOUS
<1>2. Book(o) /\ o.events = <<>> /\ Book(ledger) /\ Once(ledger) /\ Sourced(ledger)
  BY <1>1 DEF Empty, Book, XpInv
<1>3. j.events = ledger.events
  <2>1. PICK events \in Seq(Events) : events = ledger.events
    BY <1>2 DEF Book
  <2>2. Book(o) /\ Book(ledger)
    BY <1>2
  <2>3. Chained(j.events, events, o.events)
    BY <2>1, <2>2, <1>1, JoinedIs DEF Chained
  <2>. QED
    BY <2>1, <2>3, <1>2, NothingAdded
<1>4. Within(ledger, j)
  BY <1>1, <1>2, JoinedWithin
<1>5. Once(j) /\ Sourced(j)
  BY <1>2, <1>3, <1>4, BackedStays DEF Once, Sourced
<1>. QED
  BY <1>1, <1>2, <1>5

LEMMA FailKeeps ==
    ASSUME XpInv, XpAssumption, NEW c \in Clients, Abort(c)
    PROVE  XpInv'
<1>1. PICK o, r : o = Empty /\ r = None
  OBVIOUS
<1>2. xOwn' = [xOwn EXCEPT ![c] = o] /\ xReq' = [xReq EXCEPT ![c] = r] /\ UNCHANGED <<xDay, ledger>>
  BY <1>1 DEF Abort, Ended, Rest
<1>3. \A e \in Clients \ {c} : xHolder = e => xHolder' = e
  BY DEF Abort, Ended, Release
<1>4. o.events = <<>> /\ Book(o) /\ Once(Joined(ledger, o)) /\ Sourced(Joined(ledger, o))
  BY <1>1, EmptyBook DEF Empty
<1>. QED
  BY <1>1, <1>2, <1>3, <1>4, OwnStep

\* What it has written is committed: what the others see besides is no event.
LEMMA FinishKeepsXp ==
    ASSUME XpInv, XpAssumption, NEW c \in Clients, Complete(c)
    PROVE  XpInv'
<1>1. PICK before, d : before = xOwn[c] /\ d = Joined(ledger, before)
  OBVIOUS
<1>2. ledger' = d /\ xDay' = xDay
  BY <1>1 DEF Complete, Visible, Joined
<1>3. /\ \A e \in Clients : xOwn'[e] = IF e = c THEN Empty ELSE xOwn[e]
      /\ \A e \in Clients : xReq'[e] = IF e = c THEN None ELSE xReq[e]
      /\ xOwn' = [e \in Clients |-> xOwn'[e]] /\ DOMAIN xReq' = Clients
      /\ xHolder' = IF xHolder = c THEN None ELSE xHolder
  BY DEF Complete, Ended, Release, XpInv
<1>4. Book(before) /\ Book(ledger) /\ Once(d) /\ Sourced(d)
  BY <1>1 DEF XpInv, Earning
<1>5. Book(d) /\ Within(ledger, d) /\ d.events = ledger.events \o before.events
  BY <1>1, <1>4, JoinedIs, JoinedWithin
<1>6. ASSUME NEW e \in Clients PROVE Book(xOwn'[e]) /\ Earning(e)'
  <2>1. PICK o, j : o = xOwn'[e] /\ j = Joined(d, o)
    OBVIOUS
  <2>2. Book(o) /\ (e # xHolder' => o.events = <<>>)
    <3>1. CASE e = c
      BY <3>1, <2>1, <1>3, EmptyBook DEF Empty
    <3>2. CASE e # c
      <4>1. o = xOwn[e] /\ Book(o) /\ Earning(e)
        BY <3>2, <2>1, <1>3 DEF XpInv
      <4>2. e # xHolder' => e # xHolder
        BY <3>2, <1>3
      <4>. QED
        BY <4>1, <4>2 DEF Earning
    <3>. QED
      BY <3>1, <3>2
  <2>3. Once(j) /\ Sourced(j)
    <3>1. o.events = <<>> \/ before.events = <<>>
      <4>1. CASE e # xHolder'
        BY <4>1, <2>2
      <4>2. CASE e = xHolder'
        <5>1. c # xHolder
          BY <4>2, <1>3 DEF XpAssumption
        <5>. QED
          BY <5>1, <1>1 DEF XpInv, Earning
      <4>. QED
        BY <4>1, <4>2
    <3>2. CASE o.events = <<>>
      <4>1. PICK events \in Seq(Events) : events = d.events
        BY <1>5 DEF Book
      <4>4. Chained(j.events, events, o.events)
        <5>1. Book(o) /\ Book(d)
          BY <2>2, <1>5
        <5>. QED
          BY <5>1, <4>1, <2>1, JoinedIs DEF Chained
      <4>2. j.events = events
        BY <4>4, <3>2, NothingAdded
      <4>3. Within(d, j)
        BY <2>1, <2>2, <1>5, JoinedWithin
      <4>. QED
        BY <4>1, <4>2, <4>3, <1>4, BackedStays DEF Once, Sourced
    <3>3. CASE o.events # <<>> /\ before.events = <<>>
      <4>1. e # c
        BY <3>3, <2>1, <1>3 DEF Empty
      <4>2. PICK i : i = Joined(ledger, o)
        OBVIOUS
      <4>3. o = xOwn[e] /\ Once(i) /\ Sourced(i)
        BY <4>1, <4>2, <2>1, <1>3 DEF XpInv, Earning
      <4>4. d.events = ledger.events
        <5>1. PICK events \in Seq(Events) : events = ledger.events
          BY <1>4 DEF Book
        <5>. QED
          BY <5>1, <3>3, <1>5
      <4>5. j.events = d.events \o o.events /\ i.events = ledger.events \o o.events
        <5>1. Book(o) /\ Book(d) /\ Book(ledger)
          BY <2>2, <1>4, <1>5
        <5>2. j.events = d.events \o o.events
          BY <5>1, <2>1, JoinedIs
        <5>3. i.events = ledger.events \o o.events
          BY <5>1, <4>2, JoinedIs
        <5>. QED
          BY <5>2, <5>3
      <4>6. Within(i, j)
        BY <4>2, <2>1, <2>2, <1>4, <1>5, LongerWithin
      <4>. QED
        BY <4>3, <4>4, <4>5, <4>6, BackedStays DEF Once, Sourced
    <3>. QED
      BY <3>1, <3>2, <3>3
  <2>4. xReq'[e] # None => Requested(xReq'[e], j)
    <3>. SUFFICES ASSUME xReq'[e] # None PROVE Requested(xReq'[e], j)
      OBVIOUS
    <3>1. e # c /\ xReq'[e] = xReq[e] /\ o = xOwn[e]
      BY <2>1, <1>3
    <3>2. PICK i, r : i = Joined(ledger, o) /\ r = xReq[e]
      OBVIOUS
    <3>3. Requested(r, i)
      BY <3>1, <3>2 DEF XpInv, Earning
    <3>4. Within(i, j)
      BY <3>2, <2>1, <2>2, <1>4, <1>5, LongerWithin
    <3>5. \A n \in DOMAIN r.award : Backed(<<r.subject, r.day, r.award[n].source>>, j)
      BY <3>3, <3>4, BackedStays DEF Requested
    <3>. QED
      BY <3>1, <3>2, <3>3, <3>5 DEF Requested
  <2>. QED
    BY <2>1, <2>2, <2>3, <2>4, <1>2 DEF Earning
<1>. QED
  BY <1>2, <1>3, <1>4, <1>5, <1>6 DEF XpInv

LEMMA XpStarts ==
    ASSUME XInit
    PROVE  XpInv
<1>1. PICK o, j : o = Empty /\ j = Joined(o, o)
  OBVIOUS
<1>2. ledger = o /\ xDay = 0 /\ xOwn = [c \in Clients |-> o] /\ xReq = [c \in Clients |-> None]
  BY <1>1 DEF XInit
<1>3. Book(o) /\ o.events = <<>>
  BY <1>1 DEF Empty, Book
<1>4. j.events = <<>>
  <2>1. PICK events \in Seq(Events) : events = o.events
    BY <1>3 DEF Book
  <2>2. Book(o)
    BY <1>3
  <2>3. Chained(j.events, events, o.events)
    BY <2>1, <2>2, <1>1, JoinedIs DEF Chained
  <2>. QED
    BY <2>1, <2>3, <1>3, NothingAdded
<1>5. Once(o) /\ Sourced(o) /\ Once(j) /\ Sourced(j)
  BY <1>3, <1>4 DEF Once, Sourced
<1>6. ASSUME NEW c \in Clients PROVE Book(xOwn[c]) /\ Earning(c)
  <2>1. xOwn[c] = o /\ xReq[c] = None
    BY <1>2
  <2>. QED
    BY <2>1, <1>1, <1>2, <1>3, <1>5 DEF Earning
<1>. QED
  BY <1>2, <1>3, <1>5, <1>6 DEF XpInv

LEMMA XpStep ==
    ASSUME XpAssumption, XpInv, [XNext]_xpVars
    PROVE  XpInv'
<1>1. ASSUME NEW c \in Clients, Ask(c) \/ Expose(c) \/ CreateAnswer(c) \/ ReadCoefficient(c)
                                \/ Award(c) \/ Complete(c) \/ Abort(c)
      PROVE  XpInv'
  BY <1>1, AskKeeps, ExposeKeeps, StoreAnswerKeepsXp, ReadCoefficientKeeps, AwardKeeps,
     FinishKeepsXp, FailKeeps
<1>2. CASE UNCHANGED <<ledger, xOwn, xHolder, xReq>> /\ xDay' \in Nat
  BY <1>2 DEF XpInv, Earning
<1>3. CASE NextDate
  BY <1>2, <1>3 DEF NextDate, XpInv
<1>4. CASE Configure
  BY <1>2, <1>4 DEF Configure, XpInv
<1>5. CASE Disappear
  BY <1>2, <1>5 DEF Disappear, XpInv
<1>6. CASE UNCHANGED xpVars
  BY <1>2, <1>6 DEF xpVars, XpInv
<1>. QED
  BY <1>1, <1>3, <1>4, <1>5, <1>6 DEF XNext

---------------------------------------------------------------------------
(* Experience: levels.  The root is the largest number whose square is no larger, so
   that the level L of q whole coefficients is the one with L*L - L <= 2q < L*L + L.  *)

\* A product grows with its factor.
LEMMA Products ==
    ASSUME NEW a \in Int, NEW b \in Int, NEW c \in Nat, a <= b
    PROVE  c * a <= c * b
<1>1. b - a \in Nat
  OBVIOUS
<1>2. PICK d \in Nat : d = b - a
  BY <1>1
<1>3. c * d \in Nat /\ b = a + d
  BY <1>2
<1>4. c * b = c * a + c * d
  BY <1>3
<1>. QED
  BY <1>3, <1>4

LEMMA RootIs ==
    ASSUME NEW n \in Nat
    PROVE  /\ isqrt(n) \in Nat
           /\ isqrt(n) * isqrt(n) <= n /\ n < (isqrt(n) + 1) * (isqrt(n) + 1)
<1> DEFINE T == {k \in Nat : k * k <= n}
<1>1. \A k \in T : k <= n
  <2>. SUFFICES ASSUME NEW k \in Nat, k * k <= n PROVE k <= n
    OBVIOUS
  <2>1. CASE k = 0
    BY <2>1
  <2>2. CASE k # 0
    <3>1. k * 1 <= k * k
      BY <2>2, Products
    <3>. QED
      BY <3>1
  <2>. QED
    BY <2>1, <2>2
<1>2. 0 \in T /\ T \in SUBSET Nat
  OBVIOUS
<1>3. PICK m \in T : \A k \in T : k <= m
  <2> HIDE DEF T
  <2>. QED
    BY <1>1, <1>2, LargestIn
<1>4. m \in 0 .. n /\ m * m <= n
  BY <1>1, <1>3
<1>5. n < (m + 1) * (m + 1)
  <2>1. m + 1 \notin T
    BY <1>3
  <2>2. m + 1 \in Nat /\ (m + 1) * (m + 1) \in Nat
    BY <1>4
  <2>. QED
    BY <2>1, <2>2
<1> HIDE DEF T
<1>6. \E k \in 0 .. n : k * k <= n /\ n < (k + 1) * (k + 1)
  BY <1>4, <1>5
<1>7. PICK k : k = isqrt(n)
  OBVIOUS
<1>8. k \in 0 .. n /\ k * k <= n /\ n < (k + 1) * (k + 1)
  BY <1>6, <1>7 DEF isqrt
<1>. QED
  BY <1>7, <1>8

LEMMA HalvesOf ==
    ASSUME NEW n \in Nat
    PROVE  \E h \in Nat : h = n \div 2 /\ (n = 2 * h \/ n = 2 * h + 1)
OBVIOUS

\* The level of some points.
LEMMA LevelIs ==
    ASSUME NEW xp \in Nat, NEW coef \in Nat \ {0}
    PROVE  \E q \in Nat, L \in Nat :
              /\ q = xp \div coef /\ L = level_from_xp(xp, coef) /\ 1 <= L
              /\ coef * q <= xp /\ xp < coef * q + coef
              /\ L * L - L <= 2 * q /\ 2 * q < L * L + L
<1>1. PICK q \in Nat : q = xp \div coef /\ coef * q <= xp /\ xp < coef * q + coef
  OBVIOUS
<1>2. PICK k \in Nat : k = isqrt(1 + 8 * q) /\ k * k <= 1 + 8 * q /\ 1 + 8 * q < (k + 1) * (k + 1)
  <2>1. 1 + 8 * q \in Nat
    OBVIOUS
  <2>. QED
    BY <2>1, RootIs
<1>3. PICK L \in Nat : L = (1 + k) \div 2 /\ (1 + k = 2 * L \/ 1 + k = 2 * L + 1)
  <2>1. 1 + k \in Nat
    OBVIOUS
  <2>. QED
    BY <2>1, HalvesOf
<1>4. 1 <= L
  <2>1. k # 0
    BY <1>2
  <2>. QED
    BY <2>1, <1>3
<1>5. L * L - L <= 2 * q
  <2>1. 2 * L - 1 \in Nat /\ 2 * L - 1 <= k
    BY <1>3, <1>4
  <2>2. PICK a \in Nat : a = 2 * L - 1
    BY <2>1
  <2>3. a * a <= a * k /\ k * a <= k * k
    BY <2>1, <2>2, Products
  <2>4. a * k = k * a /\ a * a \in Nat /\ a * k \in Nat /\ k * k \in Nat
    OBVIOUS
  <2>5. a * a <= k * k
    BY <2>3, <2>4
  <2>6. a * a = 4 * (L * L) - 4 * L + 1
    BY <2>2
  <2>7. L * L \in Nat
    OBVIOUS
  <2>. QED
    BY <2>5, <2>6, <2>7, <2>4, <1>2
<1>6. 2 * q < L * L + L
  <2>1. k + 1 <= 2 * L + 1
    BY <1>3
  <2>2. PICK a \in Nat, b \in Nat : a = k + 1 /\ b = 2 * L + 1
    OBVIOUS
  <2>3. a * a <= a * b /\ b * a <= b * b
    BY <2>1, <2>2, Products
  <2>4. a * b = b * a /\ a * a \in Nat /\ a * b \in Nat /\ b * b \in Nat
    OBVIOUS
  <2>5. a * a <= b * b
    BY <2>3, <2>4
  <2>6. b * b = 4 * (L * L) + 4 * L + 1
    BY <2>2
  <2>7. L * L \in Nat /\ 1 + 8 * q < a * a
    BY <1>2, <2>2
  <2>. QED
    BY <2>5, <2>6, <2>7, <2>4
<1>. QED
  BY <1>1, <1>2, <1>3, <1>4, <1>5, <1>6 DEF level_from_xp

\* More points, no lower level; no points, the first level.
LEMMA LevelsRise ==
    ASSUME NEW coef \in Nat \ {0}, NEW m \in Nat, NEW n \in Nat
    PROVE  /\ level_from_xp(m, coef) \in Nat /\ level_from_xp(m, coef) <= level_from_xp(m + n, coef)
           /\ level_from_xp(0, coef) = 1
<1>1. PICK q \in Nat, L \in Nat :
              /\ q = m \div coef /\ L = level_from_xp(m, coef) /\ 1 <= L
              /\ coef * q <= m /\ m < coef * q + coef
              /\ L * L - L <= 2 * q /\ 2 * q < L * L + L
  BY LevelIs
<1>2. PICK p \in Nat, K \in Nat :
              /\ p = (m + n) \div coef /\ K = level_from_xp(m + n, coef) /\ 1 <= K
              /\ coef * p <= m + n /\ m + n < coef * p + coef
              /\ K * K - K <= 2 * p /\ 2 * p < K * K + K
  <2>1. m + n \in Nat
    OBVIOUS
  <2>. QED
    BY <2>1, LevelIs
<1>3. q <= p
  <2>. SUFFICES ASSUME p + 1 <= q PROVE FALSE
    OBVIOUS
  <2>1. coef * (p + 1) <= coef * q
    BY Products
  <2>2. coef * (p + 1) = coef * p + coef /\ coef * p \in Nat /\ coef * q \in Nat
    OBVIOUS
  <2>. QED
    BY <2>1, <2>2, <1>1, <1>2
<1>4. L <= K
  <2>. SUFFICES ASSUME K + 1 <= L PROVE FALSE
    OBVIOUS
  <2>1. PICK d \in Nat : L = K + 1 + d
    <3>1. L - (K + 1) \in Nat /\ L = K + 1 + (L - (K + 1))
      OBVIOUS
    <3>. QED
      BY <3>1
  <2>2. L * L - L = (K * K + K) + (2 * (K * d) + d + d * d)
    BY <2>1
  <2>3. K * d \in Nat /\ d * d \in Nat /\ K * K \in Nat /\ L * L \in Nat
    OBVIOUS
  <2>. QED
    BY <2>2, <2>3, <1>1, <1>2, <1>3
<1>5. level_from_xp(0, coef) = 1
  <2>1. PICK r \in Nat, J \in Nat :
              /\ r = 0 \div coef /\ J = level_from_xp(0, coef) /\ 1 <= J
              /\ coef * r <= 0 /\ 0 < coef * r + coef
              /\ J * J - J <= 2 * r /\ 2 * r < J * J + J
    BY LevelIs
  <2>2. r = 0
    <3>. SUFFICES ASSUME 1 <= r PROVE FALSE
      OBVIOUS
    <3>1. coef * 1 <= coef * r
      BY Products
    <3>. QED
      BY <3>1, <2>1
  <2>3. J <= 1
    <3>. SUFFICES ASSUME 2 <= J PROVE FALSE
      OBVIOUS
    <3>1. J * 2 <= J * J
      BY Products
    <3>2. J * J \in Nat /\ J * 2 = J + J
      OBVIOUS
    <3>. QED
      BY <3>1, <3>2, <2>1, <2>2
  <2>. QED
    BY <2>1, <2>3
<1>. QED
  BY <1>1, <1>2, <1>4, <1>5

\* The points inside a level.
LEMMA PointsInLevel ==
    ASSUME NEW xp \in Nat, NEW coef \in Nat \ {0}
    PROVE  LET L == level_from_xp(xp, coef) IN
           /\ 0 <= xp - level_threshold(L, coef)
           /\ xp - level_threshold(L, coef) < L * coef
<1>1. PICK q \in Nat, L \in Nat :
              /\ q = xp \div coef /\ L = level_from_xp(xp, coef) /\ 1 <= L
              /\ coef * q <= xp /\ xp < coef * q + coef
              /\ L * L - L <= 2 * q /\ 2 * q < L * L + L
  BY LevelIs
<1>2. PICK h \in Nat : L * L - L = 2 * h
  <2>1. PICK a \in Nat : L = 2 * a \/ L = 2 * a + 1
    BY HalvesOf
  <2>2. CASE L = 2 * a
    <3>1. L * L - L = 2 * (2 * (a * a) - a)
      BY <2>2
    <3>2. 2 * (a * a) - a \in Nat
      <4>1. CASE a = 0
        BY <4>1
      <4>2. CASE a # 0
        <5>1. a * 1 <= a * a
          BY <4>2, Products
        <5>2. a * a \in Nat
          OBVIOUS
        <5>. QED
          BY <5>1, <5>2
      <4>. QED
        BY <4>1, <4>2
    <3>. QED
      BY <3>1, <3>2
  <2>3. CASE L = 2 * a + 1
    <3>1. L * L - L = 2 * (2 * (a * a) + a) /\ 2 * (a * a) + a \in Nat
      BY <2>3
    <3>. QED
      BY <3>1
  <2>. QED
    BY <2>1, <2>2, <2>3
<1>3. h <= q /\ q < h + L
  <2>1. L * L \in Nat
    OBVIOUS
  <2>. QED
    BY <2>1, <1>1, <1>2
<1>4. level_threshold(L, coef) = coef * h
  <2>1. coef * L * (L - 1) = coef * (L * L - L)
    OBVIOUS
  <2>2. coef * (2 * h) = 2 * (coef * h) /\ coef * h \in Nat
    OBVIOUS
  <2>3. coef * L * (L - 1) = 2 * (coef * h)
    BY <2>1, <2>2, <1>2
  <2>4. \A n \in Nat : (2 * n) \div 2 = n
    OBVIOUS
  <2>. QED
    BY <2>2, <2>3, <2>4 DEF level_threshold
<1>5. coef * h <= coef * q
  BY <1>3, Products
<1>6. coef * q + coef <= coef * h + coef * L
  <2>1. q + 1 <= h + L
    BY <1>3
  <2>2. coef * (q + 1) <= coef * (h + L)
    BY <2>1, Products
  <2>3. coef * (q + 1) = coef * q + coef /\ coef * (h + L) = coef * h + coef * L
    OBVIOUS
  <2>. QED
    BY <2>2, <2>3
<1>7. coef * h \in Nat /\ coef * q \in Nat /\ coef * L \in Nat /\ L * coef = coef * L
  OBVIOUS
<1>8. 0 <= xp - coef * h /\ xp - coef * h < L * coef
  BY <1>1, <1>5, <1>6, <1>7
<1>. QED
  BY <1>8, <1>4, <1>1

---------------------------------------------------------------------------
(* Experience: sums, by induction over the positions of a list.                  *)

\* A set of numbers with 0 and every successor is all of them.
LEMMA CountingUp ==
    ASSUME NEW T \in SUBSET Nat, 0 \in T, \A n \in T : n + 1 \in T
    PROVE  T = Nat
<1> DEFINE R == OpToRel(<, Nat)
           D == Nat \ T
<1>. SUFFICES ASSUME D # {} PROVE FALSE
  OBVIOUS
<1>1. PICK d \in D : \A e \in D : ~ (<<e, d>> \in R)
  <2>1. D \subseteq Nat
    OBVIOUS
  <2>2. IsWellFoundedOn(R, Nat)
    BY NatLessThanWellFounded, Zenon
  <2> HIDE DEF R, D
  <2>. QED
    BY <2>1, <2>2, WFMin
<1>2. d \in Nat /\ d # 0
  OBVIOUS
<1>3. d - 1 \in Nat /\ d - 1 < d
  BY <1>2
<1>4. d - 1 \in T
  BY <1>1, <1>3, <1>2 DEF OpToRel
<1>. QED
  BY <1>4, <1>2

\* The function by which SumXp adds up.
Counts(event, of) == IF of \in {"user", event.resource} THEN event.xp ELSE 0
AddsUp(s, of, f) ==
    f = [n \in 0 .. Len(s) |->
          IF n = 0 THEN 0 ELSE f[n - 1] + IF of \in {"user", s[n].resource} THEN s[n].xp ELSE 0]
SumStep(s, of, f, n) == f[n] = f[n - 1] + Counts(s[n], of)

LEMMA CountsIs ==
    ASSUME NEW s \in Seq(Events), NEW of, NEW n \in 1 .. Len(s)
    PROVE  Counts(s[n], of) \in Nat
<1>1. s[n] \in Events
  OBVIOUS
<1>. QED
  BY <1>1 DEF Events, Counts

LEMMA AddsUpIs ==
    ASSUME NEW s \in Seq(Events), NEW of, NEW f, AddsUp(s, of, f)
    PROVE  /\ f[0] = 0 /\ \A n \in 1 .. Len(s) : SumStep(s, of, f, n)
           /\ \A n \in 0 .. Len(s) : f[n] \in Nat
<1>0. Len(s) \in Nat
  OBVIOUS
<1>1. f[0] = 0
  <2>1. 0 \in 0 .. Len(s)
    BY <1>0
  <2>. QED
    BY <2>1, Zenon DEF AddsUp
<1>2. ASSUME NEW n \in 1 .. Len(s) PROVE SumStep(s, of, f, n)
  <2>1. n \in 0 .. Len(s) /\ n # 0
    BY <1>0
  <2>. QED
    BY <2>1, Zenon DEF AddsUp, SumStep, Counts
<1> DEFINE K == {n \in Nat : n <= Len(s) => f[n] \in Nat}
<1>3. 0 \in K
  BY <1>1
<1>4. ASSUME NEW n \in K PROVE n + 1 \in K
  <2>. SUFFICES ASSUME n + 1 <= Len(s) PROVE f[n + 1] \in Nat
    OBVIOUS
  <2>1. n + 1 \in 1 .. Len(s) /\ f[n] \in Nat /\ (n + 1) - 1 = n
    BY <1>0
  <2>2. f[n + 1] = f[n] + Counts(s[n + 1], of)
    BY <2>1, <1>2 DEF SumStep
  <2>3. Counts(s[n + 1], of) \in Nat
    BY <2>1, CountsIs
  <2>. QED
    BY <2>1, <2>2, <2>3
<1>5. K = Nat
  <2>1. K \in SUBSET Nat
    OBVIOUS
  <2> HIDE DEF K
  <2>. QED
    BY <2>1, <1>3, <1>4, CountingUp
<1>6. \A n \in 0 .. Len(s) : f[n] \in Nat
  BY <1>0, <1>5
<1>. QED
  BY <1>1, <1>2, <1>6

\* There is one.
LEMMA SumXpIs ==
    ASSUME NEW s \in Seq(Events), NEW of
    PROVE  \E f : AddsUp(s, of, f) /\ SumXp(s, of) = f[Len(s)]
<1> DEFINE Upto(n, f) == f[0] = 0 /\ \A i \in 1 .. n : SumStep(s, of, f, i)
           H == {n \in Nat : n <= Len(s) => \E f \in [0 .. n -> Nat] : Upto(n, f)}
<1>0. Len(s) \in Nat /\ H \in SUBSET Nat
  OBVIOUS
<1>1. 0 \in H
  <2> DEFINE f == [i \in 0 .. 0 |-> 0]
  <2>1. f \in [0 .. 0 -> Nat] /\ f[0] = 0
    OBVIOUS
  <2>2. \A i \in 1 .. 0 : FALSE
    OBVIOUS
  <2> HIDE DEF f
  <2>3. Upto(0, f)
    BY <2>1, <2>2, Zenon
  <2>. QED
    BY <2>1, <2>3
<1>2. ASSUME NEW n \in H PROVE n + 1 \in H
  <2>. SUFFICES ASSUME n + 1 <= Len(s) PROVE \E f \in [0 .. n + 1 -> Nat] : Upto(n + 1, f)
    <3>1. n + 1 \in Nat
      BY <1>0
    <3>. QED
      BY <3>1, Zenon
  <2>0. n \in Nat /\ n <= Len(s) /\ n + 1 \in 1 .. Len(s) /\ (n + 1) - 1 = n
    BY <1>0
  <2>1. PICK f \in [0 .. n -> Nat] : Upto(n, f)
    BY <2>0, Zenon
  <2> DEFINE top == f[n] + Counts(s[n + 1], of)
             g == [i \in 0 .. n + 1 |-> IF i = n + 1 THEN top ELSE f[i]]
  <2>2. top \in Nat
    <3>1. f[n] \in Nat
      BY <2>0
    <3>2. Counts(s[n + 1], of) \in Nat
      BY <2>0, CountsIs
    <3>. QED
      BY <3>1, <3>2
  <2>3. g \in [0 .. n + 1 -> Nat] /\ g[n + 1] = top /\ \A i \in 0 .. n : g[i] = f[i]
    <3> HIDE DEF top
    <3>. QED
      BY <2>0, <2>2
  <2>4. SumStep(s, of, g, n + 1)
    <3>1. g[n] = f[n]
      BY <2>0, <2>3
    <3> HIDE DEF g
    <3>. QED
      BY <2>0, <2>3, <3>1 DEF SumStep
  <2>5. ASSUME NEW i \in 1 .. n PROVE SumStep(s, of, g, i)
    <3>1. g[i] = f[i] /\ g[i - 1] = f[i - 1] 
      <4>1. i \in 0 .. n /\ i - 1 \in 0 .. n
        BY <2>0
      <4> HIDE DEF g
      <4>. QED
        BY <4>1, <2>3
    <3>2. SumStep(s, of, f, i)
      BY <2>1, Zenon
    <3> HIDE DEF g
    <3>. QED
      BY <3>1, <3>2 DEF SumStep
  <2>6. \A i \in 1 .. n + 1 : i \in 1 .. n \/ i = n + 1
    BY <2>0
  <2>7. g[0] = 0
    <3>1. 0 \in 0 .. n
      BY <2>0
    <3> HIDE DEF g
    <3>. QED
      BY <3>1, <2>1, <2>3
  <2> HIDE DEF g
  <2>8. Upto(n + 1, g)
    BY <2>4, <2>5, <2>6, <2>7, Zenon
  <2>. QED
    BY <2>3, <2>8
<1>3. Len(s) \in H
  <2> HIDE DEF H
  <2>1. H = Nat
    BY <1>0, <1>1, <1>2, CountingUp
  <2>. QED
    BY <1>0, <2>1
<1>4. PICK f \in [0 .. Len(s) -> Nat] : Upto(Len(s), f)
  <2>1. Len(s) <= Len(s)
    BY <1>0
  <2>. QED
    BY <1>3, <2>1, Zenon
<1>5. AddsUp(s, of, f)
  <2>1. \A i \in 0 .. Len(s) : i # 0 => i \in 1 .. Len(s)
    BY <1>0
  <2>2. \A i \in 0 .. Len(s) :
          f[i] = IF i = 0 THEN 0 ELSE f[i - 1] + IF of \in {"user", s[i].resource} THEN s[i].xp ELSE 0
    BY <1>4, <2>1, Zenon DEF SumStep, Counts
  <2>3. f = [i \in 0 .. Len(s) |-> f[i]]
    OBVIOUS
  <2>. QED
    BY <2>2, <2>3, Zenon DEF AddsUp
<1>. QED
  BY <1>5, Zenon DEF SumXp, AddsUp

\* Sums are numbers; nothing adds up to 0; one more event adds what it counts.
LEMMA SumsUp ==
    ASSUME NEW s \in Seq(Events), NEW of
    PROVE  /\ SumXp(s, of) \in Nat /\ (s = <<>> => SumXp(s, of) = 0)
           /\ \A e \in Events : /\ Counts(e, of) \in Nat
                                /\ SumXp(Append(s, e), of) = SumXp(s, of) + Counts(e, of)
<1>0. Len(s) \in Nat
  OBVIOUS
<1>1. PICK f : AddsUp(s, of, f) /\ SumXp(s, of) = f[Len(s)]
  BY SumXpIs
<1>2. /\ f[0] = 0 /\ \A n \in 1 .. Len(s) : SumStep(s, of, f, n)
      /\ \A n \in 0 .. Len(s) : f[n] \in Nat
  BY <1>1, AddsUpIs
<1>3. SumXp(s, of) \in Nat
  BY <1>0, <1>1, <1>2
<1>4. s = <<>> => SumXp(s, of) = 0
  BY <1>1, <1>2
<1>5. ASSUME NEW e \in Events
      PROVE  Counts(e, of) \in Nat /\ SumXp(Append(s, e), of) = SumXp(s, of) + Counts(e, of)
  <2>1. PICK w \in Seq(Events) : w = Append(s, e) /\ Len(w) = Len(s) + 1
    <3>1. Append(s, e) \in Seq(Events) /\ Len(Append(s, e)) = Len(s) + 1
      OBVIOUS
    <3>. QED
      BY <3>1
  <2>2. w[Len(s) + 1] = e /\ \A n \in 1 .. Len(s) : w[n] = s[n]
    BY <2>1
  <2>3. PICK g : AddsUp(w, of, g) /\ SumXp(w, of) = g[Len(w)]
    BY SumXpIs
  <2>4. /\ g[0] = 0 /\ \A n \in 1 .. Len(w) : SumStep(w, of, g, n)
        /\ \A n \in 0 .. Len(w) : g[n] \in Nat
    BY <2>3, AddsUpIs
  <2> DEFINE K == {n \in Nat : n <= Len(s) => g[n] = f[n]}
  <2>5. 0 \in K
    BY <1>2, <2>4
  <2>6. ASSUME NEW n \in K PROVE n + 1 \in K
    <3>. SUFFICES ASSUME n + 1 <= Len(s) PROVE g[n + 1] = f[n + 1]
      OBVIOUS
    <3>1. n + 1 \in 1 .. Len(s) /\ n + 1 \in 1 .. Len(w) /\ g[n] = f[n] /\ (n + 1) - 1 = n
      BY <1>0, <2>1
    <3>2. g[n + 1] = g[n] + Counts(w[n + 1], of)
      BY <3>1, <2>4 DEF SumStep
    <3>3. f[n + 1] = f[n] + Counts(s[n + 1], of)
      BY <3>1, <1>2 DEF SumStep
    <3>. QED
      BY <3>1, <3>2, <3>3, <2>2
  <2>7. K = Nat
    <3>1. K \in SUBSET Nat
      OBVIOUS
    <3> HIDE DEF K
    <3>. QED
      BY <3>1, <2>5, <2>6, CountingUp
  <2>8. g[Len(s)] = f[Len(s)]
    BY <1>0, <2>7
  <2>9. g[Len(s) + 1] = g[Len(s)] + Counts(e, of)
    <3>1. Len(s) + 1 \in 1 .. Len(w) /\ (Len(s) + 1) - 1 = Len(s)
      BY <1>0, <2>1
    <3>. QED
      BY <3>1, <2>2, <2>4 DEF SumStep
  <2>10. Counts(e, of) \in Nat
    BY DEF Counts, Events
  <2>. QED
    BY <2>1, <2>3, <2>8, <2>9, <2>10, <1>1
<1>. QED
  BY <1>3, <1>4, <1>5

---------------------------------------------------------------------------
(* Experience: the notices of the levels.                                        *)

\* The user and the resources; what is told of them; the places where it is told.
Whose == {"user"} \cup {ResourceOf[s] : s \in Subjects}
LevelNotes == [of : Whose, from : Nat, to : Nat]
Mine(told, of, n) == {m \in 1 .. n : told[m].of = of}

\* The last notice of the first n tells the level; without one it is the first.
LastTold(told, of, n) ==
    \/ Mine(told, of, n) = {} /\ LevelTold(told, of, n) = 1
    \/ \E k \in Mine(told, of, n) : /\ \A m \in Mine(told, of, n) : m <= k
                                    /\ LevelTold(told, of, n) = told[k].to
LEMMA ToldIs ==
    ASSUME NEW told \in Seq(LevelNotes), NEW of, NEW n \in 0 .. Len(told)
    PROVE  LastTold(told, of, n)
<1>0. Len(told) \in Nat /\ n \in Nat
  OBVIOUS
<1>1. CASE Mine(told, of, n) = {}
  BY <1>1 DEF LevelTold, Mine, LastTold
<1>2. CASE Mine(told, of, n) # {}
  <2>1. PICK S : S = Mine(told, of, n)
    OBVIOUS
  <2>2. S \in SUBSET Nat /\ \A m \in S : m <= n
    BY <1>0, <2>1 DEF Mine
  <2>3. \E k \in S : \A m \in S : m <= k
    BY <1>0, <1>2, <2>1, <2>2, LargestIn
  <2>4. PICK k : k = Max(S)
    OBVIOUS
  <2>5. \E y \in S : \A m \in S : y >= m
    BY <2>2, <2>3
  <2>6. k \in S /\ \A m \in S : k >= m
    BY <2>4, <2>5 DEF Max
  <2>7. LevelTold(told, of, n) = told[k].to
    BY <1>2, <2>1, <2>4 DEF LevelTold, Mine
  <2>. QED
    BY <2>1, <2>2, <2>6, <2>7 DEF LastTold
<1>. QED
  BY <1>1, <1>2

\* One notice more: what was told stays told, and of its own it tells the new level.
OneMore(told, x, w) == w = Append(told, x)
ToldBy(told, x, w, of) ==
    /\ \A n \in 0 .. Len(told) : LevelTold(w, of, n) = LevelTold(told, of, n)
    /\ x.of # of => LevelTold(w, of, Len(w)) = LevelTold(told, of, Len(told))
    /\ x.of = of => LevelTold(w, of, Len(w)) = x.to
LEMMA ToldStays ==
    ASSUME NEW told \in Seq(LevelNotes), NEW x \in LevelNotes, NEW w, OneMore(told, x, w), NEW of
    PROVE  w \in Seq(LevelNotes) /\ ToldBy(told, x, w, of)
<1>1. /\ w \in Seq(LevelNotes) /\ Len(w) = Len(told) + 1 /\ Len(told) \in Nat
      /\ \A n \in 1 .. Len(told) : w[n] = told[n]
      /\ w[Len(told) + 1] = x
  BY DEF OneMore
<1>2. \A n \in 0 .. Len(told) : Mine(w, of, n) = Mine(told, of, n)
  BY <1>1 DEF Mine
<1>3. \A n \in 0 .. Len(told) : LevelTold(w, of, n) = LevelTold(told, of, n)
  <2>. SUFFICES ASSUME NEW n \in 0 .. Len(told) PROVE LevelTold(w, of, n) = LevelTold(told, of, n)
    OBVIOUS
  <2>1. PICK S : S = Mine(told, of, n) /\ S = Mine(w, of, n)
    BY <1>2
  <2>2. CASE S = {}
    BY <2>1, <2>2 DEF LevelTold, Mine
  <2>3. CASE S # {}
    <3>1. \E k \in S : \A m \in S : m <= k
      BY <2>1, <2>3, ToldIs DEF LastTold
    <3>2. S \in SUBSET (1 .. Len(told))
      BY <2>1, <1>1 DEF Mine
    <3>3. \E k \in S : \A m \in S : k >= m
      BY <3>1, <3>2, <1>1
    <3>4. Max(S) \in S
      BY <3>3 DEF Max
    <3>5. LevelTold(w, of, n) = w[Max(S)].to /\ LevelTold(told, of, n) = told[Max(S)].to
      BY <2>1, <2>3 DEF LevelTold, Mine
    <3>6. w[Max(S)] = told[Max(S)]
      BY <3>2, <3>4, <1>1
    <3>. QED
      BY <3>5, <3>6
  <2>. QED
    BY <2>2, <2>3
<1>4. ASSUME x.of # of PROVE LevelTold(w, of, Len(w)) = LevelTold(told, of, Len(told))
  <2>1. Mine(w, of, Len(w)) = Mine(w, of, Len(told))
    <3>1. \A m \in 1 .. Len(w) : m \in 1 .. Len(told) \/ m = Len(told) + 1
      BY <1>1
    <3>2. \A m \in 1 .. Len(told) : m \in 1 .. Len(w)
      BY <1>1
    <3>. QED
      BY <3>1, <3>2, <1>1, <1>4 DEF Mine
  <2>2. LevelTold(w, of, Len(w)) = LevelTold(w, of, Len(told))
    BY <2>1 DEF LevelTold, Mine
  <2>3. Len(told) \in 0 .. Len(told)
    BY <1>1
  <2>. QED
    BY <2>2, <2>3, <1>3
<1>5. ASSUME x.of = of PROVE LevelTold(w, of, Len(w)) = x.to
  <2>1. Len(told) + 1 \in Mine(w, of, Len(w)) /\ Len(w) \in 0 .. Len(w)
    BY <1>1, <1>5 DEF Mine
  <2>2. PICK k \in Mine(w, of, Len(w)) : /\ \A m \in Mine(w, of, Len(w)) : m <= k
                                         /\ LevelTold(w, of, Len(w)) = w[k].to
    <3>1. LastTold(w, of, Len(w))
      BY <2>1, <1>1, ToldIs
    <3>. QED
      BY <3>1, <2>1 DEF LastTold
  <2>3. k \in 1 .. Len(told) + 1 /\ Len(told) + 1 <= k
    BY <2>1, <2>2, <1>1 DEF Mine
  <2>4. k = Len(told) + 1
    BY <2>3, <1>1
  <2>. QED
    BY <2>2, <2>4, <1>1
<1>. QED
  BY <1>1, <1>3, <1>4, <1>5 DEF ToldBy

\* The notices still lead from level to level.
LEMMA Links ==
    ASSUME NEW told \in Seq(LevelNotes), NEW x \in LevelNotes, NEW w, OneMore(told, x, w), NEW of, Linked(told, of),
           x.of = of => x.from = LevelTold(told, of, Len(told)) /\ x.from < x.to
    PROVE  Linked(w, of)
<1>1. /\ w \in Seq(LevelNotes) /\ Len(w) = Len(told) + 1 /\ Len(told) \in Nat
      /\ \A n \in 1 .. Len(told) : w[n] = told[n]
      /\ w[Len(told) + 1] = x
  BY DEF OneMore
<1>2. \A n \in 0 .. Len(told) : LevelTold(w, of, n) = LevelTold(told, of, n)
  <2>1. ToldBy(told, x, w, of)
    BY ToldStays
  <2>. QED
    BY <2>1 DEF ToldBy
<1>3. ASSUME NEW n \in DOMAIN w, w[n].of = of
      PROVE  w[n].from = LevelTold(w, of, n - 1) /\ w[n].from < w[n].to
  <2>1. CASE n \in 1 .. Len(told)
    <3>1. n \in DOMAIN told /\ n - 1 \in 0 .. Len(told) /\ w[n] = told[n]
      BY <2>1, <1>1
    <3>2. told[n].from = LevelTold(told, of, n - 1) /\ told[n].from < told[n].to
      BY <3>1, <1>3 DEF Linked
    <3>. QED
      BY <3>1, <3>2, <1>2
  <2>2. CASE n = Len(told) + 1
    <3>1. n - 1 = Len(told) /\ Len(told) \in 0 .. Len(told) /\ w[n] = x
      BY <2>2, <1>1
    <3>. QED
      BY <3>1, <1>2, <1>3
  <2>. QED
    BY <2>1, <2>2, <1>1
<1>. QED
  BY <1>3 DEF Linked

\* What the notices say, and that it is what the points amount to.
Tells(events, told, of, coef) ==
    /\ Linked(told, of)
    /\ level_from_xp(SumXp(events, of), coef) = LevelTold(told, of, Len(told))

\* The notices that adding xp calls for: of who they tell the new level, of others nothing.
Lifted(told, who, before, xp, coef, w) == w = told \o LevelNotices(who, before, xp, coef)
Unspoken(told, w, of) ==
    Linked(told, of) => Linked(w, of) /\ LevelTold(w, of, Len(w)) = LevelTold(told, of, Len(told))
Lifts(told, w, who, before, xp, coef) ==
    Linked(told, who) /\ level_from_xp(before, coef) = LevelTold(told, who, Len(told))
       => /\ Linked(w, who) /\ level_from_xp(before + xp, coef) = LevelTold(w, who, Len(w))
LEMMA NoticesTell ==
    ASSUME NEW told \in Seq(LevelNotes), NEW who \in Whose, NEW before \in Nat, NEW xp \in Nat,
           NEW coef \in Nat \ {0}, NEW w, Lifted(told, who, before, xp, coef, w)
    PROVE  /\ w \in Seq(LevelNotes) /\ \A of \in Whose \ {who} : Unspoken(told, w, of)
           /\ Lifts(told, w, who, before, xp, coef)
<1>1. PICK from \in Nat, to \in Nat : /\ from = level_from_xp(before, coef)
                                      /\ to = level_from_xp(before + xp, coef) /\ from <= to
  <2>1. before + xp \in Nat
    OBVIOUS
  <2>. QED
    BY <2>1, LevelsRise
<1>2. PICK x : x = [of |-> who, from |-> from, to |-> to]
  OBVIOUS
<1>3. x \in LevelNotes /\ x.of = who /\ x.from = from /\ x.to = to
  BY <1>2 DEF LevelNotes
<1>4. CASE to > from
  <2>1. LevelNotices(who, before, xp, coef) = <<x>>
    BY <1>1, <1>2, <1>4 DEF LevelNotices
  <2>2. OneMore(told, x, w)
    BY <2>1, <1>3 DEF OneMore, Lifted
  <2>3. w \in Seq(LevelNotes) /\ \A of : ToldBy(told, x, w, of)
    BY <2>2, <1>3, ToldStays
  <2>4. ASSUME NEW of \in Whose \ {who} PROVE Unspoken(told, w, of)
    <3>1. x.of # of
      BY <1>3
    <3>2. Linked(told, of) => Linked(w, of)
      BY <3>1, <2>2, <1>3, Links
    <3>. QED
      BY <3>1, <3>2, <2>3 DEF Unspoken, ToldBy
  <2>5. LevelTold(w, who, Len(w)) = to
    BY <2>3, <1>3 DEF ToldBy
  <2>6. Linked(told, who) /\ from = LevelTold(told, who, Len(told)) => Linked(w, who)
    BY <2>2, <1>3, <1>4, Links
  <2>. QED
    BY <2>3, <2>4, <2>5, <2>6, <1>1 DEF Lifts
<1>5. CASE ~(to > from)
  <2>1. LevelNotices(who, before, xp, coef) = <<>>
    BY <1>1, <1>5 DEF LevelNotices
  <2>2. w = told /\ from = to
    BY <2>1, <1>1, <1>5 DEF Lifted
  <2>. QED
    BY <2>2, <1>1 DEF Lifts, Unspoken
<1>. QED
  BY <1>4, <1>5

\* The notices of an event: of the user, and of its resource.
LEMMA EventTells ==
    ASSUME NEW events \in Seq(Events), NEW event \in Events, NEW told \in Seq(LevelNotes), NEW coef \in Nat \ {0},
           NEW res \in Whose, NEW xp \in Nat, event.resource = res, event.xp = xp, res # "user",
           \A of \in Whose : Tells(events, told, of, coef), NEW v, NEW w,
           Lifted(told, "user", SumXp(events, "user"), xp, coef, v),
           Lifted(v, res, SumXp(events, res), xp, coef, w)
    PROVE  w \in Seq(LevelNotes) /\ \A of \in Whose : Tells(Append(events, event), w, of, coef)
<1>1. "user" \in Whose
  BY DEF Whose
<1>2. PICK a \in Nat, b \in Nat : a = SumXp(events, "user") /\ b = SumXp(events, res)
  BY SumsUp
<1>3. v \in Seq(LevelNotes) /\ (\A of \in Whose \ {"user"} : Unspoken(told, v, of)) /\ Lifts(told, v, "user", a, xp, coef)
  BY <1>1, <1>2, NoticesTell
<1>4. w \in Seq(LevelNotes) /\ (\A of \in Whose \ {res} : Unspoken(v, w, of)) /\ Lifts(v, w, res, b, xp, coef)
  BY <1>2, <1>3, NoticesTell
<1>8. ASSUME NEW of \in Whose PROVE Tells(Append(events, event), w, of, coef)
  <2>1. PICK sum \in Nat, more \in Nat :
           /\ sum = SumXp(events, of) /\ more = Counts(event, of)
           /\ SumXp(Append(events, event), of) = sum + more
    BY SumsUp
  <2>2. more = IF of \in {"user", res} THEN xp ELSE 0
    BY <2>1 DEF Counts
  <2>3. Linked(told, of) /\ level_from_xp(sum, coef) = LevelTold(told, of, Len(told))
    BY <2>1 DEF Tells
  <2>4. CASE of = "user"
    <3>1. Linked(v, of) /\ level_from_xp(sum + xp, coef) = LevelTold(v, of, Len(v))
      BY <1>2, <1>3, <2>1, <2>3, <2>4 DEF Lifts
    <3>2. Linked(w, of) /\ LevelTold(w, of, Len(w)) = LevelTold(v, of, Len(v))
      BY <3>1, <1>4, <2>4 DEF Unspoken
    <3>. QED
      BY <3>1, <3>2, <2>1, <2>2, <2>4 DEF Tells
  <2>5. CASE of = res
    <3>1. Linked(v, of) /\ LevelTold(v, of, Len(v)) = LevelTold(told, of, Len(told))
      BY <1>3, <2>3, <2>5 DEF Unspoken
    <3>2. Linked(w, of) /\ level_from_xp(sum + xp, coef) = LevelTold(w, of, Len(w))
      BY <3>1, <1>2, <1>4, <2>1, <2>3, <2>5 DEF Lifts
    <3>. QED
      BY <3>2, <2>1, <2>2, <2>5 DEF Tells
  <2>6. CASE of \notin {"user", res}
    <3>1. Linked(v, of) /\ LevelTold(v, of, Len(v)) = LevelTold(told, of, Len(told))
      BY <1>3, <2>3, <2>6 DEF Unspoken
    <3>2. Linked(w, of) /\ LevelTold(w, of, Len(w)) = LevelTold(v, of, Len(v))
      BY <3>1, <1>4, <2>6 DEF Unspoken
    <3>3. sum + more = sum
      BY <2>2, <2>6
    <3>. QED
      BY <3>1, <3>2, <3>3, <2>1, <2>3 DEF Tells
  <2>. QED
    BY <2>4, <2>5, <2>6
<1>. QED
  BY <1>4, <1>8

---------------------------------------------------------------------------
(* Experience: what is invariant of the notices.  What a request sees, committed or
   its own, tells the level its points amount to.                                *)

\* What anybody who sees these events and notices would find.
Telling(events, told) == settings = 0 => \A of \in Whose : Tells(events, told, of, coefficient)
Pending(c) ==
    /\ xOwn[c].told \in Seq(LevelNotes) /\ (c # xHolder => xOwn[c].told = <<>>)
    /\ Telling(ledger.events \o xOwn[c].events, ledger.told \o xOwn[c].told)
    /\ xReq[c] # None /\ xReq[c].at = "award"
         => xReq[c].coef \in Nat \ {0} /\ (settings = 0 => xReq[c].coef = coefficient)
TellInv ==
    /\ settings \in Nat /\ coefficient \in Nat \ {0}
    /\ ledger.told \in Seq(LevelNotes) /\ Telling(ledger.events, ledger.told)
    /\ \A c \in Clients : Pending(c)

\* What a list joined with nothing is.
LEMMA JoinedWithNone ==
    ASSUME NEW T, NEW u \in Seq(T)
    PROVE  u \o <<>> = u
OBVIOUS

\* A step that writes neither events nor notices, or drops what was written.
Undisturbed(c) ==
    /\ \/ xOwn'[c].events = xOwn[c].events /\ xOwn'[c].told = xOwn[c].told
       \/ xOwn'[c].events = <<>> /\ xOwn'[c].told = <<>>
    /\ c # xHolder' => c # xHolder \/ xOwn'[c].told = <<>>
    /\ \/ xReq'[c] = xReq[c]
       \/ xReq'[c] # None /\ xReq'[c].at = "award" => xReq'[c].coef = coefficient
LEMMA TellFrame ==
    ASSUME XpInv, TellInv, UNCHANGED <<settings, coefficient, ledger>>, \A c \in Clients : Undisturbed(c)
    PROVE  TellInv'
<1>1. ledger.events \in Seq(Events) /\ ledger.told \in Seq(LevelNotes)
  BY DEF XpInv, TellInv, Book
<1>2. ASSUME NEW c \in Clients PROVE Pending(c)'
  <2>0. Pending(c) /\ Undisturbed(c)
    BY DEF TellInv
  <2>1. CASE xOwn'[c].events = xOwn[c].events /\ xOwn'[c].told = xOwn[c].told
    <3>1. Telling(ledger.events \o xOwn[c].events, ledger.told \o xOwn[c].told)'
      BY <2>0, <2>1 DEF Pending, Telling
    <3>2. xOwn'[c].told \in Seq(LevelNotes) /\ (c # xHolder' => xOwn'[c].told = <<>>)
      BY <2>0, <2>1 DEF Pending, Undisturbed
    <3>3. xReq'[c] # None /\ xReq'[c].at = "award"
            => xReq'[c].coef \in Nat \ {0} /\ (settings' = 0 => xReq'[c].coef = coefficient')
      BY <2>0 DEF Pending, Undisturbed, TellInv
    <3>. QED
      BY <3>1, <3>2, <3>3 DEF Pending
  <2>2. CASE xOwn'[c].events = <<>> /\ xOwn'[c].told = <<>>
    <3>1. ledger.events \o <<>> = ledger.events /\ ledger.told \o <<>> = ledger.told
      BY <1>1, JoinedWithNone
    <3>2. Telling(ledger.events, ledger.told)
      BY DEF TellInv
    <3>3. Telling(ledger.events \o xOwn[c].events, ledger.told \o xOwn[c].told)'
      BY <2>2, <3>1, <3>2 DEF Telling
    <3>4. xOwn'[c].told \in Seq(LevelNotes)
      BY <2>2
    <3>5. xReq'[c] # None /\ xReq'[c].at = "award"
            => xReq'[c].coef \in Nat \ {0} /\ (settings' = 0 => xReq'[c].coef = coefficient')
      BY <2>0 DEF Pending, Undisturbed, TellInv
    <3>. QED
      BY <2>2, <3>3, <3>4, <3>5 DEF Pending
  <2>. QED
    BY <2>0, <2>1, <2>2 DEF Undisturbed
<1>3. Telling(ledger.events, ledger.told)'
  BY DEF TellInv, Telling
<1>. QED
  BY <1>2, <1>3 DEF TellInv

\* Of a request that goes on as r, with what it has written now in o.
LEMMA OthersKept ==
    ASSUME XpInv, NEW c \in Clients, NEW o, NEW r,
           xOwn' = [xOwn EXCEPT ![c] = o], xReq' = [xReq EXCEPT ![c] = r]
    PROVE  /\ xOwn'[c] = o /\ xReq'[c] = r
           /\ \A e \in Clients \ {c} : xOwn'[e] = xOwn[e] /\ xReq'[e] = xReq[e]
BY DEF XpInv

LEMMA AskTells ==
    ASSUME XpInv, TellInv, NEW c \in Clients, Ask(c)
    PROVE  TellInv'
<1>1. PICK r : xReq' = [xReq EXCEPT ![c] = r] /\ r.at # "award"
  <2>1. PICK s \in Subjects, correct \in BOOLEAN :
           Goes(c, [at |-> IF IsQuiz[s] THEN "answer" ELSE "expose", subject |-> s, correct |-> correct,
                    day |-> xDay, award |-> <<>>, coef |-> None])
    BY DEF Ask
  <2>2. PICK at \in {"answer", "expose"} : at = IF IsQuiz[s] THEN "answer" ELSE "expose"
    OBVIOUS
  <2>3. PICK r : r = [at |-> at, subject |-> s, correct |-> correct, day |-> xDay, award |-> <<>>, coef |-> None]
    OBVIOUS
  <2>4. r.at # "award"
    BY <2>2, <2>3
  <2>. QED
    BY <2>1, <2>2, <2>3, <2>4 DEF Goes
<1>2. UNCHANGED <<settings, coefficient, ledger, xOwn, xHolder>>
  BY DEF Ask
<1>3. \A e \in Clients : Undisturbed(e)
  BY <1>1, <1>2 DEF Undisturbed, XpInv
<1>. QED
  BY <1>2, <1>3, TellFrame

LEMMA ExposeTells ==
    ASSUME XpInv, TellInv, NEW c \in Clients, Expose(c)
    PROVE  TellInv'
<1>1. UNCHANGED <<settings, coefficient, ledger, xHolder>>
  BY DEF Expose, Rest
<1>2. xReq[c] # None /\ xReq[c].at = "expose" /\ Requested(xReq[c], Joined(ledger, xOwn[c]))
  BY DEF Expose, NowAt, XpInv, Earning
<1>3. PICK s : xReq' = [xReq EXCEPT ![c] = s] /\ s.at # "award"
  <2>1. PICK award :
           \/ xReq' = [xReq EXCEPT ![c] = [xReq[c] EXCEPT !.at = "fail"]]
           \/ xReq' = [xReq EXCEPT ![c] = [xReq[c] EXCEPT !.at = "next", !.award = award]]
    BY DEF Expose, Goes
  <2>2. PICK r, f, g : /\ r = xReq[c] /\ f = [r EXCEPT !.at = "fail"]
                       /\ g = [r EXCEPT !.at = "next", !.award = award]
    OBVIOUS
  <2>3. f.at # "award" /\ g.at # "award"
    BY <1>2, <2>2 DEF Requested
  <2>. QED
    BY <2>1, <2>2, <2>3
<1>4. xOwn'[c].events = xOwn[c].events /\ xOwn'[c].told = xOwn[c].told
  <2>1. PICK b, list, o : /\ b = xOwn[c] /\ o = [b EXCEPT !.seen = list]
                          /\ xOwn' = xOwn \/ xOwn' = [xOwn EXCEPT ![c] = o]
    BY DEF Expose, Records
  <2>2. Book(b) /\ (xOwn'[c] = b \/ xOwn'[c] = o)
    BY <2>1 DEF XpInv
  <2>3. o.events = b.events /\ o.told = b.told
    BY <2>1, <2>2 DEF Book
  <2>. QED
    BY <2>1, <2>2, <2>3
<1>5. \A e \in Clients \ {c} : xOwn'[e] = xOwn[e]
  BY DEF Expose, Records, XpInv
<1>6. \A e \in Clients : Undisturbed(e)
  BY <1>1, <1>3, <1>4, <1>5 DEF Undisturbed, XpInv
<1>. QED
  BY <1>1, <1>6, TellFrame

LEMMA AnswerTells ==
    ASSUME XpInv, TellInv, NEW c \in Clients, CreateAnswer(c)
    PROVE  TellInv'
<1>1. UNCHANGED <<settings, coefficient, ledger, xHolder>>
  BY DEF CreateAnswer, Rest
<1>2. xReq[c] # None /\ xReq[c].at = "answer" /\ Requested(xReq[c], Joined(ledger, xOwn[c]))
  BY DEF CreateAnswer, NowAt, XpInv, Earning
<1>3. PICK s : xReq' = [xReq EXCEPT ![c] = s] /\ s.at # "award"
  <2>1. PICK award :
           xReq' = [xReq EXCEPT ![c] = [xReq[c] EXCEPT !.at = "next", !.day = xDay, !.award = award]]
    BY DEF CreateAnswer, Goes
  <2>2. PICK r, g : r = xReq[c] /\ g = [r EXCEPT !.at = "next", !.day = xDay, !.award = award]
    OBVIOUS
  <2>3. g.at # "award"
    BY <1>2, <2>2 DEF Requested
  <2>. QED
    BY <2>1, <2>2, <2>3
<1>4. xOwn'[c].events = xOwn[c].events /\ xOwn'[c].told = xOwn[c].told
  <2>1. PICK b, list, o : /\ b = xOwn[c] /\ o = [b EXCEPT !.answers = list]
                          /\ xOwn' = [xOwn EXCEPT ![c] = o]
    BY DEF CreateAnswer, Records
  <2>2. Book(b) /\ xOwn'[c] = o
    BY <2>1 DEF XpInv
  <2>3. o.events = b.events /\ o.told = b.told
    BY <2>1, <2>2 DEF Book
  <2>. QED
    BY <2>1, <2>2, <2>3
<1>5. \A e \in Clients \ {c} : xOwn'[e] = xOwn[e]
  BY DEF CreateAnswer, Records, XpInv
<1>6. \A e \in Clients : Undisturbed(e)
  BY <1>1, <1>3, <1>4, <1>5 DEF Undisturbed, XpInv
<1>. QED
  BY <1>1, <1>6, TellFrame

LEMMA ReadTells ==
    ASSUME XpInv, TellInv, NEW c \in Clients, ReadCoefficient(c)
    PROVE  TellInv'
<1>1. UNCHANGED <<settings, coefficient, ledger, xOwn, xHolder>>
  BY DEF ReadCoefficient, Rest
<1>2. xReq[c] # None /\ Requested(xReq[c], Joined(ledger, xOwn[c]))
  BY DEF ReadCoefficient, NowAt, XpInv, Earning
<1>3. PICK s : xReq' = [xReq EXCEPT ![c] = s] /\ (s.at = "award" => s.coef = coefficient)
  <2>1. PICK r, f, g : /\ r = xReq[c] /\ f = [r EXCEPT !.at = "end"]
                       /\ g = [r EXCEPT !.at = "award", !.coef = coefficient]
    OBVIOUS
  <2>2. xReq' = [xReq EXCEPT ![c] = f] \/ xReq' = [xReq EXCEPT ![c] = g]
    BY <2>1 DEF ReadCoefficient, Goes
  <2>3. f.at = "end" /\ g.coef = coefficient
    BY <1>2, <2>1 DEF Requested
  <2>. QED
    BY <2>2, <2>3
<1>4. \A e \in Clients : Undisturbed(e)
  BY <1>1, <1>3 DEF Undisturbed, XpInv
<1>. QED
  BY <1>1, <1>4, TellFrame

LEMMA AbortTells ==
    ASSUME XpInv, TellInv, NEW c \in Clients, Abort(c)
    PROVE  TellInv'
<1>1. UNCHANGED <<settings, coefficient, ledger>>
  BY DEF Abort, Rest
<1>2. PICK o, r : o = Empty /\ r = None
  OBVIOUS
<1>3. /\ xOwn' = [xOwn EXCEPT ![c] = o] /\ xReq' = [xReq EXCEPT ![c] = r]
      /\ xHolder' = IF xHolder = c THEN None ELSE xHolder
  BY <1>2 DEF Abort, Ended, Release
<1>4. o.events = <<>> /\ o.told = <<>>
  BY <1>2 DEF Empty
<1>5. /\ xOwn'[c] = o /\ xReq'[c] = r
      /\ \A e \in Clients \ {c} : xOwn'[e] = xOwn[e] /\ xReq'[e] = xReq[e]
  BY <1>3, OthersKept
<1>6. ASSUME NEW e \in Clients PROVE Undisturbed(e)
  <2>1. CASE e = c
    BY <2>1, <1>2, <1>4, <1>5 DEF Undisturbed
  <2>2. CASE e # c
    <3>1. e # xHolder' => e # xHolder
      BY <2>2, <1>3
    <3>. QED
      BY <3>1, <2>2, <1>5 DEF Undisturbed
  <2>. QED
    BY <2>1, <2>2
<1>. QED
  BY <1>1, <1>6, TellFrame

LEMMA NoticesAre ==
    ASSUME NEW who \in Whose, NEW before \in Nat, NEW xp \in Nat, NEW coef \in Nat \ {0}
    PROVE  LevelNotices(who, before, xp, coef) \in Seq(LevelNotes)
<1>1. PICK from \in Nat, to \in Nat : from = level_from_xp(before, coef) /\ to = level_from_xp(before + xp, coef)
  <2>1. before + xp \in Nat
    OBVIOUS
  <2>. QED
    BY <2>1, LevelsRise
<1>2. [of |-> who, from |-> from, to |-> to] \in LevelNotes
  BY DEF LevelNotes
<1>3. LevelNotices(who, before, xp, coef) = IF to > from THEN <<[of |-> who, from |-> from, to |-> to]>> ELSE <<>>
  BY <1>1 DEF LevelNotices
<1>. QED
  BY <1>2, <1>3

Grouped(x, y, z) == x \o (y \o z) = (x \o y) \o z
LEMMA Associates ==
    ASSUME NEW T, NEW x \in Seq(T), NEW y \in Seq(T), NEW z \in Seq(T)
    PROVE  Grouped(x, y, z)
<1>1. PICK u \in Seq(T), v \in Seq(T) : u = x \o y /\ v = y \o z
  <2>1. x \o y \in Seq(T) /\ y \o z \in Seq(T)
    OBVIOUS
  <2>. QED
    BY <2>1
<1>2. /\ Len(u) = Len(x) + Len(y) /\ Len(v) = Len(y) + Len(z)
      /\ Len(x) \in Nat /\ Len(y) \in Nat /\ Len(z) \in Nat
  BY <1>1
<1>3. PICK s \in Seq(T), t \in Seq(T) : s = x \o v /\ t = u \o z
  <2>1. x \o v \in Seq(T) /\ u \o z \in Seq(T)
    OBVIOUS
  <2>. QED
    BY <2>1
<1>4. Len(s) = Len(x) + Len(y) + Len(z) /\ Len(t) = Len(x) + Len(y) + Len(z)
  <2>1. Len(s) = Len(x) + Len(v) /\ Len(t) = Len(u) + Len(z)
    BY <1>3
  <2>. QED
    BY <2>1, <1>2
<1>5. ASSUME NEW i \in 1 .. Len(s) PROVE s[i] = t[i]
  <2>1. CASE i <= Len(x)
    BY <2>1, <1>1, <1>2, <1>3, <1>4
  <2>2. CASE i > Len(x) /\ i <= Len(x) + Len(y)
    <3>1. s[i] = v[i - Len(x)] /\ t[i] = u[i]
      BY <2>2, <1>2, <1>3, <1>4
    <3>2. v[i - Len(x)] = y[i - Len(x)] /\ u[i] = y[i - Len(x)]
      BY <2>2, <1>1, <1>2, <1>4
    <3>. QED
      BY <3>1, <3>2
  <2>3. CASE i > Len(x) + Len(y)
    <3>1. /\ i \in Nat /\ ~(i <= Len(x)) /\ ~(i <= Len(u))
          /\ i \in 1 .. Len(x) + Len(v) /\ i \in 1 .. Len(u) + Len(z)
      BY <2>3, <1>2, <1>4
    <3>4. s[i] = v[i - Len(x)]
      BY <3>1, <1>3
    <3>5. t[i] = z[i - Len(u)]
      BY <3>1, <1>3
    <3>2. v[i - Len(x)] = z[i - Len(x) - Len(y)]
      BY <2>3, <1>1, <1>2, <1>4
    <3>3. i - Len(x) - Len(y) = i - Len(u)
      BY <3>1, <1>2
    <3>. QED
      BY <3>2, <3>3, <3>4, <3>5
  <2>. QED
    BY <2>1, <2>2, <2>3, <1>2, <1>4
<1>6. s = t
  BY <1>4, <1>5
<1>. QED
  BY <1>1, <1>3, <1>6 DEF Grouped

Regrouped(S, a, b, m, n) ==
    b \o m \o n \in S /\ a \o (b \o m \o n) = ((a \o b) \o m) \o n
LEMMA FourJoined ==
    ASSUME NEW T, NEW a \in Seq(T), NEW b \in Seq(T), NEW m \in Seq(T), NEW n \in Seq(T)
    PROVE  Regrouped(Seq(T), a, b, m, n)
<1>1. \A x, y \in Seq(T) : x \o y \in Seq(T)
  OBVIOUS
<1>2. b \o m \in Seq(T) /\ a \o b \in Seq(T)
  BY <1>1
<1>3. (b \o m) \o n \in Seq(T) /\ (a \o b) \o m \in Seq(T)
  BY <1>1, <1>2
<1>4. Grouped(a, b \o m, n) /\ Grouped(a, b, m)
  BY <1>2, Associates
<1>. QED
  BY <1>3, <1>4, Zenon DEF Regrouped, Grouped

\* An award adds its notices to its event, in one step.
LEMMA AwardTells ==
    ASSUME XpInv, TellInv, XpAssumption, NEW c \in Clients, Award(c)
    PROVE  TellInv'
<1>1. PICK r, before, d : r = xReq[c] /\ before = xOwn[c] /\ d = Joined(ledger, before)
  OBVIOUS
<1>2. /\ r # None /\ r.at = "award" /\ UNCHANGED <<settings, coefficient, ledger>>
      /\ xHolder \in {None, c} /\ xHolder' = c
  BY <1>1 DEF Award, NowAt, Rest
<1>3. Requested(r, d) /\ Book(before) /\ Book(ledger) /\ Pending(c)
  BY <1>1, <1>2 DEF XpInv, Earning, TellInv
<1>4. PICK award, res, key : /\ award = Head(r.award) /\ res = ResourceOf[r.subject]
                             /\ key = <<r.subject, r.day, award.source>>
  OBVIOUS
<1>5. PICK s : s = [r EXCEPT !.award = Tail(@), !.at = "next"]
  OBVIOUS
<1>6. s.at # "award" /\ xReq' = [xReq EXCEPT ![c] = s]
  BY <1>1, <1>3, <1>5 DEF Award, Goes, Requested
<1>7. ASSUME NEW e \in Clients \ {c} PROVE xReq'[e] = xReq[e] /\ (e # xHolder' => e # xHolder)
  BY <1>2, <1>6 DEF XpInv, XpAssumption
<1>8. CASE xOwn' = xOwn
  <2>1. \A e \in Clients : Undisturbed(e)
    BY <1>2, <1>6, <1>7, <1>8 DEF Undisturbed, XpInv
  <2>. QED
    BY <2>1, <1>2, TellFrame
<1>9. CASE xOwn' # xOwn
  <2>1. PICK event, xp, tells :
          /\ event = [key |-> key, resource |-> res, xp |-> award.xp] /\ xp = award.xp
          /\ tells = before.told \o LevelNotices("user", SumXp(Visible(c).events, "user"), xp, r.coef)
                                 \o LevelNotices(res, SumXp(Visible(c).events, res), xp, r.coef)
          /\ xOwn' = [xOwn EXCEPT ![c].events = Append(@, event), ![c].told = tells]
    BY <1>9, <1>1, <1>4 DEF Award, Sums
  <2>2. award \in Awards /\ key \in Subjects \X Nat \X Sources /\ r.subject \in Subjects
    <3>1. PICK list \in Seq(Awards) : list = r.award /\ list # <<>>
      BY <1>2, <1>3 DEF Requested
    <3>2. Head(list) \in Awards
      BY <3>1
    <3>. QED
      BY <3>1, <3>2, <1>3, <1>4 DEF Requested, Awards
  <2>3. event \in Events /\ event.resource = res /\ event.xp = xp /\ xp \in Nat /\ res \in Whose /\ res # "user"
    BY <2>1, <2>2, <1>4 DEF Events, Awards, Whose, XpAssumption
  <2>4. PICK events \in Seq(Events), told \in Seq(LevelNotes) :
          /\ events = ledger.events \o before.events /\ told = ledger.told \o before.told
          /\ Visible(c).events = events
    <3>1. ledger.told \in Seq(LevelNotes) /\ before.told \in Seq(LevelNotes)
      BY <1>1, <1>3 DEF TellInv, Pending
    <3>2. ledger.told \o before.told \in Seq(LevelNotes)
      BY <3>1
    <3>3. Book(d) /\ d.events = ledger.events \o before.events
      BY <1>1, <1>3, JoinedIs
    <3>4. Visible(c).events = d.events
      BY <1>1 DEF Visible, Joined
    <3>. QED
      BY <3>2, <3>3, <3>4 DEF Book
  <2>5. PICK mine, o : /\ mine = Append(before.events, event) /\ o = [before EXCEPT !.events = mine, !.told = tells]
                       /\ xOwn' = [xOwn EXCEPT ![c] = o]
    <3>1. PICK mine, o : mine = Append(before.events, event) /\ o = [before EXCEPT !.events = mine, !.told = tells]
      OBVIOUS
    <3>2. xOwn' = [xOwn EXCEPT ![c].events = mine, ![c].told = tells]
      BY <2>1, <3>1, <1>1 DEF XpInv
    <3>3. xOwn' = [xOwn EXCEPT ![c] = o]
      BY <3>1, <3>2, <1>1 DEF XpInv
    <3>. QED
      BY <3>1, <3>3
  <2>6. o.events = mine /\ o.told = tells
    BY <2>5, <1>3 DEF Book
  <2>7. /\ xOwn'[c] = o /\ xReq'[c] = s
        /\ \A e \in Clients \ {c} : xOwn'[e] = xOwn[e] /\ xReq'[e] = xReq[e]
    <3>1. xReq' = [xReq EXCEPT ![c] = s] /\ xOwn' = [xOwn EXCEPT ![c] = o]
      BY <2>5, <1>6
    <3>2. \A p, q : xOwn' = [xOwn EXCEPT ![c] = p] /\ xReq' = [xReq EXCEPT ![c] = q]
               => /\ xOwn'[c] = p /\ xReq'[c] = q
                  /\ \A e \in Clients \ {c} : xOwn'[e] = xOwn[e] /\ xReq'[e] = xReq[e]
      BY OthersKept
    <3>. QED
      BY <3>1, <3>2, Zenon
  <2>8. PICK coef \in Nat \ {0} : coef = r.coef /\ (settings = 0 => coef = coefficient)
    BY <1>1, <1>2, <1>3 DEF Pending
  <2>9. PICK a \in Nat, b \in Nat : a = SumXp(events, "user") /\ b = SumXp(events, res)
    BY SumsUp
  <2>10. PICK old \in Seq(LevelNotes), m \in Seq(LevelNotes), n \in Seq(LevelNotes) :
            /\ old = before.told /\ m = LevelNotices("user", a, xp, coef)
            /\ n = LevelNotices(res, b, xp, coef)
    <3>1. "user" \in Whose
      BY DEF Whose
    <3>2. /\ LevelNotices("user", a, xp, coef) \in Seq(LevelNotes)
          /\ LevelNotices(res, b, xp, coef) \in Seq(LevelNotes)
      BY <3>1, <2>3, NoticesAre
    <3>. QED
      BY <3>2, <1>1, <1>3 DEF Pending
  <2>11. tells = old \o m \o n
    BY <2>1, <2>4, <2>8, <2>9, <2>10
  <2>12. PICK v, w : v = told \o m /\ w = v \o n
    OBVIOUS
  <2>13. o.told \in Seq(LevelNotes) /\ ledger.told \o o.told = w
    <3>1. PICK top \in Seq(LevelNotes) : top = ledger.told
      BY DEF TellInv
    <3>2. old \o m \o n \in Seq(LevelNotes) /\ top \o (old \o m \o n) = ((top \o old) \o m) \o n
      <4>1. Regrouped(Seq(LevelNotes), top, old, m, n)
        BY FourJoined
      <4>. QED
        BY <4>1, Zenon DEF Regrouped
    <3>3. told = top \o old
      BY <2>4, <2>10, <3>1
    <3>. QED
      BY <2>6, <2>11, <2>12, <3>1, <3>2, <3>3
  <2>14. ledger.events \o o.events = Append(events, event)
    <3>1. PICK x \in Seq(Events), y \in Seq(Events) : x = ledger.events /\ y = before.events
      BY <1>3 DEF Book
    <3>2. JoinsLast(x, y, event)
      BY <2>3, AppendJoins
    <3>. QED
      BY <3>1, <3>2, <2>4, <2>5, <2>6 DEF JoinsLast
  <2>15. Telling(Append(events, event), w)
    <3>. SUFFICES ASSUME settings = 0 PROVE \A of \in Whose : Tells(Append(events, event), w, of, coefficient)
      BY DEF Telling
    <3>1. \A of \in Whose : Tells(events, told, of, coef)
      BY <2>4, <2>8, <1>1, <1>3 DEF Pending, Telling
    <3>2. Lifted(told, "user", SumXp(events, "user"), xp, coef, v) /\ Lifted(v, res, SumXp(events, res), xp, coef, w)
      BY <2>9, <2>10, <2>12 DEF Lifted
    <3>3. \A of \in Whose : Tells(Append(events, event), w, of, coef)
      BY <2>3, <3>1, <3>2, EventTells
    <3>. QED
      BY <3>3, <2>8
  <2>16. Pending(c)'
    BY <2>7, <2>13, <2>14, <2>15, <1>2, <1>6 DEF Pending, Telling
  <2>17. ASSUME NEW e \in Clients \ {c} PROVE Pending(e)'
    <3>1. xOwn'[e] = xOwn[e] /\ xReq'[e] = xReq[e] /\ (e # xHolder' => e # xHolder) /\ Pending(e)
      BY <2>7, <1>7 DEF TellInv
    <3>. QED
      BY <3>1, <1>2 DEF Pending, Telling
  <2>18. Telling(ledger.events, ledger.told)'
    BY <1>2 DEF Telling, TellInv
  <2>. QED
    BY <2>16, <2>17, <2>18, <1>2 DEF TellInv
<1>. QED
  BY <1>8, <1>9

\* What a request commits is what it saw, and the others wrote nothing of the kind.
LEMMA CompleteTells ==
    ASSUME XpInv, TellInv, XpAssumption, NEW c \in Clients, Complete(c)
    PROVE  TellInv'
<1>1. PICK before, d : before = xOwn[c] /\ d = Joined(ledger, before)
  OBVIOUS
<1>2. ledger' = d /\ UNCHANGED <<settings, coefficient>>
  BY <1>1 DEF Complete, Visible, Joined
<1>3. PICK o, r : o = Empty /\ r = None
  OBVIOUS
<1>4. /\ xOwn' = [xOwn EXCEPT ![c] = o] /\ xReq' = [xReq EXCEPT ![c] = r]
      /\ xHolder' = IF xHolder = c THEN None ELSE xHolder
  BY <1>3 DEF Complete, Ended, Release
<1>5. /\ xOwn'[c] = o /\ xReq'[c] = r
      /\ \A e \in Clients \ {c} : xOwn'[e] = xOwn[e] /\ xReq'[e] = xReq[e]
  BY <1>4, OthersKept
<1>6. o.events = <<>> /\ o.told = <<>>
  BY <1>3 DEF Empty
<1>7. /\ Book(before) /\ Book(ledger) /\ Pending(c)
      /\ d.events = ledger.events \o before.events /\ d.told = ledger.told \o before.told
  <2>1. Book(before) /\ Book(ledger) /\ Pending(c)
    BY <1>1 DEF XpInv, TellInv
  <2>2. d.events = ledger.events \o before.events
    BY <2>1, <1>1, JoinedIs
  <2>3. d.told = ledger.told \o before.told
    BY <2>1, <1>1, JoinedTold
  <2>. QED
    BY <2>1, <2>2, <2>3
<1>8. PICK events \in Seq(Events), told \in Seq(LevelNotes), mine \in Seq(Events), said \in Seq(LevelNotes) :
         events = ledger.events /\ told = ledger.told /\ mine = before.events /\ said = before.told
  BY <1>1, <1>7 DEF TellInv, Pending, Book
<1>9. d.events \in Seq(Events) /\ d.told \in Seq(LevelNotes)
  BY <1>7, <1>8
<1>10. Telling(d.events, d.told)
  BY <1>1, <1>7 DEF Pending
<1>11. Pending(c)'
  <2>1. d.events \o o.events = d.events /\ d.told \o o.told = d.told
    BY <1>6, <1>9, JoinedWithNone
  <2>2. Telling(ledger'.events \o xOwn'[c].events, ledger'.told \o xOwn'[c].told)
    BY <2>1, <1>2, <1>5, <1>10
  <2>. QED
    BY <2>2, <1>2, <1>3, <1>5, <1>6 DEF Pending, Telling
<1>12. ASSUME NEW e \in Clients \ {c} PROVE Pending(e)'
  <2>1. xOwn'[e] = xOwn[e] /\ xReq'[e] = xReq[e] /\ Pending(e) /\ Earning(e)
    BY <1>5 DEF TellInv, XpInv
  <2>2. e # xHolder' => e # xHolder
    BY <1>4
  <2>3. CASE e # xHolder
    <3>1. xOwn[e].events = <<>> /\ xOwn[e].told = <<>>
      BY <2>1, <2>3 DEF Pending, Earning
    <3>2. d.events \o xOwn[e].events = d.events /\ d.told \o xOwn[e].told = d.told
      BY <3>1, <1>9, JoinedWithNone
    <3>3. Telling(ledger'.events \o xOwn'[e].events, ledger'.told \o xOwn'[e].told)
      BY <3>2, <2>1, <1>2, <1>10
    <3>. QED
      BY <3>1, <3>3, <2>1, <2>2, <1>2 DEF Pending, Telling
  <2>4. CASE e = xHolder
    <3>1. mine = <<>> /\ said = <<>>
      BY <2>4, <1>1, <1>7, <1>8 DEF Pending, XpInv, Earning
    <3>2. events \o <<>> = events /\ told \o <<>> = told
      BY JoinedWithNone
    <3>3. d.events = ledger.events /\ d.told = ledger.told
      BY <3>1, <3>2, <1>7, <1>8
    <3>4. Telling(ledger.events \o xOwn[e].events, ledger.told \o xOwn[e].told)
      BY <2>1 DEF Pending
    <3>5. Telling(ledger'.events \o xOwn'[e].events, ledger'.told \o xOwn'[e].told)
      BY <3>3, <3>4, <2>1, <1>2
    <3>6. e = xHolder'
      BY <2>4, <1>4
    <3>. QED
      BY <3>5, <3>6, <2>1, <1>2 DEF Pending, Telling
  <2>. QED
    BY <2>3, <2>4
<1>13. Telling(ledger.events, ledger.told)'
  BY <1>2, <1>10 DEF Telling
<1>. QED
  BY <1>2, <1>9, <1>11, <1>12, <1>13 DEF TellInv

LEMMA TellStarts ==
    ASSUME XInit, XpAssumption
    PROVE  TellInv
<1>1. PICK o : o = Empty
  OBVIOUS
<1>2. /\ ledger = o /\ xOwn = [c \in Clients |-> o] /\ xReq = [c \in Clients |-> None]
      /\ settings = 0 /\ coefficient \in Nat \ {0}
  BY <1>1 DEF XInit, XpAssumption
<1>3. o.events = <<>> /\ o.told = <<>>
  BY <1>1 DEF Empty
<1>4. PICK events \in Seq(Events), told \in Seq(LevelNotes) : events = <<>> /\ told = <<>>
  <2>1. <<>> \in Seq(Events) /\ <<>> \in Seq(LevelNotes)
    OBVIOUS
  <2>. QED
    BY <2>1, Zenon
<1>5. ASSUME NEW of \in Whose PROVE Tells(events, told, of, coefficient)
  <2>1. SumXp(events, of) = 0
    BY <1>4, SumsUp
  <2>2. level_from_xp(0, coefficient) = 1
    BY <1>2, LevelsRise
  <2>3. Len(told) = 0 /\ Mine(told, of, 0) = {} /\ Linked(told, of)
    BY <1>4 DEF Mine, Linked
  <2>4. LevelTold(told, of, Len(told)) = 1
    BY <2>3 DEF LevelTold, Mine
  <2>. QED
    BY <2>1, <2>2, <2>3, <2>4 DEF Tells
<1>6. Telling(events, told) /\ events \o <<>> = events /\ told \o <<>> = told
  BY <1>5, JoinedWithNone DEF Telling
<1>7. ASSUME NEW c \in Clients PROVE Pending(c)
  <2>1. xOwn[c] = o /\ xReq[c] = None
    BY <1>2
  <2>. QED
    BY <2>1, <1>2, <1>3, <1>4, <1>6 DEF Pending
<1>. QED
  BY <1>2, <1>3, <1>4, <1>6, <1>7 DEF TellInv

LEMMA TellStep ==
    ASSUME XpAssumption, XpInv, TellInv, [XNext]_xpVars
    PROVE  TellInv'
<1>1. ASSUME NEW c \in Clients, Ask(c) \/ Expose(c) \/ CreateAnswer(c) \/ ReadCoefficient(c)
                                \/ Award(c) \/ Complete(c) \/ Abort(c)
      PROVE  TellInv'
  BY <1>1, AskTells, ExposeTells, AnswerTells, ReadTells, AwardTells, CompleteTells, AbortTells
<1>2. CASE UNCHANGED <<settings, coefficient, ledger, xOwn, xHolder, xReq>>
  <2>1. \A c \in Clients : Undisturbed(c)
    BY <1>2 DEF Undisturbed
  <2>. QED
    BY <2>1, <1>2, TellFrame
<1>3. CASE Configure
  <2>1. settings' \in Nat /\ settings' # 0 /\ coefficient' \in Nat \ {0}
    BY <1>3 DEF Configure, TellInv, XpAssumption, DEFAULT_LEVEL_XP_COEFFICIENT
  <2>2. UNCHANGED <<ledger, xOwn, xHolder, xReq>>
    BY <1>3 DEF Configure
  <2>3. ASSUME NEW c \in Clients PROVE Pending(c)'
    <3>1. Pending(c)
      BY DEF TellInv
    <3>. QED
      BY <3>1, <2>1, <2>2 DEF Pending, Telling
  <2>. QED
    BY <2>1, <2>2, <2>3 DEF TellInv, Telling
<1>4. NextDate \/ Disappear \/ UNCHANGED xpVars => UNCHANGED <<settings, coefficient, ledger, xOwn, xHolder, xReq>>
  BY DEF NextDate, Disappear, xpVars
<1>. QED
  BY <1>1, <1>2, <1>3, <1>4 DEF XNext

LEMMA TellShows ==
    ASSUME XpAssumption, XpInv, TellInv
    PROVE  LevelsTold
<1>1. PICK events \in Seq(Events) : events = ledger.events
  BY DEF XpInv, Book
<1>2. PICK sum \in Nat : sum = SumXp(events, "user")
  BY SumsUp
<1>3. ASSUME NEW coef \in Coefficients \cup {DEFAULT_LEVEL_XP_COEFFICIENT}
      PROVE  LET g == Growth(ledger.events, coef) IN 0 <= g.current /\ g.current < g.needed
  <2>1. coef \in Nat \ {0}
    BY DEF XpAssumption, DEFAULT_LEVEL_XP_COEFFICIENT
  <2>2. PICK L : L = level_from_xp(sum, coef) 
    OBVIOUS
  <2>3. 0 <= sum - level_threshold(L, coef) /\ sum - level_threshold(L, coef) < L * coef
    BY <2>1, <2>2, PointsInLevel
  <2>4. Growth(events, coef) = [total |-> sum, level |-> L, current |-> sum - level_threshold(L, coef), needed |-> L * coef]
    BY <1>2, <2>2 DEF Growth
  <2>. QED
    BY <1>1, <2>3, <2>4
<1>4. PointsFit
  BY <1>3 DEF PointsFit
<1>5. (\A n \in DOMAIN ledger.events : Backed(ledger.events[n].key, ledger)) /\ XpOnce
  BY DEF XpInv, Once, Sourced, XpOnce
<1>6. EveryLevelTold
  BY DEF TellInv, Telling, Tells, EveryLevelTold, Whose
<1>. QED
  BY <1>4, <1>5, <1>6 DEF LevelsTold, XpTypeOK

\* For every number of devices, sentences, quizzes, resources and days and every setting,
\* whatever the order of requests, roll-backs, midnights and changes of the settings: a
\* subject earns from one source once a day (record_resource_xp, EVENT_QUERY) and only for
\* what was read or answered on that day (record_tanbun_exposure,
\* create_answer_in_transaction); the points shown inside a level are fewer than it needs
\* (fetch_resource_growth); and until the coefficient is changed the notices of the user
\* and of each resource lead from the first level, one after the other, to the one the
\* points amount to (save_level_up_notifications).
THEOREM LevelsAreTold ==
    ASSUME XpAssumption
    PROVE  XSpec => []LevelsTold
<1>1. XInit => XpInv /\ TellInv
  BY XpStarts, TellStarts
<1>2. XpInv /\ TellInv /\ [XNext]_xpVars => XpInv' /\ TellInv'
  BY XpStep, TellStep
<1>3. XpInv /\ TellInv => LevelsTold
  BY TellShows
<1>. QED
  BY <1>1, <1>2, <1>3, PTL DEF XSpec
=============================================================================
