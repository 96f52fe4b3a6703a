----------------------------- MODULE RegionPools -----------------------------
(* The quizzes a dungeon region asks: the pool stored per region level, the copy
   of it in the saved adventure with the enemies that point into it by position,
   the requests that fill a pool level by level in their transactions, battles
   and bosses, and the administrator's rebuilds with their background jobs.
   Quizzes are numbered by falling rank.  A save is compared with the revision
   it was read at, so what reads and saves in one request is one action.      *)
EXTENDS Integers, SequencesExt

CONSTANTS Quizzes, Deepest, N, EnemyTypes, EnemySize,
          Clients, Jobs,
          Made, OldSaves,             \* quizzes and saves there are at first
          MaxSaves, MaxAsks, MaxWorld

VARIABLES quiz,       \* quiz -> none, usable, broken, gone
          pooled,     \* level -> pool in the graph, empty if there is none
          ask,        \* pool request of each client
          save,       \* [rev, quizzes, pools, enemies, battle]
          rebuild,        \* background rebuilds of this process
          scheduled,  \* the dungeon is registered for a rebuild
          lost,       \* a registered rebuild was never started
          budget      \* [asks, world] still allowed

poolVars == <<quiz, pooled, ask, save, rebuild, scheduled, lost, budget>>

NoAsk   == [stage |-> "idle"]
NoJob   == [stage |-> "none"]
NoFight == [stage |-> "none"]
Available == {q \in Quizzes : quiz[q] = "usable"}
Present == {q \in Quizzes : quiz[q] \in {"usable", "broken"}}

\* What of a sequence is in a set, in its order; a set of quizzes or positions in
\* order; what is written over what was there.
Only(seq, set) ==
    LET upTo[i \in 0 .. Len(seq)] ==
          IF i = 0 THEN <<>>
          ELSE IF seq[i] \in set THEN Append(upTo[i - 1], seq[i]) ELSE upTo[i - 1]
    IN upTo[Len(seq)]
ByRank(set) ==
    CHOOSE s \in [1 .. Cardinality(set) -> set] : \A i, j \in DOMAIN s : i < j => s[i] < s[j]
Levels == 1 .. Deepest
RequiredAt(l) == l * N
Upon(new, old) ==
    [l \in DOMAIN new \cup DOMAIN old |-> IF l \in DOMAIN new THEN new[l] ELSE old[l]]
With(old, l, new) == Upon([k \in {l} |-> new], old)
Least(m, n) == IF m <= n THEN m ELSE n

Changed(content) == save' = [content EXCEPT !.rev = @ + 1]
CanSave == save.rev < MaxSaves

---------------------------------------------------------------------------
(* Filling a pool.                                                           *)

\* A seed is a hint only: all its quizzes are usable and there is no pool yet.
Seeded(l, seed) ==
    IF pooled[l] = <<>> /\ IsInjective(seed) /\ ToSet(seed) \subseteq Available
    THEN seed ELSE <<>>

AskPool(c, l, seed) ==
    /\ ask[c] = NoAsk /\ budget.asks > 0
    /\ ask' = [ask EXCEPT ![c] = [stage |-> "look", level |-> l, at |-> 1,
                                  got |-> <<>>, seed |-> Seeded(l, seed),
                                  wrote |-> <<>>, late |-> {}, rev |-> save.rev]]
    /\ budget' = [budget EXCEPT !.asks = @ - 1]
    /\ UNCHANGED <<quiz, pooled, save, rebuild, scheduled, lost>>

\* A commit ends its own request; the others note the levels it stored.
Ends(c, levels) ==
    ask' = [d \in Clients |-> IF d = c \/ ask[d] = NoAsk THEN NoAsk
                               ELSE [ask[d] EXCEPT !.late = @ \cup levels]]

Pool(c, l) == IF l \in DOMAIN ask[c].wrote THEN ask[c].wrote[l] ELSE pooled[l]

\* The pool of one level: what is stored, the seed, then the best that are left.
Filled(c) ==
    LET a    == ask[c]
        base == IF Pool(c, a.at) # <<>> THEN Pool(c, a.at) ELSE a.got
        need(s) == IF Len(s) >= RequiredAt(a.at) THEN 0 ELSE RequiredAt(a.at) - Len(s)
        take(s, more) == s \o SubSeq(more, 1, Least(need(s), Len(more)))
        old  == take(base, Only(a.seed, Quizzes \ ToSet(base)))
    IN take(old, ByRank(Available \ ToSet(old)))

Look(c) ==
    LET a == ask[c]
        p == Filled(c)
        rest == IF a.at = a.level THEN "ready" ELSE "look"
    IN /\ a.stage = "look"
       /\ ask' = [ask EXCEPT ![c] =
            IF Len(p) < RequiredAt(a.at) THEN [a EXCEPT !.stage = "short"]
            ELSE IF Len(Pool(c, a.at)) < RequiredAt(a.at)
                 THEN [a EXCEPT !.stage = "put", !.got = p]
                 ELSE [a EXCEPT !.stage = rest, !.got = p,
                                !.at = IF a.at = a.level THEN @ ELSE @ + 1]]
       /\ UNCHANGED <<quiz, pooled, save, rebuild, scheduled, lost, budget>>

\* Storing a pool waits for a transaction that has stored the same one.
PutPool(c) ==
    LET a == ask[c]
    IN /\ a.stage = "put"
       /\ \A d \in Clients \ {c} : ask[d] # NoAsk => a.at \notin DOMAIN ask[d].wrote
       /\ ask' = [ask EXCEPT ![c].wrote = With(@, a.at, Only(a.got, Present)),
                             ![c].stage = IF a.at = a.level THEN "ready" ELSE "look",
                             ![c].at = IF a.at = a.level THEN @ ELSE @ + 1]
       /\ UNCHANGED <<quiz, pooled, save, rebuild, scheduled, lost, budget>>

Store(c) == pooled' = Upon(ask[c].wrote, pooled) /\ Ends(c, DOMAIN ask[c].wrote)
Positions(ids, quizzes) == {i \in DOMAIN quizzes : quizzes[i] \in ids}

\* Fixed sets of an enemy each, all different, drawn at random.
Groups(indices) ==
    LET sets == kSubset(Least(EnemySize, Cardinality(indices)), indices)
    IN IF indices = {} THEN {{}} ELSE kSubset(Least(EnemyTypes, Cardinality(sets)), sets)

\* The answer: the client takes the pool and its enemies into its content and
\* saves it, if nothing else was saved since.
Answer(c) ==
    LET a == ask[c]
        quizzes == save.quizzes \o Only(a.got, Quizzes \ ToSet(save.quizzes))
    IN /\ a.stage = "ready"
       /\ Store(c)
       /\ \/ UNCHANGED save
          \/ /\ CanSave /\ save.rev = a.rev /\ save.battle = NoFight
             /\ ToSet(a.got) \subseteq Available
             /\ \E g \in Groups(Positions(ToSet(a.got), quizzes)) :
                  Changed([save EXCEPT !.quizzes = quizzes,
                                       !.pools = With(@, a.level, a.got),
                                       !.enemies = With(@, a.level, g)])
       /\ UNCHANGED <<quiz, rebuild, scheduled, lost, budget>>

\* A boss asks the whole pool; all is kept or nothing.
MeetBoss(c) ==
    LET a == ask[c]
        quizzes == save.quizzes \o Only(a.got, Quizzes \ ToSet(save.quizzes))
    IN /\ a.stage = "ready" /\ a.seed = <<>>
       /\ CanSave /\ save.rev = a.rev /\ save.battle = NoFight
       /\ ToSet(a.got) \subseteq Available
       /\ Store(c)
       /\ \E i \in Positions(ToSet(a.got), quizzes) :
            Changed([save EXCEPT !.quizzes = quizzes,
                          !.battle = [stage |-> "boss", asked |-> i, quiz |-> quizzes[i]]])
       /\ UNCHANGED <<quiz, rebuild, scheduled, lost, budget>>

\* Too few quizzes: the levels below stay filled, except for a boss.
AnswerShort(c) ==
    /\ ask[c].stage = "short"
    /\ Store(c) \/ (UNCHANGED pooled /\ Ends(c, {}))
    /\ UNCHANGED <<quiz, save, rebuild, scheduled, lost, budget>>

RefusePool(c) ==
    /\ ask[c] # NoAsk
    /\ Ends(c, {})
    /\ UNCHANGED <<quiz, pooled, save, rebuild, scheduled, lost, budget>>

---------------------------------------------------------------------------
(* Battles in a region.                                                      *)

Meet(l) ==
    /\ CanSave /\ save.battle = NoFight
    /\ \E g \in save.enemies[l], i \in DOMAIN save.quizzes :
         /\ i \in g /\ save.quizzes[i] \in Available
         /\ Changed([save EXCEPT !.battle =
                         [stage |-> "enemy", asked |-> i, quiz |-> save.quizzes[i]]])
    /\ UNCHANGED <<quiz, pooled, ask, rebuild, scheduled, lost, budget>>

Part ==
    /\ CanSave /\ save.battle # NoFight
    /\ Changed([save EXCEPT !.battle = NoFight])
    /\ UNCHANGED <<quiz, pooled, ask, rebuild, scheduled, lost, budget>>

---------------------------------------------------------------------------
(* Rebuilds.                                                                 *)

Regions == DOMAIN save.pools \cup DOMAIN save.enemies
Needed  == IF Regions = {} THEN 0 ELSE RequiredAt(Max(Regions))

\* Positions the enemies of an old save point at.
Legacy(l) == {i \in UNION save.enemies[l] : i \in DOMAIN save.quizzes}
PoolOf(l) ==
    IF l \in DOMAIN save.pools THEN Only(save.pools[l], ToSet(save.quizzes))
    ELSE [k \in 1 .. Cardinality(Legacy(l)) |-> save.quizzes[ByRank(Legacy(l))[k]]]

\* What a reroll draws from: the quizzes of the content, the ranked ones first.
\* A broken quiz is ranked as long as its own sentence is still there.
Ranked(kept) == ByRank(ToSet(save.quizzes) \cap (Available \cup kept))
                \o Only(save.quizzes, Quizzes \ (Available \cup kept))

Rebuilt(quizzes, pools, enemies) ==
    Changed([save EXCEPT !.quizzes = quizzes, !.pools = pools, !.enemies = enemies])

\* (Faulty variant: a battle that goes on is not looked at.)
AnyTime == TRUE
NotInBattle == save.battle = NoFight

\* Every pool as it is, or drawn again; the enemies anew.  Graph and save go
\* together, or only the save in the rebuild of all dungeons of a user.
RebuildWith(reroll, graph, kept) ==
    LET quizzes == IF reroll THEN Ranked(kept) ELSE save.quizzes
        pools   == [l \in Regions |->
                      IF reroll THEN SubSeq(quizzes, 1, RequiredAt(l)) ELSE PoolOf(l)]
    IN /\ CanSave /\ Regions # {} /\ NotInBattle
       /\ reroll => Len(quizzes) >= Needed
       /\ graph => \A c \in Clients : ask[c] # NoAsk => DOMAIN ask[c].wrote \cap Regions = {}
       /\ LET drawn == [l \in Regions |-> Groups(Positions(ToSet(pools[l]), quizzes))]
          IN \E e \in [Regions -> UNION {drawn[l] : l \in Regions}] :
               (\A l \in Regions : e[l] \in drawn[l]) /\ Rebuilt(quizzes, pools, e)
       /\ IF graph THEN pooled' = Upon([l \in Regions |-> Only(pools[l], Present)], pooled)
                         /\ Ends("rebuild", Regions)
          ELSE UNCHANGED <<pooled, ask>>

Rebuild(reroll, graph) ==
    \E kept \in SUBSET (IF reroll THEN Present \ Available ELSE {}) : RebuildWith(reroll, graph, kept)

RebuildUser == Rebuild(FALSE, FALSE) /\ UNCHANGED <<quiz, rebuild, scheduled, lost, budget>>
RebuildDungeon(reroll) ==
    Rebuild(reroll, TRUE) /\ UNCHANGED <<quiz, rebuild, scheduled, lost, budget>>

\* Too few quizzes to draw from: one background job prepares more.
Reserve(j) ==
    /\ rebuild[j] = NoJob /\ NotInBattle /\ Len(save.quizzes) < Needed
    /\ ~scheduled
    /\ rebuild' = [rebuild EXCEPT ![j] = [stage |-> "reserving"]]
    /\ UNCHANGED <<quiz, pooled, ask, save, scheduled, lost, budget>>

Schedule(j) ==
    /\ rebuild[j].stage = "reserving"
    /\ \/ rebuild' = [rebuild EXCEPT ![j] = [stage |-> "queued"]] /\ scheduled' = TRUE
       \/ rebuild' = [rebuild EXCEPT ![j] = NoJob] /\ UNCHANGED scheduled
    /\ UNCHANGED <<quiz, pooled, ask, save, lost, budget>>

\* The request ends in an error after registering the job.
Unstarted(j) ==
    /\ rebuild[j].stage = "queued"
    /\ rebuild' = [rebuild EXCEPT ![j] = NoJob]
    /\ lost' = TRUE
    /\ UNCHANGED <<quiz, pooled, ask, save, scheduled, budget>>

PrepareMore(j) ==
    /\ rebuild[j].stage = "queued"
    /\ \E new \in SUBSET {q \in Quizzes : quiz[q] = "none"} :
         quiz' = [q \in Quizzes |-> IF q \in new THEN "usable" ELSE quiz[q]]
    /\ rebuild' = [rebuild EXCEPT ![j] = [stage |-> "prepared", need |-> Needed]]
    /\ UNCHANGED <<pooled, ask, save, scheduled, lost, budget>>

\* The best usable quizzes join the content behind those that are there.
Best(n) == SubSeq(ByRank(Available), 1, Least(n, Cardinality(Available)))
Synced(n) == save.quizzes \o Only(Best(n), Quizzes \ ToSet(save.quizzes))
SyncContent(j) ==
    /\ rebuild[j].stage = "prepared" /\ CanSave
    /\ Changed([save EXCEPT !.quizzes = Synced(rebuild[j].need)])
    /\ rebuild' = [rebuild EXCEPT ![j] = [stage |-> "synced"]]
    /\ UNCHANGED <<quiz, pooled, ask, scheduled, lost, budget>>

\* The registration is cleared on every way out.
ClearEntry == scheduled' = FALSE

RebuildAfter(j) ==
    /\ rebuild[j].stage = "synced"
    /\ Rebuild(TRUE, TRUE)
    /\ rebuild' = [rebuild EXCEPT ![j] = NoJob]
    /\ ClearEntry
    /\ UNCHANGED <<quiz, lost, budget>>

FailJob(j) ==
    /\ rebuild[j].stage \in {"queued", "prepared", "synced"}
    /\ rebuild' = [rebuild EXCEPT ![j] = NoJob]
    /\ ClearEntry
    /\ UNCHANGED <<quiz, pooled, ask, save, lost, budget>>

\* The process stops: what it holds in memory is gone, transactions roll back.
Restart ==
    /\ \/ \E j \in Jobs : rebuild[j] # NoJob
       \/ scheduled
    /\ rebuild' = [j \in Jobs |-> NoJob]
    /\ ask' = [c \in Clients |-> NoAsk]
    /\ scheduled' = FALSE /\ lost' = FALSE
    /\ UNCHANGED <<quiz, pooled, save, budget>>

---------------------------------------------------------------------------
(* What happens to quizzes elsewhere.  A quiz that is being stored waits.     *)

World(q, from, to) ==
    /\ budget.world > 0 /\ quiz[q] \in from
    /\ quiz' = [quiz EXCEPT ![q] = to]
    /\ budget' = [budget EXCEPT !.world = @ - 1]
    /\ UNCHANGED <<save, rebuild, scheduled, lost>>

Broken(q)  == World(q, {"usable"}, "broken") /\ UNCHANGED <<pooled, ask>>
Deleted(q) ==
    /\ World(q, {"usable", "broken"}, "gone")
    /\ \A c \in Clients : ask[c] # NoAsk => \A l \in DOMAIN ask[c].wrote :
                             q \notin ToSet(ask[c].wrote[l])
    /\ pooled' = [l \in Levels |-> Only(pooled[l], Quizzes \ {q})]
    /\ Ends("deletion", {l \in Levels : q \in ToSet(pooled[l])})

---------------------------------------------------------------------------
\* A save that is new, or of a time before there were pools.
NewSave == [rev |-> 0, quizzes |-> <<>>, pools |-> <<>>, enemies |-> <<>>, battle |-> NoFight]

ASSUME PoolsAssumption ==
    /\ Quizzes \subseteq Nat /\ IsFiniteSet(Quizzes) /\ Made \subseteq Quizzes
    /\ Deepest \in Nat /\ N \in Nat /\ EnemyTypes \in Nat /\ EnemySize \in Nat
ASSUME OldSavesAssumption ==
    \A s \in OldSaves :
       /\ s = [NewSave EXCEPT !.quizzes = s.quizzes, !.enemies = s.enemies]
       /\ s.quizzes \in Seq(Quizzes) /\ IsInjective(s.quizzes)
       /\ \E known \in SUBSET Levels : s.enemies \in [known -> SUBSET (SUBSET Nat)]

PoolsInit ==
    /\ quiz = [q \in Quizzes |-> IF q \in Made THEN "usable" ELSE "none"]
    /\ pooled = [l \in Levels |-> <<>>]
    /\ ask = [c \in Clients |-> NoAsk]
    /\ save \in {NewSave} \cup OldSaves
    /\ rebuild = [j \in Jobs |-> NoJob]
    /\ scheduled = FALSE /\ lost = FALSE
    /\ budget = [asks |-> MaxAsks, world |-> MaxWorld]

Asking(c) ==
    \/ \E l \in Levels : \/ AskPool(c, l, <<>>)
                         \/ l \in DOMAIN save.enemies /\ AskPool(c, l, PoolOf(l))
    \/ Look(c) \/ PutPool(c) \/ Answer(c) \/ MeetBoss(c) \/ AnswerShort(c) \/ RefusePool(c)

Running(j) == \/ Reserve(j) \/ Schedule(j) \/ Unstarted(j) \/ PrepareMore(j)
              \/ SyncContent(j) \/ RebuildAfter(j) \/ FailJob(j)

PoolsNext ==
    \/ \E c \in Clients : Asking(c)
    \/ \E l \in DOMAIN save.enemies : Meet(l)
    \/ Part
    \/ RebuildUser
    \/ \E reroll \in BOOLEAN : RebuildDungeon(reroll)
    \/ \E j \in Jobs : Running(j)
    \/ Restart
    \/ \E q \in Quizzes : Broken(q) \/ Deleted(q)

PoolsSpec == PoolsInit /\ [][PoolsNext]_poolVars

---------------------------------------------------------------------------
(* Properties.                                                               *)

\* Pools and contents hold a quiz at most once.
PoolTypeOK ==
    /\ quiz \in [Quizzes -> {"none", "usable", "broken", "gone"}]
    /\ \A l \in Levels : IsInjective(pooled[l]) /\ ToSet(pooled[l]) \subseteq Present
    /\ IsInjective(save.quizzes) /\ \A l \in DOMAIN save.pools : IsInjective(save.pools[l])
    /\ \A j \in Jobs : rebuild[j].stage \in {"none", "reserving", "queued", "prepared", "synced"}

\* The question of a battle is kept by position: whatever rebuilds, jobs and
\* other requests do to the content meanwhile, it stays the question asked.
BattleAsksSame ==
    save.battle # NoFight =>
        /\ save.battle.asked \in DOMAIN save.quizzes
        /\ save.quizzes[save.battle.asked] = save.battle.quiz

\* An enemy asks what belongs to the pool of its region, never a quiz that came
\* to its position later.
EnemiesAskPool ==
    \A l \in DOMAIN save.enemies \cap DOMAIN save.pools : \A i \in UNION save.enemies[l] :
        i \in DOMAIN save.quizzes /\ save.quizzes[i] \in ToSet(save.pools[l])

\* A pool only grows: what a request stores begins with what is stored, unless
\* that has changed since the request began.
PoolsOnlyGrow ==
    \A c \in Clients : ask[c] # NoAsk => \A l \in DOMAIN ask[c].wrote \ ask[c].late :
        IsPrefix(pooled[l], ask[c].wrote[l])

\* A dungeon registered for a rebuild has a job that will clear it, unless the
\* request that registered it failed.
RebuildReleased ==
    scheduled /\ ~lost => \E j \in Jobs : rebuild[j].stage \in {"queued", "prepared", "synced"}

\* Whatever is filled, refilled, repaired, rebuilt or deleted around it, a battle asks
\* the question it began with, enemies ask what their region has, and a region loses
\* nothing it had.
PoolsHold == PoolTypeOK /\ BattleAsksSame /\ EnemiesAskPool /\ PoolsOnlyGrow /\ RebuildReleased
=============================================================================
