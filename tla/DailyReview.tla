----------------------------- MODULE DailyReview -----------------------------
(* The review of a day: the settings a user edits, the copy of them that holds for
   a day, and the sets of sentences and quizzes chosen for it
   (recommendation/settings.py and daily.py, dashboard/repo.py, quiz/listing/repo.py).

   Every request runs in a transaction of its own.  What it writes, it writes after
   it has set a property of the user's node, which locks the user until its end; what
   it reads before that is what others had committed by then.                       *)
EXTENDS Naturals, Sequences, FiniteSets, SequencesExt

CONSTANTS
    Clients,     \* devices of the user, one request each
    Profiles,    \* settings profiles; "default" is always there
    Items,       \* sentences and quizzes
    KindOf,      \* KindOf[i] \in Kinds
    SourceOf,    \* SourceOf[i]: the resource it belongs to
    Fragile,     \* items that may be deleted
    Configs,     \* settings a user may save: [scope, size]
    Standard,    \* the settings of "default" as long as none are saved
    LastDay,     \* the clock stops here
    Keep,        \* RETENTION_DAYS
    Limit,       \* 500, the longest set
    MaxAsks,     \* requests in a behaviour
    None

Kinds == {"tanbuns", "quizzes"}
Days == 0..LastDay

VARIABLES
    today, living,   \* the date; the items that still exist
    born,            \* profiles that were ever created: an id is not used again
    db,              \* [config, fixed, sets]: committed settings, copies of a day, sets
    work, holder,    \* what the request that holds the lock sees and has written
    req,             \* [Clients -> None or its request]
    asks

dailyVars == <<today, living, born, db, work, holder, req, asks>>

Settings == Configs \cup {Standard}
DailyAssumption ==
    /\ Keep \in Nat \ {0} /\ Limit \in Nat /\ LastDay \in Nat
    /\ IsFiniteSet(Items) /\ "default" \in Profiles
    /\ \A config \in Settings : config.size \in 0..Limit
    /\ None \notin Settings \cup Seq(Items) \cup Clients

Keys == [profile : Profiles, kind : Kinds, day : Days]

DayInit ==
    /\ today = 0 /\ living = Items /\ born = {"default"}
    /\ db = [config |-> [p \in Profiles |-> None],
             fixed |-> [k \in Profiles \X Days |-> None],
             sets |-> [k \in Keys |-> None]]
    /\ work = None /\ holder = None
    /\ req = [c \in Clients |-> None]
    /\ asks = 0

\* get_settings: "default" exists without being saved, every other profile must be.
SettingsOf(d, p) == IF d.config[p] # None THEN d.config[p] ELSE IF p = "default" THEN Standard ELSE None

\* prune_daily: what is older than a week before the newest day that is stored.
Stored(d) == {k[2] : k \in {x \in DOMAIN d.fixed : d.fixed[x] # None}}
             \cup {k.day : k \in {x \in Keys : d.sets[x] # None}}
Outdated(d, day) == \E newer \in Stored(d) : day + Keep <= newer
Pruned(d) ==
    [d EXCEPT !.fixed = [k \in DOMAIN @ |-> IF Outdated(d, k[2]) THEN None ELSE @[k]],
              !.sets = [k \in Keys |-> IF Outdated(d, k.day) THEN None ELSE @[k]]]

\* select_daily: a draw by weight in every resource, one of each in turn.
FromSource(s, r) == Cardinality({i \in DOMAIN s : SourceOf[s[i]] = r})
InTurn(s, items) ==
    \A n \in 1..Len(s) : LET taken == SubSeq(s, 1, n) IN
        \A r, q \in {SourceOf[i] : i \in items} :
            FromSource(taken, r) > FromSource(taken, q) + 1 =>
                FromSource(taken, q) = Cardinality({i \in items : SourceOf[i] = q})
Selections(items, size) ==
    LET length == IF Cardinality(items) < size THEN Cardinality(items) ELSE size
    IN  {s \in [1..length -> items] : IsInjective(s) /\ InTurn(s, items)}

\* save_daily: the set that is there first stays, unless it is empty.
SavedSet(old, new) == IF old \in {None, <<>>} THEN new ELSE old
\* append_daily: what is new goes to the end in its order, up to the limit.
Others(new, before) ==
    LET others == {new[n] : n \in DOMAIN new} \ {before[n] : n \in DOMAIN before}
    IN  {s \in [1..Cardinality(others) -> others] :
            \A i, j \in DOMAIN s : \A m, n \in DOMAIN new :
                i < j /\ s[i] = new[m] /\ s[j] = new[n] => m < n}
UpToLimit(s) == SubSeq(s, 1, IF Len(s) < Limit THEN Len(s) ELSE Limit)
AppendedSets(old, new) ==
    LET before == IF old = None THEN <<>> ELSE old
    IN  {UpToLimit(before \o s) : s \in Others(new, before)}
NewSets(more, old, new) == IF more THEN AppendedSets(old, new) ELSE {SavedSet(old, new)}

---------------------------------------------------------------------------
(* Requests.                                                                  *)

Sent(c, r) == /\ req[c] = None /\ asks < MaxAsks /\ asks' = asks + 1
              /\ req' = [req EXCEPT ![c] = r]
              /\ UNCHANGED <<today, living, db, work, holder>>
DayAt(c, step) == req[c] # None /\ req[c].at = step
Return(c) == req' = [req EXCEPT ![c] = None]
DayStep(c, r) == req' = [req EXCEPT ![c] = r]

\* A set is asked for, of a day review_day allows; more of it only today.
AskSet(c) ==
    \E k \in Keys, more \in BOOLEAN :
        /\ k.day <= today /\ today < k.day + Keep
        /\ more => k.day = today
        /\ Sent(c, [op |-> "set", at |-> "load", key |-> k, more |-> more,
                    past |-> k.day < today, ids |-> None, config |-> None])
        /\ UNCHANGED born

\* load_daily.  Sentences of a day that is past are only looked up; quizzes are, when
\* the day is past by now and nothing is stored.
Load(c) ==
    /\ DayAt(c, "load")
    /\ LET r == req[c]  ids == db.sets[r.key] IN
        IF \/ r.key.kind = "tanbuns" /\ r.past
           \/ r.key.kind = "quizzes" /\ r.key.day < today /\ ids \in {None, <<>>}
        THEN Return(c)
        ELSE DayStep(c, [r EXCEPT !.at = "config", !.ids = IF ids = None THEN <<>> ELSE ids])
    /\ UNCHANGED <<today, living, born, db, work, holder, asks>>

\* today_settings, its first query: the profile as it is saved now.
ReadConfig(c) ==
    /\ DayAt(c, "config")
    /\ LET config == SettingsOf(db, req[c].key.profile) IN
        IF config = None THEN Return(c) ELSE DayStep(c, [req[c] EXCEPT !.at = "fix", !.config = config])
    /\ UNCHANGED <<today, living, born, db, work, holder, asks>>

\* Its second query locks the user and keeps the copy of the day that is there.
LatestConfig(old, config) == config    \* faulty: edits change the copy
FixedConfig(old, config) == IF old = None THEN config ELSE old
FixConfig(c) ==
    /\ DayAt(c, "fix") /\ holder = None
    /\ holder' = c
    /\ LET r == req[c]
           key == <<r.key.profile, r.key.day>>
           config == FixedConfig(db.fixed[key], r.config)
       IN  /\ work' = Pruned([db EXCEPT !.fixed[key] = config])
           /\ DayStep(c, [r EXCEPT !.config = config,
                                !.at = IF r.more \/ r.ids = <<>> THEN "choose" ELSE "end"])
    /\ UNCHANGED <<today, living, born, db, asks>>

Candidates(r) ==
    {i \in living : KindOf[i] = r.key.kind /\ SourceOf[i] \in r.config.scope
                    /\ ~\E n \in DOMAIN r.ids : r.ids[n] = i}
Choose(c) ==
    /\ DayAt(c, "choose")
    /\ LET r == req[c] IN
        \E additions \in Selections(Candidates(r), r.config.size) :
        \E set \in NewSets(r.more, work.sets[r.key], additions) :
            work' = Pruned([work EXCEPT !.sets[r.key] = set])
    /\ DayStep(c, [req[c] EXCEPT !.at = "end"])
    /\ UNCHANGED <<today, living, born, db, holder, asks>>

\* save_settings: the profile must exist to be changed; a new one gets a new id.
AskSave(c) ==
    \E p \in Profiles, config \in Configs :
        /\ SettingsOf(db, p) # None \/ p \notin born
        /\ born' = born \cup {p}
        /\ Sent(c, [op |-> "save", at |-> "save", profile |-> p, config |-> config])
SaveConfig(c) ==
    /\ DayAt(c, "save") /\ holder = None
    /\ holder' = c
    /\ work' = [db EXCEPT !.config[req[c].profile] = req[c].config]
    /\ DayStep(c, [req[c] EXCEPT !.at = "end"])
    /\ UNCHANGED <<today, living, born, db, asks>>

\* reset_settings: the day is taken when the query is sent, before it waits.
AskReset(c) ==
    \E p \in Profiles, delete \in BOOLEAN :
        /\ SettingsOf(db, p) # None
        /\ ~(delete /\ p = "default")
        /\ Sent(c, [op |-> "reset", at |-> "reset", profile |-> p, delete |-> delete, day |-> today])
        /\ UNCHANGED born
Reset(c) ==
    /\ DayAt(c, "reset") /\ holder = None
    /\ holder' = c
    /\ LET r == req[c]  Gone(day) == r.delete \/ day = r.day IN
        work' = [db EXCEPT
            !.fixed = [k \in DOMAIN @ |-> IF k[1] = r.profile /\ Gone(k[2]) THEN None ELSE @[k]],
            !.sets = [k \in Keys |-> IF k.profile = r.profile /\ Gone(k.day) THEN None ELSE @[k]],
            !.config[r.profile] = IF r.delete THEN None ELSE @]
    /\ DayStep(c, [req[c] EXCEPT !.at = "end"])
    /\ UNCHANGED <<today, living, born, db, asks>>

\* The request ends: its transaction is committed, or it failed and is rolled back.
Finish(c) ==
    /\ DayAt(c, "end")
    /\ db' = work /\ work' = None /\ holder' = None /\ Return(c)
    /\ UNCHANGED <<today, living, born, asks>>
DayFail(c) ==
    /\ req[c] # None
    /\ IF holder = c THEN work' = None /\ holder' = None ELSE UNCHANGED <<work, holder>>
    /\ Return(c) /\ UNCHANGED <<today, living, born, db, asks>>

Midnight == today < LastDay /\ today' = today + 1 /\ UNCHANGED <<living, born, db, work, holder, req, asks>>
\* A text is imported again without it, or the quiz is deleted.
Vanish == \E i \in living \cap Fragile : living' = living \ {i} /\ UNCHANGED <<today, born, db, work, holder, req, asks>>

DayNext ==
    \/ \E c \in Clients :
        \/ AskSet(c) \/ Load(c) \/ ReadConfig(c) \/ FixConfig(c) \/ Choose(c)
        \/ AskSave(c) \/ SaveConfig(c) \/ AskReset(c) \/ Reset(c) \/ Finish(c) \/ DayFail(c)
    \/ Midnight \/ Vanish
DaySpec == DayInit /\ [][DayNext]_dailyVars

---------------------------------------------------------------------------
\* A set holds an item of its kind once, and no more than the limit.
DailyTypeOK ==
    \A k \in Keys : db.sets[k] # None =>
        /\ IsInjective(db.sets[k]) /\ Len(db.sets[k]) <= Limit
        /\ \A n \in DOMAIN db.sets[k] : KindOf[db.sets[k][n]] = k.kind

\* A stored set that is not empty changes only by something added at its end; it
\* goes only when the user asks for a new one or deletes the profile, or when it is
\* a week older than another day.
SetKept ==
    \A k \in Keys : db.sets[k] \notin {None, <<>>} /\ db'.sets[k] # db.sets[k] =>
        \/ db'.sets[k] # None /\ IsPrefix(db.sets[k], db'.sets[k])
        \/ /\ db'.sets[k] = None
           /\ \/ req[holder].op = "reset" /\ req[holder].profile = k.profile
              \/ Outdated(db', k.day)

\* Sentences and quizzes of a day are chosen by the one copy of the settings that
\* was made for it, however the user edits them meanwhile.
SetFromSnapshot ==
    \A k \in Keys : db.sets[k] \notin {None, <<>>} =>
        /\ db.fixed[<<k.profile, k.day>>] # None
        /\ \A n \in DOMAIN db.sets[k] :
              SourceOf[db.sets[k][n]] \in db.fixed[<<k.profile, k.day>>].scope

(* The sets of a day come from the one copy of the settings made for it, and what
   was shown of a day stays.                                                     *)
ReviewSetKept == [](DailyTypeOK /\ SetFromSnapshot) /\ [][SetKept]_dailyVars
=============================================================================
