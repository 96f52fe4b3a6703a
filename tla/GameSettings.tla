----------------------------- MODULE GameSettings -----------------------------
(* The administrator's settings of the game: three documents in the graph, read
   and saved by requests that run in a transaction each; the one-time move of
   the old common boss factors from the balance into the catalogue; the file of
   all settings that is previewed and then saved if nothing changed meanwhile.
   A transaction locks what it writes until it ends; reads do not wait.  A
   document that is not stored cannot be locked, and no constraint keeps two
   requests from making it: then two nodes have its key, either is what a reader
   may find, and the model ends.                                               *)
EXTENDS CatalogueRules, Integers, FiniteSets, TLC, Functions

CONSTANTS Admins, Default, Edits, MaxEdits,
          Starts   \* states of the database the requests begin in

VARIABLES node,    \* stored documents: key -> None or what it holds
          lock,    \* key -> None or the request that wrote it
          made,    \* keys of the documents each request has made
          doubled, \* keys that two nodes have
          req,     \* request of each administrator
          reviewed, \* settings each administrator was shown last, None at first
          acked,   \* catalogue saved last
          edits,   \* edits still allowed
          start    \* what was stored when the requests began (history)

svars == <<node, lock, made, doubled, req, reviewed, acked, edits, start>>

Keys == {"catalogue", "balance", "battle"}
NoRequest == [stage |-> "none", kind |-> "none", own |-> <<>>, locks |-> {}]
DefaultFactor == 3

At(c, stage) == req[c].stage = stage
View(c) == Over(req[c].own, node)
Has(c, k) == View(c)[k] # None

\* A database may hold any of the documents, or none.
Document(d) == {"version", "enemies"} \subseteq DOMAIN d
BalanceNode(d) == "factor" \in DOMAIN d
Databases(docs) ==
    /\ docs = [k \in Keys |-> docs[k]]
    /\ docs.catalogue # None => Document(docs.catalogue)
    /\ docs.balance # None => BalanceNode(docs.balance)
ASSUME SettingsAssumption ==
    /\ None \notin Admins \cup {0, 1}
    /\ Document(Default) /\ \A docs \in Starts : Databases(docs)

\* The built-in definitions are of a time before the common factors; the enemies have
\* what a factor needs, and no edit is about one that was there.
Powered(enemies) == \A e \in DOMAIN enemies : {"boss", "power"} \subseteq DOMAIN enemies[e]
First(docs) == IF docs.catalogue = None THEN Default ELSE docs.catalogue
ASSUME EnemiesAssumption ==
    /\ Default.version # 1
    /\ \A docs \in Starts :
         /\ Powered(First(docs).enemies)
         /\ \A e \in Edits : "enemies" \in DOMAIN e
              => DOMAIN e.enemies \cap DOMAIN First(docs).enemies = {}

---------------------------------------------------------------------------
(* Migration.                                                                 *)

\* Old common factors are left in a catalogue without the version or in the balance.
Needs(docs) ==
    \/ docs.catalogue # None /\ docs.catalogue.version # 1
    \/ docs.balance # None /\ docs.balance.factor # None

Factor(docs) == IF docs.balance # None /\ docs.balance.factor # None
                THEN docs.balance.factor ELSE DefaultFactor
Migrated(docs) ==
    [catalogue |-> Consolidated(First(docs), Factor(docs)),
     balance |-> IF docs.balance = None THEN None ELSE [docs.balance EXCEPT !.factor = None]]

\* Which requests migrate first; the time settings have nothing to migrate.
Migrates(kind) == kind # "put battle"

\* The settings as a reader sees them: what is not stored is the built-in one.
Seen(docs) ==
    [catalogue |-> Read(IF docs.catalogue = None THEN Migrated(docs).catalogue ELSE docs.catalogue),
     balance |-> IF docs.balance = None THEN 0 ELSE docs.balance.value,
     battle |-> IF docs.battle = None THEN 0 ELSE docs.battle]

Ask(c, kind, arg, first, locks) ==
    /\ req[c] = NoRequest
    /\ req' = [req EXCEPT ![c] = [stage |-> first, kind |-> kind, arg |-> arg, locks |-> locks,
                                  own |-> <<>>, looked |-> None, draft |-> None, shown |-> None]]
    /\ UNCHANGED <<node, lock, made, reviewed, acked>>

\* Reading the catalogue or the balance may be the request that migrates.
Get(c) == Ask(c, "get", None, "check", {}) /\ UNCHANGED edits
Preview(c) == Ask(c, "preview", None, "check", {}) /\ UNCHANGED edits

Edit(c, kind, arg, first, locks) ==
    edits > 0 /\ edits' = edits - 1 /\ Ask(c, kind, arg, first, locks)
PutCatalogue(c, e) ==
    /\ node.catalogue # None => node.catalogue.version = 1
    /\ LET doc == Merged(Seen(node).catalogue, e)
       IN Edit(c, "put catalogue", Read(doc), "check", {}) /\ Readable(doc) /\ MayReplace(Read(doc))
PutBalance(c, n) == Edit(c, "put balance", n, "check", {})
PutBattle(c, n) == Edit(c, "put battle", n, "act", {})

\* A file is saved with the settings its administrator was shown.  What exists is
\* locked first.
ToLock == {k \in Keys : node[k] # None}
SaveFile(c, e) ==
    /\ reviewed[c] # None
    /\ Edit(c, "file", e, "lock", ToLock)

\* What is stored is locked before it is written; what is not is made, and whoever
\* else does not see it yet makes it too.
Free(c, k) == lock[k] \in {None, c}
TakeAll(c, keys) ==
    /\ \A k \in keys : Free(c, k)
    /\ lock' = [k \in Keys |-> IF k \in keys /\ node[k] # None THEN c ELSE lock[k]]
    /\ made' = [made EXCEPT ![c] = @ \cup {k \in keys : node[k] = None}]
Take(c, k) == TakeAll(c, {k})

\* Settings are locked in the order of their keys.
Order(k) == CASE k = "battle" -> 1 [] k = "balance" -> 2 [] OTHER -> 3
\* (Faulty variant: nothing is locked.)
LockNothing(c) ==
    /\ At(c, "lock")
    /\ req' = [req EXCEPT ![c].stage = "check"]
    /\ UNCHANGED <<node, lock, made, reviewed, acked, edits>>
LockFile(c) ==
    /\ At(c, "lock")
    /\ LET rest == {k \in req[c].locks : lock[k] # c}
       IN IF rest = {} THEN req' = [req EXCEPT ![c].stage = "check"] /\ UNCHANGED <<lock, made>>
          ELSE LET next == CHOOSE k \in rest : \A l \in rest : Order(k) <= Order(l)
               IN Take(c, next) /\ UNCHANGED req
    /\ UNCHANGED <<node, reviewed, acked, edits>>

\* Look whether there is anything to migrate; lock and look again.
Check(c) ==
    /\ At(c, "check")
    /\ req' = IF Migrates(req[c].kind) /\ Needs(View(c))
              THEN [req EXCEPT ![c].stage = "migrate", ![c].looked = View(c)]
              ELSE [req EXCEPT ![c].stage = "act"]
    /\ UNCHANGED <<node, lock, made, reviewed, acked, edits>>

\* What is migrated is what the lock has found.  (Faulty variant: the first look.)
FirstLook(c) == req[c].looked
SecondLook(c) == View(c)
MigrateCatalogue(c) ==
    /\ At(c, "migrate")
    /\ Take(c, "catalogue")
    /\ LET m == Migrated(SecondLook(c))
       IN req' = [req EXCEPT ![c].looked = None, ![c].own = Put(@, "catalogue", m.catalogue),
                             ![c].draft = m.balance, ![c].stage = IF m.balance = None THEN "act" ELSE "migrate balance"]
    /\ UNCHANGED <<node, reviewed, acked, edits>>

MigrateBalance(c) ==
    /\ At(c, "migrate balance")
    /\ Take(c, "balance")
    /\ req' = [req EXCEPT ![c].own = Put(@, "balance", req[c].draft), ![c].stage = "act"]
    /\ UNCHANGED <<node, reviewed, acked, edits>>

---------------------------------------------------------------------------
(* What a request reads and saves.                                            *)

Show(c) ==
    /\ At(c, "act") /\ req[c].kind \in {"get", "preview"}
    /\ IF Readable(Migrated(View(c)).catalogue)
       THEN req' = [req EXCEPT ![c].stage = "done", ![c].shown = Seen(View(c))]
       ELSE req' = [req EXCEPT ![c].stage = "failed"]
    /\ UNCHANGED <<node, lock, made, reviewed, acked, edits>>

Overwrite(c, k, doc) ==
    /\ Take(c, k)
    /\ req' = [req EXCEPT ![c].own = Put(@, k, doc), ![c].stage = "done"]

NewBalance(n) == [factor |-> None, value |-> n]
Save(c) ==
    /\ At(c, "act")
    /\ \/ req[c].kind = "put catalogue" /\ Overwrite(c, "catalogue", Stored(req[c].arg))
       \/ req[c].kind = "put balance" /\ Overwrite(c, "balance", NewBalance(req[c].arg))
       \/ req[c].kind = "put battle" /\ Overwrite(c, "battle", req[c].arg)
    /\ UNCHANGED <<node, reviewed, acked, edits>>

\* Settings that are not those reviewed are refused; the file is merged into what
\* is there and checked as a whole; then all three documents are written.
CheckFile(c) ==
    /\ At(c, "act") /\ req[c].kind = "file"
    /\ LET now == Seen(View(c))
           doc == Merged(now.catalogue, req[c].arg.catalogue)
       IN IF now = reviewed[c] /\ Readable(doc) /\ MayReplace(Read(doc))
          THEN req' = [req EXCEPT ![c].stage = "write",
                 ![c].draft = [catalogue |-> Stored(Read(doc)),
                               balance |-> NewBalance(req[c].arg.balance), battle |-> now.battle]]
          ELSE req' = [req EXCEPT ![c].stage = "failed"]
    /\ UNCHANGED <<node, lock, made, reviewed, acked, edits>>

WriteFile(c) ==
    /\ At(c, "write")
    /\ TakeAll(c, Keys)
    /\ req' = [req EXCEPT ![c].own = req[c].draft, ![c].stage = "done"]
    /\ UNCHANGED <<node, reviewed, acked, edits>>

\* What a request made that another has stored meanwhile.
Twins(c) == {k \in made[c] : node[k] # None}

Unlocked(c) == [k \in Keys |-> IF lock[k] = c THEN None ELSE lock[k]]
Ended(c) ==
    /\ req' = [req EXCEPT ![c] = NoRequest]
    /\ lock' = Unlocked(c)
    /\ made' = [made EXCEPT ![c] = {}]
CommitSettings(c) ==
    /\ At(c, "done") /\ Ended(c)
    /\ node' = View(c)
    /\ doubled' = Twins(c)
    /\ reviewed' = [reviewed EXCEPT ![c] =
         IF req[c].kind = "preview" THEN req[c].shown
         ELSE IF req[c].kind = "file" THEN None ELSE @]
    /\ acked' = IF req[c].kind \in {"put catalogue", "file"} THEN req[c].own.catalogue ELSE acked
    /\ UNCHANGED edits

\* A refusal, a failure, a time limit or a deadlock the database ends.
Abort(c) ==
    /\ req[c] # NoRequest /\ Ended(c)
    /\ UNCHANGED <<node, reviewed, acked, edits>>

---------------------------------------------------------------------------
SInit ==
    /\ node \in Starts /\ start = node
    /\ lock = [k \in Keys |-> None] /\ made = [c \in Admins |-> {}] /\ doubled = {}
    /\ req = [c \in Admins |-> NoRequest]
    /\ reviewed = [c \in Admins |-> None]
    /\ acked = None
    /\ edits = MaxEdits

NewRequest(c) ==
    \/ Get(c) \/ Preview(c)
    \/ \E e \in Edits : PutCatalogue(c, e) \/ SaveFile(c, [catalogue |-> e, balance |-> 2])
    \/ PutBalance(c, 1) \/ PutBattle(c, 1)
Work(c) ==
    \/ LockFile(c) \/ Check(c) \/ MigrateCatalogue(c) \/ MigrateBalance(c)
    \/ Show(c) \/ Save(c) \/ CheckFile(c) \/ WriteFile(c) \/ Abort(c)
SNext ==
    /\ doubled = {} /\ UNCHANGED start
    /\ \E c \in Admins : CommitSettings(c) \/ ((NewRequest(c) \/ Work(c)) /\ UNCHANGED doubled)
SSpec == SInit /\ [][SNext]_svars

---------------------------------------------------------------------------
(* Properties.                                                                *)

\* Only a request that goes on holds a lock, and it has locked or made what it wrote.
SettingsTypeOK ==
    /\ \A k \in Keys : lock[k] # None => req[lock[k]] # NoRequest /\ node[k] # None
    /\ \A c \in Admins : Twins(c) = {} => \A k \in DOMAIN req[c].own : lock[k] = c \/ k \in made[c]

\* A document that was stored at first never becomes two.
Alone == \A k \in doubled : start[k] = None

\* boss_settings_migration: whoever comes first, however often a document is
\* saved again, the bosses take the common factor in once.
DuePower(e) ==
    LET enemy == First(start).enemies[e]
    IN IF First(start).version # 1 /\ enemy.boss THEN enemy.power * Factor(start) ELSE enemy.power
TookIn(enemies) ==
    \A e \in DOMAIN First(start).enemies :
        /\ e \in DOMAIN enemies /\ {"boss", "power"} \subseteq DOMAIN enemies[e]
        /\ enemies[e].boss = First(start).enemies[e].boss /\ enemies[e].power = DuePower(e)
BossScaledOnce ==
    node.catalogue # None =>
        IF node.catalogue.version = 1 THEN TookIn(node.catalogue.enemies)
        ELSE node.catalogue = start.catalogue

\* A catalogue that was saved is not replaced by a migration that looked at the
\* settings before it was there.
CatalogueKept == acked # None => node.catalogue = acked

\* A file is saved over the documents its administrator was shown: what was stored when
\* the save began is what the file was reviewed with.
SavedAsReviewed ==
    \A c \in Admins : \A k \in req[c].locks :
      At(c, "done") /\ req[c].kind = "file" /\ req'[c] = NoRequest /\ node' # node /\ doubled' = {}
        => Seen(node)[k] = reviewed[c][k]
\* save_settings_file: the file replaces only what was reviewed, at every commit.
FileSavedAsReviewed == [][SavedAsReviewed]_svars

\* Of the settings: the bosses take the old common factor in once, and a catalogue
\* that was saved is not replaced by a late migration, until two requests have made
\* the same document; and only one that was not stored at first is made twice.
SettingsHold == Alone /\ (doubled = {} => SettingsTypeOK /\ BossScaledOnce /\ CatalogueKept)
=============================================================================
