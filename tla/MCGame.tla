------------------------------- MODULE MCGame --------------------------------
(* Three parts of the game beside the battles, which share no state and are
   checked in one run: the pools of a region, the settings of an administrator,
   and a catalogue document through the versions.  The first state says which. *)
EXTENDS GameSettings, RegionPools

CONSTANTS OldDocuments, Patches, Parts

VARIABLES part, doc

Catalog  == INSTANCE CatalogueDocument
Forms    == INSTANCE CatalogueSamples

gameVars == <<part, poolVars, svars, doc>>

\* Databases.
BuiltIn == Forms!BuiltIn
OldDoc == [BuiltIn EXCEPT !.version = 0]
New == Stored(Read(Consolidated(BuiltIn, 3)))
Database(catalogue, factor, battle) ==
    [catalogue |-> catalogue, battle |-> battle,
     balance |-> [factor |-> factor, value |-> 0]]

\* Pools and settings that do not move are those of one of the states they begin in.
NoPools == save = NewSave
NoSettings == node = Database(None, 3, 0)

GameInit ==
    /\ part \in Parts
    /\ PoolsInit /\ (part # "pools" => NoPools)
    /\ SInit /\ (part # "settings" => NoSettings)
    /\ IF part = "document" THEN Catalog!DInit ELSE doc = None

GameNext ==
    /\ UNCHANGED part
    /\ \/ part = "pools" /\ PoolsNext /\ UNCHANGED <<svars, doc>>
       \/ part = "settings" /\ SNext /\ UNCHANGED <<poolVars, doc>>
       \/ part = "document" /\ Catalog!DNext /\ UNCHANGED <<poolVars, svars>>
GameSpec == GameInit /\ [][GameNext]_gameVars

---------------------------------------------------------------------------
(* What each part must keep; the modules say why.  SettingsHold and
   FileSavedAsReviewed are those of GameSettings, PoolsHold that of RegionPools. *)

\* What is read from a saved document is what was saved, and it stays readable when
\* the program no longer knows a trigger.
DocumentsLast ==
    /\ [](part = "document" => Catalog!DocumentTypeOK /\ Catalog!OldStillReadable)
    /\ [][part = "document" => Catalog!ReadsBack]_gameVars

---------------------------------------------------------------------------
(* Instances.                                                                 *)

\* Quizzes there are at first, and a save of a time before there were pools.
MCMade == {1, 2}
MCOldSaves == {[NewSave EXCEPT !.quizzes = <<2>>, !.enemies = 2 :> {{1}}]}

AllParts == {"pools", "settings", "document"}

MCStarts == {Database(OldDoc, 2, 0), Database(New, 3, 0), Database(None, 3, 0),
             [k \in Keys |-> None]}
MCSamples == Forms!Samples
MCAdditions == Forms!Additions
MCEdits == {[items |-> "potion" :> [skill |-> "power", weapon |-> TRUE, price |-> FALSE]]}
MCSym == Permutations(Clients) \cup Permutations(Admins)
=============================================================================
