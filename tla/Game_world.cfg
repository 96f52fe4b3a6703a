SPECIFICATION GameSpec
CONSTANTS
 Parts <- AllParts
 Quizzes = {1,2,3}
 Deepest = 2
 N = 1
 EnemyTypes = 1
 EnemySize = 1
 Clients = {c1, c2}
 c1 = c1
 c2 = c2
 Jobs = {1}
 Made <- MCMade
 OldSaves <- MCOldSaves
 MaxSaves = 2
 MaxAsks = 2
 MaxWorld = 1
 MaxBases = 2
 Required = {"sword"}
 None = None
 Admins = {a1, a2}
 a1 = a1
 a2 = a2
 Default <- BuiltIn
 Edits <- MCEdits
 MaxEdits = 2
 Starts <- MCStarts
 OldDocuments <- MCSamples
 Patches <- MCAdditions
CHECK_DEADLOCK FALSE
 
INVARIANT SettingsHold
PROPERTY FileSavedAsReviewed
PROPERTY DocumentsLast
SYMMETRY MCSym
