------------------------------ MODULE JsonStore ------------------------------
(***************************************************************************)
(* AtomicJsonStore (governance/storage.py): one file that is replaced as a   *)
(* whole, by one process that crashes, on a host whose disk fails and which  *)
(* loses power.                                                              *)
(*                                                                           *)
(* Payloads are the numbers of the saves.  A file shows what was written to  *)
(* it at once; what is still there after a power failure is another matter,  *)
(* so the model keeps what the name may then show: until the directory is    *)
(* synchronised that is what it shows now or what it showed before.          *)
(* load() reads what the name shows and changes nothing; it raises on        *)
(* NoDocument and Torn.                                                      *)
(*                                                                           *)
(* A definition whose comment starts with `Mutated' is a likely bug in the   *)
(* one that follows it, for the properties to catch; no action uses it.      *)
(***************************************************************************)
EXTENDS Integers

CONSTANTS
    MaxSaves,    \* bound on the saves that are begun
    Torn         \* part of a document, which does not parse

ASSUME JsonStoreAssumption ==
    /\ MaxSaves \in Nat
    /\ Torn \notin Int

NoDocument == 0
Documents == NoDocument..MaxSaves

VARIABLES
    document,     \* what the path shows
    survivors,    \* what it may show after a power failure
    temporary,    \* what the temporary file shows, and whether that is synced
    saving,       \* the step save() is at
    saves,        \* the number of the last save that was begun
    saved,        \* history: the last save that returned
    opensDirectories  \* whether the host lets directories be opened

jsonVars == <<document, survivors, temporary, saving, saves, saved, opensDirectories>>

Temporary(shown, isSynced) == [shown |-> shown, synced |-> isSynced]
NoTemporary == Temporary(NoDocument, TRUE)

JsonInit ==
    /\ document = NoDocument
    /\ survivors = {NoDocument}
    /\ temporary = NoTemporary
    /\ saving = "idle"
    /\ saves = 0
    /\ saved = 0
    /\ opensDirectories \in BOOLEAN

\* Opening the temporary file for writing truncates what an earlier save left.
BeginSave ==
    /\ saving = "idle"
    /\ saves < MaxSaves
    /\ saves' = saves + 1
    /\ temporary' = Temporary(Torn, FALSE)
    /\ saving' = "write"
    /\ UNCHANGED <<document, survivors, saved, opensDirectories>>

\* json.dump and flush.
WriteTemporary ==
    /\ saving = "write"
    /\ temporary' = Temporary(saves, FALSE)
    /\ saving' = "sync"
    /\ UNCHANGED <<document, survivors, saves, saved, opensDirectories>>

SyncTemporary ==
    /\ saving = "sync"
    /\ temporary' = Temporary(saves, TRUE)
    /\ saving' = "replace"
    /\ UNCHANGED <<document, survivors, saves, saved, opensDirectories>>

\* What may be left of a file after a power failure.
Remains(file) == IF file.synced THEN {file.shown} ELSE {file.shown, Torn}

Replace ==
    /\ saving = "replace"
    /\ document' = temporary.shown
    /\ survivors' = survivors \cup Remains(temporary)
    /\ temporary' = NoTemporary
    /\ saving' = "directory"
    /\ UNCHANGED <<saves, saved, opensDirectories>>

\* Mutated: the directory is not synchronised.
ReturnAtOnce ==
    /\ saving = "directory"
    /\ opensDirectories
    /\ saved' = saves
    /\ saving' = "idle"
    /\ UNCHANGED <<document, survivors, temporary, saves, opensDirectories>>

SyncDirectory ==
    /\ saving = "directory"
    /\ opensDirectories
    /\ survivors' = {document}
    /\ saved' = saves
    /\ saving' = "idle"
    /\ UNCHANGED <<document, temporary, saves, opensDirectories>>

\* save() returns all the same where directories cannot be opened.
SkipDirectory ==
    /\ saving = "directory"
    /\ ~opensDirectories
    /\ saved' = saves
    /\ saving' = "idle"
    /\ UNCHANGED <<document, survivors, temporary, saves, opensDirectories>>

\* A step raises: the temporary file is removed and save() raises StoreError,
\* behind the replacement if it was the last step.
SaveFails ==
    /\ saving # "idle"
    /\ temporary' = NoTemporary
    /\ saving' = "idle"
    /\ UNCHANGED <<document, survivors, saves, saved, opensDirectories>>

SaverCrashes ==
    /\ saving # "idle"
    /\ saving' = "idle"
    /\ UNCHANGED <<document, survivors, temporary, saves, saved, opensDirectories>>

PowerFails ==
    /\ document' \in survivors
    /\ survivors' = {document'}
    /\ temporary' \in {NoTemporary} \cup {Temporary(r, TRUE) : r \in Remains(temporary)}
    /\ saving' = "idle"
    /\ UNCHANGED <<saves, saved, opensDirectories>>

JsonNext ==
    \/ BeginSave
    \/ WriteTemporary
    \/ SyncTemporary
    \/ Replace
    \/ SyncDirectory
    \/ SkipDirectory
    \/ SaveFails
    \/ SaverCrashes
    \/ PowerFails

JsonSpec == JsonInit /\ [][JsonNext]_jsonVars

-----------------------------------------------------------------------------
(* Properties.                                                              *)

\* Every variable has its type.
JsonTypeOK ==
    /\ document \in Documents \cup {Torn}
    /\ survivors \subseteq Documents \cup {Torn}
    /\ temporary \in [shown : Documents \cup {Torn}, synced : BOOLEAN]
    /\ saving \in {"idle", "write", "sync", "replace", "directory"}
    /\ saves \in Documents
    /\ saved \in Documents
    /\ opensDirectories \in BOOLEAN

\* M18: "crash-safe recovery ... with atomic replacement, fsync".  Whatever
\* crashes, fails or loses power, and at whatever step, the file is a whole
\* document; and it is the one that was saved last or one whose save was begun
\* later, now and after the next power failure, if save() could synchronise the
\* directory.
SavedStateSurvives ==
    /\ Torn \notin survivors \cup {document}
    /\ opensDirectories => survivors \cup {document} \subseteq saved..saves
=============================================================================
