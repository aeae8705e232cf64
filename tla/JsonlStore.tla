------------------------------ MODULE JsonlStore ------------------------------
(***************************************************************************)
(* JsonlAuditStore (governance/storage.py) and the numbering of events in    *)
(* AuditLog (governance/audit.py): one process that appends the events of a  *)
(* trace to a file, crashes, and goes on from what it can load.              *)
(*                                                                           *)
(* An event is its number in the trace.  The file is its terminated lines    *)
(* and what follows the last of them.  Two lines that were run together, or  *)
(* a part of one, parse as nothing: Garbage.  A line that lacks only its end *)
(* parses.                                                                   *)
(*                                                                           *)
(* A definition whose comment starts with `Mutated' is a likely bug in the   *)
(* one that follows it, for the properties to catch; no action uses it.      *)
(***************************************************************************)
EXTENDS Integers, Sequences

CONSTANTS
    MaxEvent,    \* bound on the numbers of events
    MaxLines,    \* bound on the lines of the file
    Garbage

ASSUME JsonlStoreAssumption ==
    /\ MaxEvent \in Nat
    /\ MaxLines \in Nat
    /\ Garbage \notin Int

NoTail == 0
Events == 1..MaxEvent

VARIABLES
    file,       \* its lines and its tail
    synced,     \* how many lines are safe from a power failure
    appending,  \* the step append() is at, and its event
    next,       \* the number of the next event, NoTail while the process is down
    failed,     \* the event whose append() has just raised, which may be tried again
    tried,      \* history: the events that were given to append()
    stored,     \* history: those for which it returned
    mishap      \* history: whether an append() failed or was cut off, and if
                \* only "before" the last load or "since"

jsonlVars == <<file, synced, appending, next, failed, tried, stored, mishap>>

File(lines, tail) == [lines |-> lines, tail |-> tail]
IdleAppend == [step |-> "idle", event |-> NoTail]

JsonlInit ==
    /\ file = File(<<>>, NoTail)
    /\ synced = 0
    /\ appending = IdleAppend
    /\ next = 1
    /\ failed = NoTail
    /\ tried = {}
    /\ stored = {}
    /\ mishap = "never"

\* The file with all of a line written, ...
WithLine(e) ==
    File(Append(file.lines, IF file.tail = NoTail THEN e ELSE Garbage), NoTail)

\* ... or with nothing, some or all of it but its end.
WithPart(e) ==
    {file, File(file.lines, Garbage)} \cup
        (IF file.tail = NoTail THEN {File(file.lines, e)} ELSE {})

\* What a file may be cut back to when the power fails: the lines that are not
\* safe go, and a piece of the first that went may stay.
CutBack(f) ==
    {f, File(f.lines, NoTail)} \cup
    (IF f.tail = NoTail THEN {} ELSE {File(f.lines, Garbage)}) \cup
    UNION {{File(SubSeq(f.lines, 1, n), tail) : tail \in {NoTail, Garbage, f.lines[n + 1]}}
             : n \in synced..(Len(f.lines) - 1)}

\* AuditLog.from_jsonl: every line parses and no id comes twice.
Loaded(f) == IF f.tail = NoTail THEN f.lines ELSE Append(f.lines, f.tail)
Loads(f) ==
    /\ \A i \in DOMAIN Loaded(f) : Loaded(f)[i] # Garbage
    /\ \A i, j \in DOMAIN Loaded(f) : Loaded(f)[i] = Loaded(f)[j] => i = j

\* Mutated: the events are counted.
NumberAfterCount(f) == Len(Loaded(f)) + 1

\* AuditLog.next_sequence: one above the highest number.
NumberAfter(f) ==
    CHOOSE n \in 1..(MaxEvent + 1) :
        /\ \A i \in DOMAIN Loaded(f) : Loaded(f)[i] < n
        /\ n = 1 \/ \E i \in DOMAIN Loaded(f) : Loaded(f)[i] = n - 1

-----------------------------------------------------------------------------

\* The process hands the next event to append(), or the same one again.
BeginAppend(e) ==
    /\ next # NoTail
    /\ appending.step = "idle"
    /\ Len(file.lines) < MaxLines
    /\ e \in Events
    /\ e = next \/ e = failed
    /\ appending' = [step |-> "write", event |-> e]
    /\ next' = IF e = next THEN next + 1 ELSE next
    /\ failed' = NoTail
    /\ tried' = tried \cup {e}
    /\ UNCHANGED <<file, synced, stored, mishap>>

WriteLine ==
    /\ appending.step = "write"
    /\ file' = WithLine(appending.event)
    /\ appending' = [appending EXCEPT !.step = "sync"]
    /\ UNCHANGED <<synced, next, failed, tried, stored, mishap>>

SyncLine ==
    /\ appending.step = "sync"
    /\ synced' = Len(file.lines)
    /\ stored' = stored \cup {appending.event}
    /\ appending' = IdleAppend
    /\ UNCHANGED <<file, next, failed, tried, mishap>>

\* Mutated: the event of a failed append() is kept as if it were at hand.
AppendFailsKept ==
    /\ appending.step # "idle"
    /\ appending' = [appending EXCEPT !.step = "idle"]
    /\ failed' = appending.event
    /\ mishap' = "since"
    /\ UNCHANGED <<file, synced, next, tried, stored>>

\* append() raises StoreError: the write was short or the fsync failed.
AppendFails ==
    /\ appending.step # "idle"
    /\ IF appending.step = "write" THEN file' \in WithPart(appending.event)
                                   ELSE file' = file
    /\ appending' = IdleAppend
    /\ failed' = appending.event
    /\ mishap' = "since"
    /\ UNCHANGED <<synced, next, tried, stored>>

Down ==
    /\ appending' = IdleAppend
    /\ next' = NoTail
    /\ failed' = NoTail
    /\ mishap' = IF appending.step = "idle" THEN mishap ELSE "since"
    /\ UNCHANGED <<tried, stored>>

WriterCrashes ==
    /\ next # NoTail
    /\ IF appending.step = "write" THEN file' \in WithPart(appending.event)
                                   ELSE file' = file
    /\ Down
    /\ UNCHANGED synced

HostFails ==
    /\ \E f \in IF appending.step = "write"
                THEN WithPart(appending.event) \cup {WithLine(appending.event)}
                ELSE {file} :
          file' \in CutBack(f)
    /\ synced' = Len(file'.lines)
    /\ Down

\* A new process numbers its events from what it loads, or does not start.
Recover ==
    /\ next = NoTail
    /\ Loads(file)
    /\ next' = NumberAfter(file)
    /\ mishap' = IF mishap = "never" THEN "never" ELSE "before"
    /\ UNCHANGED <<file, synced, appending, failed, tried, stored>>

JsonlNext ==
    \/ \E e \in Events : BeginAppend(e)
    \/ WriteLine
    \/ SyncLine
    \/ AppendFails
    \/ WriterCrashes
    \/ HostFails
    \/ Recover

JsonlSpec == JsonlInit /\ [][JsonlNext]_jsonlVars

-----------------------------------------------------------------------------
(* Properties.                                                              *)

\* Every variable has its type.
JsonlTypeOK ==
    /\ file \in [lines : Seq(Events \cup {Garbage}), tail : Events \cup {NoTail, Garbage}]
    /\ Len(file.lines) <= MaxLines
    /\ synced \in 0..Len(file.lines)
    /\ appending \in [step : {"write", "sync"}, event : Events] \cup {IdleAppend}
    /\ next \in 0..(MaxEvent + 1)
    /\ failed \in Events \cup {NoTail}
    /\ tried \subseteq Events
    /\ stored \subseteq tried
    /\ mishap \in {"never", "before", "since"}

\* README.md: JsonlAuditStore "recovers fsynced decision events".  What load()
\* returns is in order, holds every event whose append() returned and none that
\* was not appended, across crashes, short writes, failed fsyncs and power
\* failures; and a recovered process never gives an event a number that was
\* stored.  load() raises only if an append() once failed or was cut off.
RecoveryIsHonest ==
    /\ Loads(file) =>
           LET loaded == Loaded(file)
           IN  /\ \A i, j \in DOMAIN loaded : i < j => loaded[i] < loaded[j]
               /\ stored \subseteq {loaded[i] : i \in DOMAIN loaded}
               /\ {loaded[i] : i \in DOMAIN loaded} \subseteq tried
    /\ ~Loads(file) => mishap # "never"
    /\ next # NoTail => \A e \in stored : e < next

\* README.md: what append() returned from is recovered: once a process has
\* loaded the file, it stays loadable unless an append() fails again.
LoadedStaysLoadable == ~Loads(file) => mishap = "since"
=============================================================================
