----------------------------- MODULE StoresProofs -----------------------------
(***************************************************************************)
(* What is proved of the JSON file, the JSONL log and the audit table, and   *)
(* of these and the store of policy versions side by side, for any number of *)
(* saves, events, rows and failures.                                         *)
(***************************************************************************)
EXTENDS Stores, PolicyVersionsProofs, FiniteSetTheorems, TLAPS

-----------------------------------------------------------------------------
(* The JSON file.                                                           *)

\* What saving relies on: what is to replace the document is on the disk by
\* then, and the document is among what may show after a power failure.
JsonInv ==
    /\ JsonTypeOK
    /\ saved <= saves
    /\ document \in survivors
    /\ saving = "sync" => temporary.shown = saves
    /\ saving = "replace" => temporary = Temporary(saves, TRUE)
    /\ saving = "directory" => document = saves
    /\ saving # "idle" => saves >= 1
    /\ SavedStateSurvives

\* The path shows no document at first.
LEMMA JsonInitially == JsonInit => JsonInv
  BY JsonStoreAssumption
  DEF JsonInit, JsonInv, JsonTypeOK, SavedStateSurvives, Documents, NoDocument,
      NoTemporary, Temporary

\* JsonInv is inductive.
LEMMA JsonInductive == JsonInv /\ [JsonNext]_jsonVars => JsonInv'
<1> SUFFICES ASSUME JsonInv, [JsonNext]_jsonVars PROVE JsonInv'
  OBVIOUS
<1> USE JsonStoreAssumption DEF JsonInv, JsonTypeOK, SavedStateSurvives, Documents,
                                NoDocument, NoTemporary, Temporary
<1>1. CASE BeginSave
  BY <1>1 DEF BeginSave
<1>2. CASE WriteTemporary
  BY <1>2 DEF WriteTemporary
<1>3. CASE SyncTemporary
  BY <1>3 DEF SyncTemporary
<1>4. CASE Replace
  <2>1. temporary.shown = saves /\ Remains(temporary) = {saves}
    BY <1>4 DEF Replace, Remains
  <2>2. document' = saves /\ survivors' = survivors \cup {saves}
    BY <1>4, <2>1 DEF Replace
  <2>3. /\ survivors' \subseteq Documents \cup {Torn}
        /\ Torn \notin survivors' \cup {document'}
        /\ opensDirectories => survivors' \cup {document'} \subseteq saved..saves
    <3>1. saves \in Int /\ saved \in Int /\ saves # Torn
      OBVIOUS
    <3>2. opensDirectories => survivors \subseteq saved..saves
      OBVIOUS
    <3>3. opensDirectories => survivors' \cup {document'} \subseteq saved..saves
      BY <2>2, <3>1, <3>2
    <3> QED
      BY <2>2, <3>1, <3>3
  <2>4. temporary' = [shown |-> 0, synced |-> TRUE]
    BY <1>4 DEF Replace
  <2> QED
    BY <1>4, <2>2, <2>3, <2>4 DEF Replace
<1>5. CASE SyncDirectory
  BY <1>5 DEF SyncDirectory
<1>6. CASE SkipDirectory
  BY <1>6 DEF SkipDirectory
<1>7. CASE SaveFails
  BY <1>7 DEF SaveFails
<1>8. CASE SaverCrashes
  BY <1>8 DEF SaverCrashes
<1>9. CASE PowerFails
  <2>1. temporary' \in [shown : Documents \cup {Torn}, synced : BOOLEAN]
    <3>1. Remains(temporary) \subseteq Documents \cup {Torn}
      BY DEF Remains
    <3>2. CASE temporary' = NoTemporary
      BY <3>2
    <3>3. ASSUME NEW r \in Remains(temporary), temporary' = Temporary(r, TRUE)
          PROVE  temporary' \in [shown : Documents \cup {Torn}, synced : BOOLEAN]
      BY <3>1, <3>3
    <3> QED
      BY <1>9, <3>2, <3>3 DEF PowerFails
  <2> QED
    BY <1>9, <2>1 DEF PowerFails
<1>10. CASE UNCHANGED jsonVars
  BY <1>10 DEF jsonVars
<1> QED
  BY <1>1, <1>2, <1>3, <1>4, <1>5, <1>6, <1>7, <1>8, <1>9, <1>10 DEF JsonNext

\* The variables of the JSON file keep their types.
THEOREM JsonTypeCorrect == JsonSpec => []JsonTypeOK
  BY JsonInitially, JsonInductive, PTL DEF JsonSpec, JsonInv

\* After any number of saves, crashes and failures the file is a whole document,
\* and a saved one is never replaced by one that was saved before it.
THEOREM SavesSurvive == JsonSpec => []SavedStateSurvives
  BY JsonInitially, JsonInductive, PTL DEF JsonSpec, JsonInv
-----------------------------------------------------------------------------
(* The JSONL log.                                                           *)

FileType == [lines : Seq(Events \cup {Garbage}), tail : Events \cup {NoTail, Garbage}]

\* What may have become of the file when the events of `added' were written to
\* it: each line is as it was, or garbage, or a new one at the end.
Grown(f, added) ==
    /\ f \in FileType
    /\ Len(f.lines) \in synced..(Len(file.lines) + 1)
    /\ \A i \in 1..synced : f.lines[i] = file.lines[i]
    /\ \A i \in DOMAIN Loaded(f) :
          \/ Loaded(f)[i] = Garbage
          \/ i \in DOMAIN Loaded(file) /\ Loaded(f)[i] = Loaded(file)[i]
          \/ i = Len(Loaded(file)) + 1 /\ Loaded(f)[i] \in added

\* What an append() that is under way may still write.
Writing == IF appending.step = "write" THEN {appending.event} ELSE {}

\* The events in the file were given to append(), in this order, with the one
\* that failed perhaps twice, and are below the next number.
Ordered ==
    /\ \A i \in DOMAIN Loaded(file) : Loaded(file)[i] \in tried \cup {Garbage}
    /\ \A i, j \in DOMAIN Loaded(file) :
          i < j /\ Loaded(file)[i] # Garbage /\ Loaded(file)[j] # Garbage =>
              Loaded(file)[i] <= Loaded(file)[j]
    /\ next # NoTail => \A i \in DOMAIN Loaded(file) :
          Loaded(file)[i] # Garbage => Loaded(file)[i] < next

\* The number that is being appended, or may be tried again, was the last.
Numbered ==
    /\ appending.step # "idle" => next = appending.event + 1 /\ appending.event \in tried
    /\ failed # NoTail => next = failed + 1

\* What append() returned from is among the synchronised lines, unless its line
\* was run together with what a failed append() left.
Kept ==
    /\ \A e \in stored : \E i \in 1..synced : file.lines[i] \in {e, Garbage}
    /\ next # NoTail => \A e \in stored : e < next
    /\ appending.step = "write" => Len(file.lines) < MaxLines
    /\ appending.step = "sync" => /\ Len(file.lines) >= 1
                                  /\ file.tail = NoTail
                                  /\ file.lines[Len(file.lines)] \in {appending.event, Garbage}

\* As long as no append() failed the file is as it should be.
Unharmed ==
    mishap = "never" =>
        /\ file.tail = NoTail
        /\ failed = NoTail
        /\ \A i \in DOMAIN file.lines : file.lines[i] # Garbage
        /\ \A i, j \in DOMAIN file.lines : i < j => file.lines[i] < file.lines[j]
        /\ appending.step = "write" =>
              \A i \in DOMAIN file.lines : file.lines[i] < appending.event
        /\ synced = IF appending.step = "sync" THEN Len(file.lines) - 1
                                               ELSE Len(file.lines)

JsonlInv == JsonlTypeOK /\ Ordered /\ Numbered /\ Kept /\ Unharmed

\* The log is empty at first.
LEMMA JsonlInitially == JsonlInit => JsonlInv
  BY JsonlStoreAssumption
  DEF JsonlInit, JsonlInv, JsonlTypeOK, Ordered, Numbered, Kept, Unharmed, File,
      NoTail, Events, IdleAppend, Loaded

\* What load() reads of a file: its lines, and the tail as one of them.
Reads(f) ==
    /\ Loaded(f) \in Seq(Events \cup {Garbage})
    /\ Len(Loaded(f)) = IF f.tail = NoTail THEN Len(f.lines) ELSE Len(f.lines) + 1
    /\ \A i \in 1..Len(f.lines) : Loaded(f)[i] = f.lines[i]
    /\ f.tail # NoTail => Loaded(f)[Len(f.lines) + 1] = f.tail
    /\ Len(f.lines) \in Nat
    /\ DOMAIN f.lines = 1..Len(f.lines)
    /\ DOMAIN Loaded(f) = 1..Len(Loaded(f))

\* Reading adds at most the tail to the lines of a file.
LEMMA LoadedType ==
    ASSUME NEW f \in FileType
    PROVE  Reads(f)
<1> USE DEF Reads
<1>1. f.lines \in Seq(Events \cup {Garbage})
  BY DEF FileType
<1>2. CASE f.tail = NoTail
  BY <1>1, <1>2 DEF Loaded
<1>3. CASE f.tail # NoTail
  <2>1. f.tail \in Events \cup {Garbage}
    BY <1>3 DEF FileType
  <2> QED
    BY <1>1, <1>3, <2>1 DEF Loaded
<1> QED
  BY <1>2, <1>3

\* A write that is cut off grows the file, ...
LEMMA PartGrows ==
    ASSUME JsonlTypeOK, NEW e \in Events, NEW f \in WithPart(e) \cup {WithLine(e)}
    PROVE  Grown(f, {e}) /\ Len(f.lines) >= Len(file.lines)
           /\ \A i \in 1..Len(file.lines) : f.lines[i] = file.lines[i]
<1>1. file \in FileType /\ synced \in 0..Len(file.lines)
  BY DEF JsonlTypeOK, FileType
<1>2. 0 \notin Events /\ Garbage # 0
  BY JsonlStoreAssumption DEF Events
<1>r. Reads(file)
  BY <1>1, LoadedType
<1>3. CASE f = file
  BY <1>1, <1>3, <1>r DEF Grown, Reads
<1>4. CASE f = File(file.lines, Garbage)
  <2>1. f \in FileType /\ f.lines = file.lines /\ f.tail = Garbage /\ f.tail # NoTail
    BY <1>1, <1>2, <1>4 DEF FileType, File, NoTail
  <2>2. Reads(f)
    BY <2>1, LoadedType
  <2>3. /\ \A i \in 1..Len(file.lines) : f.lines[i] = file.lines[i]
        /\ Len(f.lines) \in Len(file.lines)..(Len(file.lines) + 1)
    BY <2>1, <1>r DEF Reads
  <2>4. \A i \in DOMAIN Loaded(f) :
          \/ Loaded(f)[i] = Garbage
          \/ i \in DOMAIN Loaded(file) /\ Loaded(f)[i] = Loaded(file)[i]
          \/ i = Len(Loaded(file)) + 1 /\ Loaded(f)[i] \in {e}
    BY <2>1, <2>2, <1>r DEF Reads
  <2> QED
    BY <1>1, <1>r, <2>1, <2>3, <2>4 DEF Grown, Reads
<1>5. CASE f = File(file.lines, e) /\ file.tail = NoTail
  <2>1. f \in FileType /\ f.lines = file.lines /\ f.tail = e /\ f.tail # NoTail
    BY <1>1, <1>2, <1>5 DEF FileType, File, NoTail
  <2>2. Reads(f)
    BY <2>1, LoadedType
  <2>3. \A i \in DOMAIN Loaded(f) :
          \/ i \in DOMAIN Loaded(file) /\ Loaded(f)[i] = Loaded(file)[i]
          \/ i = Len(Loaded(file)) + 1 /\ Loaded(f)[i] \in {e}
    BY <1>5, <2>1, <2>2, <1>r DEF Reads
  <2> QED
    BY <1>1, <1>r, <2>1, <2>3 DEF Grown, Reads
<1>6. CASE f = WithLine(e)
  <2> DEFINE last == IF file.tail = NoTail THEN e ELSE Garbage
  <2>1. /\ f \in FileType /\ f.tail = NoTail
        /\ Len(f.lines) = Len(file.lines) + 1
        /\ \A i \in 1..Len(file.lines) : f.lines[i] = file.lines[i]
        /\ f.lines[Len(file.lines) + 1] = last
    BY <1>1, <1>6 DEF FileType, File, WithLine, NoTail
  <2>2. Reads(f)
    BY <2>1, LoadedType
  <2>3. /\ \A i \in 1..Len(file.lines) : f.lines[i] = file.lines[i]
        /\ Len(f.lines) \in Len(file.lines)..(Len(file.lines) + 1)
    BY <2>1, <1>r DEF Reads
  <2>4. \A i \in DOMAIN Loaded(f) :
          \/ Loaded(f)[i] = Garbage
          \/ i \in DOMAIN Loaded(file) /\ Loaded(f)[i] = Loaded(file)[i]
          \/ i = Len(Loaded(file)) + 1 /\ Loaded(f)[i] \in {e}
    BY <2>1, <2>2, <1>r DEF Reads
  <2> QED
    BY <1>1, <1>r, <2>1, <2>3, <2>4 DEF Grown, Reads
<1> QED
  BY <1>3, <1>4, <1>5, <1>6 DEF WithPart

\* ... and a file that has grown and is cut back has grown.
LEMMA CutBackGrows ==
    ASSUME JsonlTypeOK, NEW added, NEW f, Grown(f, added), NEW g \in CutBack(f)
    PROVE  Grown(g, added)
<1>1. file \in FileType /\ synced \in 0..Len(file.lines) /\ f \in FileType
  BY DEF JsonlTypeOK, FileType, Grown
<1>2. Garbage # NoTail
  BY JsonlStoreAssumption DEF NoTail
<1>3. ASSUME g \in FileType,
             Len(g.lines) \in synced..Len(f.lines),
             \A i \in 1..Len(g.lines) : g.lines[i] = f.lines[i],
             g.tail # NoTail => \/ g.tail = Garbage
                                \/ /\ Len(g.lines) + 1 \in DOMAIN Loaded(f)
                                   /\ g.tail = Loaded(f)[Len(g.lines) + 1]
      PROVE  Grown(g, added)
  <2>r. Reads(f) /\ Reads(g)
    BY <1>1, <1>3, LoadedType
  <2>1. \A i \in DOMAIN Loaded(g) :
           \/ Loaded(g)[i] = Garbage
           \/ i \in DOMAIN Loaded(f) /\ Loaded(g)[i] = Loaded(f)[i]
    <3> SUFFICES ASSUME NEW i \in DOMAIN Loaded(g)
                 PROVE  \/ Loaded(g)[i] = Garbage
                        \/ i \in DOMAIN Loaded(f) /\ Loaded(g)[i] = Loaded(f)[i]
      OBVIOUS
    <3>1. CASE i \in 1..Len(g.lines)
      BY <1>3, <2>r, <3>1 DEF Reads
    <3>2. CASE i \notin 1..Len(g.lines)
      <4>1. i = Len(g.lines) + 1 /\ g.tail # NoTail
        BY <2>r, <3>2 DEF Reads
      <4>2. Loaded(g)[i] = g.tail
        BY <2>r, <4>1 DEF Reads
      <4> QED
        BY <1>3, <4>1, <4>2
    <3> QED
      BY <3>1, <3>2
  <2>2. \A i \in 1..synced : g.lines[i] = file.lines[i]
    BY <1>1, <1>3, <2>r DEF Grown, Reads
  <2>3. Len(g.lines) \in synced..(Len(file.lines) + 1)
    BY <1>1, <1>3, <2>r DEF Grown, Reads
  <2>4. \A i \in DOMAIN Loaded(g) :
          \/ Loaded(g)[i] = Garbage
          \/ i \in DOMAIN Loaded(file) /\ Loaded(g)[i] = Loaded(file)[i]
          \/ i = Len(Loaded(file)) + 1 /\ Loaded(g)[i] \in added
    BY <2>1 DEF Grown
  <2> QED
    BY <1>3, <2>2, <2>3, <2>4 DEF Grown
<1>4. CASE g = f
  BY <1>4
<1>5. CASE g = File(f.lines, NoTail)
  <2>1. g \in FileType /\ g.lines = f.lines /\ g.tail = NoTail
    BY <1>1, <1>5 DEF File, FileType
  <2> QED
    BY <1>1, <1>3, <2>1, LoadedType DEF Grown, Reads
<1>6. CASE g = File(f.lines, Garbage)
  <2>1. g \in FileType /\ g.lines = f.lines /\ g.tail = Garbage
    BY <1>1, <1>6 DEF File, FileType
  <2> QED
    BY <1>1, <1>3, <2>1, LoadedType DEF Grown, Reads
<1>7. ASSUME NEW n \in synced..(Len(f.lines) - 1),
             NEW tail \in {NoTail, Garbage, f.lines[n + 1]},
             g = File(SubSeq(f.lines, 1, n), tail)
      PROVE  Grown(g, added)
  <2>1. /\ f.lines \in Seq(Events \cup {Garbage}) /\ Len(f.lines) \in Nat
        /\ n \in Nat /\ n + 1 \in 1..Len(f.lines)
    BY <1>1, <1>7 DEF FileType
  <2>2. /\ SubSeq(f.lines, 1, n) \in Seq(Events \cup {Garbage})
        /\ Len(SubSeq(f.lines, 1, n)) = n
        /\ \A i \in 1..n : SubSeq(f.lines, 1, n)[i] = f.lines[i]
    BY <2>1
  <2>3. g.lines = SubSeq(f.lines, 1, n) /\ g.tail = tail
    BY <1>7 DEF File
  <2>4. f.lines[n + 1] \in Events \cup {Garbage} /\ Loaded(f)[n + 1] = f.lines[n + 1]
        /\ n + 1 \in DOMAIN Loaded(f)
    <3>1. Reads(f)
      BY <1>1, LoadedType
    <3> QED
      BY <2>1, <3>1 DEF Reads
  <2>5. g \in FileType
    BY <1>7, <2>2, <2>4 DEF File, FileType
  <2>6. /\ Len(g.lines) \in synced..Len(f.lines)
        /\ \A i \in 1..Len(g.lines) : g.lines[i] = f.lines[i]
    BY <1>1, <1>7, <2>1, <2>2, <2>3
  <2>7. g.tail # NoTail => \/ g.tail = Garbage
                           \/ /\ Len(g.lines) + 1 \in DOMAIN Loaded(f)
                              /\ g.tail = Loaded(f)[Len(g.lines) + 1]
    BY <1>7, <2>2, <2>3, <2>4
  <2> QED
    BY <1>3, <2>5, <2>6, <2>7
<1> QED
  BY <1>4, <1>5, <1>6, <1>7 DEF CutBack

\* A file that has grown by what is being appended is in order.
LEMMA GrownIsOrdered ==
    ASSUME JsonlInv, NEW added, Grown(file', added), added \subseteq tried,
           \A e \in added : e \in Int /\ next = e + 1 /\ next # NoTail,
           tried' = tried, next' \in {next, NoTail}
    PROVE  Ordered'
<1> DEFINE L == Loaded(file)
           M == Loaded(file')
<1>1. file \in FileType /\ file' \in FileType /\ tried \subseteq Int /\ next \in Int
  BY JsonlStoreAssumption DEF JsonlInv, JsonlTypeOK, FileType, Grown, Events
<1>2. Reads(file) /\ Reads(file')
  BY <1>1, LoadedType
<1>3. \A i \in DOMAIN M :
         \/ M[i] = Garbage
         \/ i \in DOMAIN L /\ M[i] = L[i]
         \/ i = Len(L) + 1 /\ M[i] \in added
  BY DEF Grown
<1>4. /\ DOMAIN L = 1..Len(L) /\ Len(L) \in Nat
      /\ DOMAIN M = 1..Len(M) /\ Len(M) \in Nat
      /\ \A i \in DOMAIN L : L[i] \in tried \cup {Garbage}
  BY <1>2 DEF Reads, JsonlInv, Ordered
<1>5. \A i \in DOMAIN M : M[i] \in tried \cup {Garbage}
  BY <1>3, <1>4
<1>6. ASSUME NEW i \in DOMAIN M, NEW j \in DOMAIN M, i < j,
             M[i] # Garbage, M[j] # Garbage
      PROVE  M[i] <= M[j]
  <2>1. i \in DOMAIN L /\ M[i] = L[i]
    BY <1>3, <1>4, <1>6
  <2>2. CASE j \in DOMAIN L /\ M[j] = L[j]
    BY <1>6, <2>1, <2>2 DEF JsonlInv, Ordered
  <2>3. CASE M[j] \in added
    <3>1. next = M[j] + 1 /\ M[j] \in Int /\ L[i] < next /\ L[i] \in Int
      BY <1>1, <1>4, <1>6, <2>1, <2>3 DEF JsonlInv, Ordered
    <3> QED
      BY <1>1, <2>1, <3>1
  <2> QED
    BY <1>3, <1>6, <2>2, <2>3
<1>7. ASSUME next' # NoTail, NEW i \in DOMAIN M, M[i] # Garbage
      PROVE  M[i] < next'
  <2>1. next' = next /\ next # NoTail
    BY <1>7
  <2>2. CASE i \in DOMAIN L /\ M[i] = L[i]
    <3>1. L[i] < next
      BY <1>7, <2>1, <2>2 DEF JsonlInv, Ordered
    <3> QED
      BY <2>1, <2>2, <3>1
  <2>3. CASE M[i] \in added
    <3>1. M[i] \in Int /\ next = M[i] + 1
      BY <2>3
    <3> QED
      BY <2>1, <3>1
  <2> QED
    BY <1>3, <1>7, <2>2, <2>3
<1>8. Loaded(file)' = M
  BY DEF Loaded
<1> QED
  BY <1>5, <1>6, <1>7, <1>8 DEF Ordered

\* A number was never given when it comes after all that are loaded.
LEMMA NumberIsNext ==
    ASSUME JsonlInv, Loads(file)
    PROVE  /\ NumberAfter(file) \in 1..(MaxEvent + 1)
           /\ \A i \in DOMAIN Loaded(file) : Loaded(file)[i] < NumberAfter(file)
<1> DEFINE L == Loaded(file)
           P(n) == /\ \A i \in DOMAIN L : L[i] < n
                   /\ n = 1 \/ \E i \in DOMAIN L : L[i] = n - 1
<1>1. Reads(file) /\ tried \subseteq Events /\ MaxEvent \in Nat
  BY JsonlStoreAssumption, LoadedType DEF JsonlInv, JsonlTypeOK, FileType
<1>2. /\ DOMAIN L = 1..Len(L) /\ Len(L) \in Nat
      /\ \A i \in DOMAIN L : L[i] \in Events
      /\ \A i, j \in DOMAIN L : i < j => L[i] <= L[j]
  BY <1>1 DEF JsonlInv, Ordered, Loads, Reads
<1>3. \E n \in 1..(MaxEvent + 1) : P(n)
  <2>1. CASE Len(L) = 0
    BY <1>1, <1>2, <2>1
  <2>2. CASE Len(L) > 0
    <3>1. Len(L) \in DOMAIN L /\ L[Len(L)] \in 1..MaxEvent
      BY <1>2, <2>2 DEF Events
    <3>2. \A i \in DOMAIN L : L[i] < L[Len(L)] + 1
      BY <1>2, <3>1 DEF Events
    <3>3. (L[Len(L)] + 1) - 1 = L[Len(L)]
      BY <3>1
    <3>4. P(L[Len(L)] + 1)
      BY <3>1, <3>2, <3>3
    <3>5. L[Len(L)] + 1 \in 1..(MaxEvent + 1)
      BY <1>1, <3>1
    <3> QED
      BY <3>4, <3>5
  <2> QED
    BY <1>2, <2>1, <2>2
<1>4. NumberAfter(file) = CHOOSE n \in 1..(MaxEvent + 1) : P(n)
  BY DEF NumberAfter
<1> HIDE DEF P
<1>5. NumberAfter(file) \in 1..(MaxEvent + 1) /\ P(NumberAfter(file))
  BY <1>3, <1>4
<1> QED
  BY <1>5 DEF P
-----------------------------------------------------------------------------

\* Each step preserves JsonlInv: an event is handed to append(), ...
LEMMA BeginAppendStep ==
    ASSUME JsonlInv, NEW e \in Events, BeginAppend(e)
    PROVE  JsonlInv'
<1> USE DEF JsonlInv
<1>1. next' = e + 1 /\ next' >= next /\ e \in Nat \ {0} /\ next \in Nat /\ next # NoTail
  BY JsonlStoreAssumption DEF BeginAppend, Numbered, JsonlTypeOK, Events, NoTail
<1>2. JsonlTypeOK'
  BY <1>1, JsonlStoreAssumption DEF BeginAppend, JsonlTypeOK, Events, NoTail
<1>3. Ordered'
  <2>1. Loaded(file)' = Loaded(file)
    BY DEF BeginAppend, Loaded
  <2>2. tried \subseteq tried'
    BY DEF BeginAppend
  <2>3. ASSUME NEW i \in DOMAIN Loaded(file), Loaded(file)[i] # Garbage
        PROVE  Loaded(file)[i] < next'
    <3>1. Loaded(file)[i] < next
      BY <1>1, <2>3 DEF Ordered
    <3>2. Loaded(file)[i] \in tried /\ tried \subseteq Int
      BY <2>3 DEF Ordered, JsonlTypeOK, Events
    <3>3. next' \in Nat
      BY <1>1
    <3>4. PICK n \in Int : n = Loaded(file)[i]
      BY <3>2
    <3>5. n < next
      BY <3>1, <3>4
    <3>6. n < next'
      BY <1>1, <3>3, <3>4, <3>5
    <3> QED
      BY <3>4, <3>6
  <2> QED
    BY <2>1, <2>2, <2>3 DEF Ordered
<1>4. Numbered'
  BY <1>1 DEF BeginAppend, Numbered
<1>5. Kept'
  <2>1. \A x \in stored : x < next'
    <3>1. \A x \in stored : x < next /\ x \in Int
      BY <1>1 DEF Kept, JsonlTypeOK, Events
    <3> QED
      BY <1>1, <3>1
  <2> QED
    BY <2>1 DEF BeginAppend, Kept
<1>6. Unharmed'
  <2> SUFFICES ASSUME mishap' = "never" PROVE Unharmed'
    BY DEF Unharmed
  <2>1. mishap = "never" /\ file' = file /\ synced' = synced
    BY DEF BeginAppend
  <2>2. e = next
    BY <2>1 DEF BeginAppend, Unharmed, NoTail, Events
  <2>3. \A i \in DOMAIN file.lines : file.lines[i] < e
    BY <2>1, <2>2, <1>1 DEF Unharmed, Ordered, Loaded
  <2> QED
    BY <2>1, <2>3 DEF BeginAppend, Unharmed
<1> QED
  BY <1>2, <1>3, <1>4, <1>5, <1>6

\* ... its line is written, ...
LEMMA WriteLineStep ==
    ASSUME JsonlInv, WriteLine
    PROVE  JsonlInv'
<1> USE DEF JsonlInv
<1> DEFINE e == appending.event
<1>1. /\ e \in Events /\ e \in tried /\ e \in Int /\ next = e + 1 /\ next \in Nat
      /\ e = appending'.event
  BY DEF WriteLine, JsonlTypeOK, Numbered, IdleAppend, Events
<1>2. /\ Grown(file', {e})
      /\ \A i \in 1..Len(file.lines) : file'.lines[i] = file.lines[i]
  BY <1>1, PartGrows DEF WriteLine
<1>3. /\ Len(file'.lines) = Len(file.lines) + 1
      /\ file'.tail = NoTail
      /\ file'.lines[Len(file.lines) + 1] = IF file.tail = NoTail THEN e ELSE Garbage
      /\ Len(file.lines) \in Nat
      /\ synced \in 0..Len(file.lines)
  BY <1>1 DEF WriteLine, WithLine, File, JsonlTypeOK
<1>4. JsonlTypeOK'
  <2>1. Len(file'.lines) <= MaxLines
    BY <1>3, JsonlStoreAssumption DEF Kept, WriteLine, JsonlTypeOK
  <2>2. file' \in FileType
    BY <1>2 DEF Grown
  <2> QED
    BY <1>3, <2>1, <2>2 DEF WriteLine, JsonlTypeOK, FileType, IdleAppend
<1>5. Ordered'
  BY <1>1, <1>2, GrownIsOrdered DEF WriteLine, NoTail, Events
<1>6. Numbered'
  BY DEF WriteLine, Numbered
<1>7. Kept'
  BY <1>2, <1>3 DEF WriteLine, Kept
<1>8. Unharmed'
  <2> SUFFICES ASSUME mishap' = "never" PROVE Unharmed'
    BY DEF Unharmed
  <2>1. mishap = "never"
    BY DEF WriteLine
  <2>2. /\ DOMAIN file.lines = 1..Len(file.lines)
        /\ DOMAIN file'.lines = 1..(Len(file.lines) + 1)
        /\ file'.lines[Len(file.lines) + 1] = e
        /\ \A i \in 1..Len(file.lines) : file.lines[i] < e /\ file.lines[i] # Garbage
        /\ e # Garbage
    BY <1>1, <1>2, <1>3, <2>1, JsonlStoreAssumption DEF Unharmed, Grown, JsonlTypeOK, FileType, WriteLine
  <2>3. \A i \in DOMAIN file'.lines : file'.lines[i] # Garbage
    BY <1>2, <1>3, <2>2
  <2>4. \A i, j \in DOMAIN file'.lines : i < j => file'.lines[i] < file'.lines[j]
    BY <1>2, <1>3, <2>1, <2>2 DEF Unharmed
  <2>5. synced' = Len(file'.lines) - 1
    BY <1>3, <2>1 DEF Unharmed, WriteLine
  <2> QED
    BY <1>3, <2>1, <2>3, <2>4, <2>5 DEF Unharmed, WriteLine
<1> QED
  BY <1>4, <1>5, <1>6, <1>7, <1>8

\* ... and synchronised, so that append() returns; ...
LEMMA SyncLineStep ==
    ASSUME JsonlInv, SyncLine
    PROVE  JsonlInv'
<1> USE DEF JsonlInv
<1>1. /\ appending.event \in Events /\ appending.event \in tried
      /\ next = appending.event + 1
  BY DEF SyncLine, JsonlTypeOK, Numbered, IdleAppend, Events
<1>2. JsonlTypeOK'
  BY <1>1 DEF SyncLine, JsonlTypeOK
<1>3. Ordered'
  BY DEF SyncLine, Ordered, Loaded
<1>4. Numbered'
  BY DEF SyncLine, Numbered, IdleAppend
<1>5. Kept'
  <2>1. Len(file.lines) \in Nat /\ synced \in 0..Len(file.lines)
    BY DEF JsonlTypeOK
  <2>2. ASSUME NEW e \in stored'
        PROVE  (\E i \in 1..synced' : file.lines[i] \in {e, Garbage}) /\ e < next
    <3>1. CASE e \in stored
      BY <2>1, <3>1, <1>1 DEF SyncLine, Kept, NoTail, Events
    <3>2. CASE e = appending.event
      BY <2>1, <3>2, <1>1 DEF SyncLine, Kept, Events
    <3> QED
      BY <2>2, <3>1, <3>2 DEF SyncLine
  <2> QED
    BY <2>2 DEF SyncLine, Kept, IdleAppend
<1>6. Unharmed'
  BY DEF SyncLine, Unharmed, IdleAppend
<1> QED
  BY <1>2, <1>3, <1>4, <1>5, <1>6

\* A file that is cut back has no more lines than before.
LEMMA CutBackShortens ==
    ASSUME NEW f \in FileType, synced \in Nat, NEW g \in CutBack(f)
    PROVE  Len(g.lines) <= Len(f.lines)
<1>1. f.lines \in Seq(Events \cup {Garbage}) /\ Len(f.lines) \in Nat
  BY DEF FileType
<1>2. CASE g.lines = f.lines
  BY <1>1, <1>2
<1>3. ASSUME NEW n \in synced..(Len(f.lines) - 1), g.lines = SubSeq(f.lines, 1, n)
      PROVE  Len(g.lines) <= Len(f.lines)
  <2>1. Len(SubSeq(f.lines, 1, n)) = n
    BY <1>1, <1>3
  <2> QED
    BY <1>1, <1>3, <2>1
<1> QED
  BY <1>2, <1>3 DEF CutBack, File

\* What a file may become when nothing is written to it.
LEMMA FileGrows ==
    ASSUME JsonlTypeOK, NEW added
    PROVE  Grown(file, added)
<1>1. file \in FileType
  BY DEF JsonlTypeOK, FileType
<1>2. Reads(file)
  BY <1>1, LoadedType
<1> QED
  BY <1>1, <1>2 DEF Grown, JsonlTypeOK, Reads

\* What is being appended is the number before the next.
LEMMA WritingIsLast ==
    ASSUME JsonlInv
    PROVE  /\ Writing \subseteq tried
           /\ \A e \in Writing : e \in Int /\ next = e + 1 /\ next # NoTail
<1>1. CASE appending.step = "write"
  <2>1. appending.event \in Events
    BY <1>1 DEF JsonlInv, JsonlTypeOK, IdleAppend
  <2> QED
    BY <1>1, <2>1 DEF JsonlInv, Numbered, Writing, NoTail, Events
<1>2. CASE appending.step # "write"
  BY <1>2 DEF Writing
<1> QED
  BY <1>1, <1>2

\* What append() or its end may leave.
Left == IF appending.step = "write" THEN WithPart(appending.event) ELSE {file}

\* What an append() that ends early leaves has the lines of before.
LEMMA LeftGrows ==
    ASSUME JsonlInv, NEW f \in Left
    PROVE  Grown(f, Writing) /\ f.lines = file.lines
<1> USE DEF JsonlInv
<1>1. CASE appending.step = "write"
  <2>1. appending.event \in Events
    BY <1>1 DEF JsonlTypeOK, IdleAppend
  <2>2. f \in WithPart(appending.event)
    BY <1>1 DEF Left
  <2>3. Grown(f, Writing)
    BY <1>1, <2>1, <2>2, PartGrows DEF Writing
  <2> QED
    BY <2>2, <2>3 DEF WithPart, File
<1>2. CASE appending.step # "write"
  BY <1>2, FileGrows DEF Left
<1> QED
  BY <1>1, <1>2

\* ... append() raises; ...
LEMMA AppendFailsStep ==
    ASSUME JsonlInv, AppendFails
    PROVE  JsonlInv'
<1>1. Grown(file', Writing) /\ file'.lines = file.lines
  <2>1. file' \in Left
    BY DEF AppendFails, Left
  <2> QED
    BY <2>1, LeftGrows
<1>2. appending.event \in Events /\ next = appending.event + 1
  BY DEF AppendFails, JsonlInv, JsonlTypeOK, IdleAppend, Numbered
<1>3. JsonlTypeOK'
  BY <1>1, <1>2 DEF AppendFails, JsonlInv, JsonlTypeOK, Grown, FileType
<1>4. Ordered'
  BY <1>1, WritingIsLast, GrownIsOrdered DEF AppendFails
<1>5. Numbered'
  BY <1>2 DEF AppendFails, Numbered, IdleAppend
<1>6. Kept'
  BY <1>1 DEF AppendFails, JsonlInv, Kept, IdleAppend
<1>7. Unharmed'
  BY DEF AppendFails, Unharmed
<1> QED
  BY <1>3, <1>4, <1>5, <1>6, <1>7 DEF JsonlInv

\* ... the process crashes; ...
LEMMA WriterCrashesStep ==
    ASSUME JsonlInv, WriterCrashes
    PROVE  JsonlInv'
<1>1. Grown(file', Writing) /\ file'.lines = file.lines
  <2>1. file' \in Left
    BY DEF WriterCrashes, Left
  <2> QED
    BY <2>1, LeftGrows
<1>3. JsonlTypeOK'
  BY <1>1, JsonlStoreAssumption
  DEF WriterCrashes, Down, JsonlInv, JsonlTypeOK, Grown, FileType, NoTail
<1>4. Ordered'
  BY <1>1, WritingIsLast, GrownIsOrdered DEF WriterCrashes, Down
<1>5. Numbered'
  BY DEF WriterCrashes, Down, Numbered, IdleAppend
<1>6. Kept'
  BY <1>1 DEF WriterCrashes, Down, JsonlInv, Kept, IdleAppend
<1>7. Unharmed'
  <2> SUFFICES ASSUME mishap' = "never" PROVE Unharmed'
    BY DEF Unharmed
  <2>1. mishap = "never" /\ appending.step = "idle" /\ file' = file
    BY DEF WriterCrashes, Down
  <2> QED
    BY <2>1 DEF WriterCrashes, Down, JsonlInv, Unharmed, IdleAppend
<1> QED
  BY <1>3, <1>4, <1>5, <1>6, <1>7 DEF JsonlInv

\* ... the power fails; ...
LEMMA HostFailsStep ==
    ASSUME JsonlInv, HostFails
    PROVE  JsonlInv'
<1>1. PICK f \in IF appending.step = "write"
                 THEN WithPart(appending.event) \cup {WithLine(appending.event)}
                 ELSE {file} :
         file' \in CutBack(f)
  BY DEF HostFails
<1>2. /\ Grown(f, Writing)
      /\ Len(f.lines) <= MaxLines
  <2>1. CASE appending.step = "write"
    <3>1. appending.event \in Events
      BY <2>1 DEF JsonlInv, JsonlTypeOK, IdleAppend
    <3>2. Grown(f, Writing)
      BY <1>1, <2>1, <3>1, PartGrows DEF JsonlInv, Writing
    <3>3. Len(f.lines) \in Int /\ Len(f.lines) <= Len(file.lines) + 1
      BY <3>2 DEF Grown, JsonlInv, JsonlTypeOK
    <3>4. Len(file.lines) < MaxLines /\ Len(file.lines) \in Nat /\ MaxLines \in Nat
      BY <2>1, JsonlStoreAssumption DEF JsonlInv, Kept, JsonlTypeOK
    <3> QED
      BY <3>2, <3>3, <3>4
  <2>2. CASE appending.step # "write"
    BY <1>1, <2>2, FileGrows DEF JsonlInv, JsonlTypeOK
  <2> QED
    BY <2>1, <2>2
<1>3. Grown(file', Writing)
  BY <1>1, <1>2, CutBackGrows DEF JsonlInv
<1>4. /\ f \in FileType /\ file' \in FileType /\ synced \in Nat
      /\ Len(file'.lines) \in Nat /\ synced <= Len(file'.lines)
      /\ \A i \in 1..synced : file'.lines[i] = file.lines[i]
  BY <1>2, <1>3 DEF Grown, FileType, JsonlInv, JsonlTypeOK
<1>5. Len(file'.lines) <= MaxLines
  <2>1. Len(file'.lines) <= Len(f.lines)
    BY <1>1, <1>4, CutBackShortens
  <2>2. Len(f.lines) \in Nat /\ MaxLines \in Nat
    BY <1>4, JsonlStoreAssumption DEF FileType
  <2> QED
    BY <1>2, <1>4, <2>1, <2>2
<1>6. JsonlTypeOK'
  BY <1>4, <1>5, JsonlStoreAssumption
  DEF HostFails, Down, JsonlInv, JsonlTypeOK, FileType, NoTail
<1>7. Ordered'
  BY <1>3, WritingIsLast, GrownIsOrdered DEF HostFails, Down
<1>8. Numbered'
  BY DEF HostFails, Down, Numbered, IdleAppend
<1>9. Kept'
  <2>1. \A e \in stored : \E i \in 1..Len(file'.lines) : file'.lines[i] \in {e, Garbage}
    BY <1>4 DEF JsonlInv, Kept
  <2> QED
    BY <2>1 DEF HostFails, Down, Kept, IdleAppend
<1>10. Unharmed'
  <2> SUFFICES ASSUME mishap' = "never" PROVE Unharmed'
    BY DEF Unharmed
  <2>1. mishap = "never" /\ appending.step = "idle" /\ f = file
    BY <1>1 DEF HostFails, Down
  <2>2. file.tail = NoTail /\ synced = Len(file.lines) /\ Len(file.lines) \in Nat
    BY <2>1 DEF JsonlInv, JsonlTypeOK, Unharmed
  <2>3. file'.lines = file.lines /\ file'.tail = NoTail
    BY <1>1, <2>1, <2>2 DEF CutBack, File
  <2> QED
    BY <2>1, <2>2, <2>3 DEF HostFails, Down, JsonlInv, Unharmed, IdleAppend
<1> QED
  BY <1>6, <1>7, <1>8, <1>9, <1>10 DEF JsonlInv

\* When the file loads, what was stored is in it.
LEMMA StoredIsLoaded ==
    ASSUME JsonlInv, Loads(file)
    PROVE  stored \subseteq {Loaded(file)[i] : i \in DOMAIN Loaded(file)}
<1>1. Reads(file)
  BY LoadedType DEF JsonlInv, JsonlTypeOK, FileType
<1> SUFFICES ASSUME NEW e \in stored
             PROVE  \E i \in DOMAIN Loaded(file) : Loaded(file)[i] = e
  OBVIOUS
<1>2. PICK i \in 1..synced : file.lines[i] \in {e, Garbage}
  BY DEF JsonlInv, Kept
<1>3. i \in DOMAIN Loaded(file) /\ Loaded(file)[i] = file.lines[i]
  BY <1>1, <1>2 DEF Reads, JsonlInv, JsonlTypeOK
<1> QED
  BY <1>2, <1>3 DEF Loads

\* ... and a new process loads the file.
LEMMA RecoverStep ==
    ASSUME JsonlInv, Recover
    PROVE  JsonlInv'
<1>1. /\ NumberAfter(file) \in 1..(MaxEvent + 1)
      /\ \A i \in DOMAIN Loaded(file) : Loaded(file)[i] < NumberAfter(file)
  BY NumberIsNext DEF Recover
<1>2. Loaded(file)' = Loaded(file)
  BY DEF Recover, Loaded
<1>3. appending = IdleAppend /\ failed = NoTail /\ next' # NoTail
  <2>1. ASSUME appending # IdleAppend PROVE FALSE
    <3>1. appending.step # "idle" /\ appending.event \in Nat \ {0}
      BY <2>1 DEF JsonlInv, JsonlTypeOK, IdleAppend, Events
    <3> QED
      BY <3>1 DEF Recover, JsonlInv, Numbered, NoTail
  <2>2. ASSUME failed # NoTail PROVE FALSE
    <3>1. failed \in Nat \ {0}
      BY <2>2 DEF JsonlInv, JsonlTypeOK, Events, NoTail
    <3> QED
      BY <2>2, <3>1 DEF Recover, JsonlInv, Numbered, NoTail
  <2> QED
    BY <1>1, <2>1, <2>2 DEF Recover, NoTail
<1>4. JsonlTypeOK'
  BY <1>1, JsonlStoreAssumption DEF Recover, JsonlInv, JsonlTypeOK
<1>5. Ordered'
  BY <1>1, <1>2 DEF Recover, JsonlInv, Ordered
<1>6. Numbered'
  BY <1>3 DEF Recover, Numbered, IdleAppend
<1>7. Kept'
  <2>1. \A e \in stored : e \in {Loaded(file)[i] : i \in DOMAIN Loaded(file)}
    BY StoredIsLoaded DEF Recover
  <2>2. \A e \in stored : e < next'
    BY <1>1, <2>1 DEF Recover
  <2> QED
    BY <1>3, <2>2 DEF Recover, JsonlInv, Kept, IdleAppend
<1>8. Unharmed'
  BY <1>3 DEF Recover, JsonlInv, Unharmed, IdleAppend
<1> QED
  BY <1>4, <1>5, <1>6, <1>7, <1>8 DEF JsonlInv

\* JsonlInv is inductive.
LEMMA JsonlInductive == JsonlInv /\ [JsonlNext]_jsonlVars => JsonlInv'
<1>1. ASSUME JsonlInv, UNCHANGED jsonlVars PROVE JsonlInv'
  BY <1>1 DEF jsonlVars, JsonlInv, JsonlTypeOK, Ordered, Numbered, Kept, Unharmed, Loaded
<1> QED
  BY <1>1, BeginAppendStep, WriteLineStep, SyncLineStep, AppendFailsStep,
     WriterCrashesStep, HostFailsStep, RecoverStep DEF JsonlNext

\* The invariant says what is to be shown.
LEMMA JsonlInvSuffices == JsonlInv => RecoveryIsHonest
<1> SUFFICES ASSUME JsonlInv PROVE RecoveryIsHonest
  OBVIOUS
<1> DEFINE loaded == Loaded(file)
<1>1. /\ tried \subseteq Int /\ next \in Int
      /\ \A i \in DOMAIN loaded : loaded[i] \in tried \cup {Garbage}
  BY JsonlStoreAssumption DEF JsonlInv, JsonlTypeOK, Ordered, Events
<1>r. Reads(file)
  BY LoadedType DEF JsonlInv, JsonlTypeOK, FileType
<1>2. ASSUME Loads(file)
      PROVE  /\ \A i, j \in DOMAIN loaded : i < j => loaded[i] < loaded[j]
             /\ {loaded[i] : i \in DOMAIN loaded} \subseteq tried
  <2>1. \A i \in DOMAIN loaded : loaded[i] \in tried
    BY <1>1, <1>2 DEF Loads
  <2>2. ASSUME NEW i \in DOMAIN loaded, NEW j \in DOMAIN loaded, i < j
        PROVE  loaded[i] < loaded[j]
    <3>1. loaded[i] <= loaded[j] /\ loaded[i] # loaded[j]
      <4>1. i # j
        BY <2>2, <1>r DEF Reads
      <4> QED
        BY <1>2, <2>2, <4>1 DEF Loads, JsonlInv, Ordered
    <3>2. PICK a \in Int, b \in Int : a = loaded[i] /\ b = loaded[j]
      BY <1>1, <2>1
    <3>3. a < b
      BY <3>1, <3>2
    <3> QED
      BY <3>2, <3>3
  <2> QED
    BY <2>1, <2>2
<1>3. ASSUME Loads(file)
      PROVE  stored \subseteq {loaded[i] : i \in DOMAIN loaded}
  BY <1>3, StoredIsLoaded
<1>4. ASSUME mishap = "never" PROVE Loads(file)
  <2>1. loaded = file.lines
    BY <1>4 DEF JsonlInv, Unharmed, Loaded
  <2>2. \A i \in DOMAIN loaded : loaded[i] # Garbage
    BY <1>4, <2>1 DEF JsonlInv, Unharmed
  <2>3. ASSUME NEW i \in DOMAIN loaded, NEW j \in DOMAIN loaded, loaded[i] = loaded[j]
        PROVE  i = j
    <3>1. loaded[i] \in Int
      BY <1>1, <2>2
    <3>2. (i < j => loaded[i] < loaded[j]) /\ (j < i => loaded[j] < loaded[i])
      BY <1>4, <2>1 DEF JsonlInv, Unharmed
    <3>3. ~(i < j) /\ ~(j < i)
      BY <2>3, <3>1, <3>2
    <3> QED
      BY <1>r, <3>3 DEF Reads
  <2> QED
    BY <2>2, <2>3 DEF Loads
<1> QED
  BY <1>2, <1>3, <1>4 DEF RecoveryIsHonest, JsonlInv, Kept

\* The variables of the JSONL log keep their types.
THEOREM JsonlTypeCorrect == JsonlSpec => []JsonlTypeOK
<1>1. JsonlInv => JsonlTypeOK
  BY DEF JsonlInv
<1> QED
  BY <1>1, JsonlInitially, JsonlInductive, PTL DEF JsonlSpec

\* After any number of appends, failures and recoveries, what is loaded is in
\* order, holds all that was stored and nothing that was not appended.
THEOREM RecoversHonestly == JsonlSpec => []RecoveryIsHonest
  BY JsonlInitially, JsonlInductive, JsonlInvSuffices, PTL DEF JsonlSpec
-----------------------------------------------------------------------------
(* The audit table.                                                         *)

\* What holds of the table, and of each backup of it.
TableInv(t) ==
    /\ RowsOK(t)
    /\ IsFiniteSet(t.rows)
    /\ \A r \in t.rows : r.sequence <= t.last
    /\ \A r, q \in t.rows :
           r.sequence = q.sequence \/ r.event.id = q.event.id => r = q

AuditInv ==
    /\ TableInv(table)
    /\ TableInv(backup)
    /\ table = Table(table.rows, table.last)
    /\ backup = Table(backup.rows, backup.last)
    /\ cursor \in 0..table.last
    /\ seen \subseteq (1..MaxSequence) \X DecisionEvents
    /\ \A r \in table.rows : r.sequence <= cursor => <<r.sequence, r.event>> \in seen

\* The table is empty at first.
LEMMA AuditInitially == AuditInit => AuditInv
  BY AuditTableAssumption, FS_EmptySet
  DEF AuditInit, AuditInv, TableInv, RowsOK, NoRows, Table

\* A page leaves out no row before its last.
LEMMA PageIsFirst ==
    ASSUME AuditInv, NEW limit \in Nat, NEW top \in Page(limit),
           NEW r \in table.rows, r.sequence > cursor, r.sequence <= top.sequence
    PROVE  r \in Page(limit)
<1> DEFINE UpTo(x) == {q \in table.rows : cursor < q.sequence /\ q.sequence <= x.sequence}
<1>1. /\ \A q \in table.rows : q.sequence \in Int
      /\ top \in table.rows /\ cursor \in Int
  BY AuditTableAssumption DEF AuditInv, TableInv, RowsOK, Page
<1>2. UpTo(r) \subseteq UpTo(top)
  <2> SUFFICES ASSUME NEW q \in table.rows, q.sequence <= r.sequence
               PROVE  q.sequence <= top.sequence
    OBVIOUS
  <2>1. PICK a \in Int, b \in Int, c \in Int :
          a = q.sequence /\ b = r.sequence /\ c = top.sequence
    BY <1>1
  <2>2. a <= c
    BY <2>1
  <2> QED
    BY <2>1, <2>2
<1>3. IsFiniteSet(UpTo(top))
  BY FS_Subset DEF AuditInv, TableInv
<1>4. Cardinality(UpTo(r)) <= Cardinality(UpTo(top))
  BY <1>2, <1>3, FS_Subset
<1>5. Cardinality(UpTo(r)) \in Nat /\ Cardinality(UpTo(top)) \in Nat
  BY <1>2, <1>3, FS_Subset, FS_CardinalityType
<1>6. Cardinality(UpTo(top)) <= limit
  BY DEF Page
<1>7. Cardinality(UpTo(r)) <= limit
  BY <1>4, <1>5, <1>6
<1> QED
  BY <1>7 DEF Page

\* Each method preserves AuditInv: append_audit, ...
LEMMA AppendAuditStep ==
    ASSUME AuditInv, NEW event \in DecisionEvents, NEW at \in Times, AppendAudit(event, at)
    PROVE  AuditInv'
<1> DEFINE n == table.last + 1
           new == Row(n, event, at)
<1>1. /\ table.last \in Nat /\ n \in 1..MaxSequence /\ MaxSequence \in Nat
      /\ cursor \in 0..table.last
      /\ \A r \in table.rows : r.sequence \in Int /\ r.sequence <= table.last
  BY AuditTableAssumption DEF AppendAudit, AuditInv, TableInv, RowsOK
<1>2. table' = Table(table.rows \cup {new}, n)
  BY <1>1 DEF AppendAudit, NextOf
<1>3. /\ new.sequence = n /\ new.event = event
      /\ new \in [sequence : 1..MaxSequence, event : DecisionEvents, at : Times]
  BY <1>1 DEF Row
<1>4. /\ table'.rows = table.rows \cup {new} /\ table'.last = n
      /\ table' = Table(table'.rows, table'.last)
  BY <1>2 DEF Table
<1>5. TableInv(table')
  <2>1. RowsOK(table')
    BY <1>1, <1>3, <1>4 DEF AuditInv, TableInv, RowsOK
  <2>2. IsFiniteSet(table'.rows)
    <3>1. IsFiniteSet(table.rows)
      BY DEF AuditInv, TableInv
    <3>2. IsFiniteSet(table.rows \cup {new})
      <4> HIDE DEF new
      <4> QED
        BY <3>1, FS_AddElement
    <3> QED
      BY <1>4, <3>2
  <2>3. \A r \in table.rows : r.sequence < n /\ r.sequence <= n /\ r.event.id # event.id
    BY <1>1 DEF AppendAudit, Known
  <2>4. \A r \in table'.rows : r.sequence <= table'.last
    BY <1>1, <1>3, <1>4, <2>3
  <2>5. \A r, q \in table'.rows :
           r.sequence = q.sequence \/ r.event.id = q.event.id => r = q
    BY <1>1, <1>3, <1>4, <2>3 DEF AuditInv, TableInv
  <2> QED
    BY <2>1, <2>2, <2>4, <2>5 DEF TableInv
<1>6. \A r \in table'.rows : r.sequence <= cursor => <<r.sequence, r.event>> \in seen
  <2>1. ~(n <= cursor)
    BY <1>1
  <2> QED
    BY <1>3, <1>4, <2>1 DEF AuditInv
<1>7. cursor \in 0..table'.last
  BY <1>1, <1>4
<1> QED
  BY <1>4, <1>5, <1>6, <1>7 DEF AppendAudit, AuditInv

\* ... purge_audit, ...
LEMMA PurgeAuditStep ==
    ASSUME AuditInv, NEW cutoff \in Times, PurgeAudit(cutoff)
    PROVE  AuditInv'
<1> DEFINE left == {r \in table.rows : r.at >= cutoff}
<1>1. table' = Table(left, table.last)
  BY DEF PurgeAudit, AuditInv, Table
<1>2. /\ table'.rows = left /\ table'.last = table.last /\ left \subseteq table.rows
      /\ table' = Table(table'.rows, table'.last)
  BY <1>1 DEF Table
<1>3. IsFiniteSet(left)
  BY <1>2, FS_Subset DEF AuditInv, TableInv
<1>4. TableInv(table')
  BY <1>2, <1>3 DEF AuditInv, TableInv, RowsOK
<1> QED
  BY <1>2, <1>4 DEF PurgeAudit, AuditInv

\* ... and load_audit, of which the consumer takes the page.
LEMMA LoadAuditStep ==
    ASSUME AuditInv, NEW limit \in 1..MaxLimit, LoadAudit(limit)
    PROVE  AuditInv'
<1>1. limit \in Nat
  BY AuditTableAssumption
<1>2. PICK top \in Page(limit) :
        (\A q \in Page(limit) : q.sequence <= top.sequence) /\ cursor' = top.sequence
  BY DEF LoadAudit
<1>3. /\ table' = table /\ backup' = backup
      /\ seen' = seen \cup {<<q.sequence, q.event>> : q \in Page(limit)}
  BY DEF LoadAudit
<1>4. Page(limit) \subseteq table.rows
  BY DEF Page
<1>5. /\ \A r \in table.rows : /\ r.sequence \in 1..MaxSequence /\ r.event \in DecisionEvents
                               /\ r.sequence <= table.last
      /\ table.last \in Nat /\ cursor \in Int
  BY AuditTableAssumption DEF AuditInv, TableInv, RowsOK
<1>6. cursor' \in 0..table'.last
  <2>1. top.sequence \in Int /\ top.sequence >= 1 /\ top.sequence <= table.last
    BY <1>4, <1>5
  <2> QED
    BY <1>2, <1>3, <1>5, <2>1
<1>7. seen' \subseteq (1..MaxSequence) \X DecisionEvents
  BY <1>3, <1>4, <1>5 DEF AuditInv
<1>8. ASSUME NEW r \in table.rows, r.sequence <= cursor'
      PROVE  <<r.sequence, r.event>> \in seen'
  <2>1. CASE r.sequence <= cursor
    BY <1>3, <2>1 DEF AuditInv
  <2>2. CASE ~(r.sequence <= cursor)
    <3>1. r.sequence > cursor
      <4>1. r.sequence \in Int
        BY <1>5
      <4> QED
        BY <1>5, <2>2, <4>1
    <3>2. r \in Page(limit)
      BY <1>1, <1>2, <1>8, <3>1, PageIsFirst
    <3> QED
      BY <1>3, <3>2
  <2> QED
    BY <2>1, <2>2
<1> QED
  BY <1>3, <1>6, <1>7, <1>8 DEF AuditInv

\* AuditInv is inductive.
LEMMA AuditInductive == AuditInv /\ [AuditNext]_auditVars => AuditInv'
<1>1. ASSUME AuditInv, Backup PROVE AuditInv'
  BY <1>1 DEF Backup, AuditInv
<1>2. ASSUME AuditInv, Restore PROVE AuditInv'
  <2>1. backup.last \in Nat /\ \A r \in backup.rows : ~(r.sequence <= 0)
    BY <1>2, AuditTableAssumption DEF AuditInv, TableInv, RowsOK
  <2> QED
    BY <1>2, <2>1 DEF Restore, AuditInv
<1>3. ASSUME AuditInv, UNCHANGED auditVars PROVE AuditInv'
  BY <1>3 DEF auditVars, AuditInv
<1> QED
  BY <1>1, <1>2, <1>3, AppendAuditStep, PurgeAuditStep, LoadAuditStep DEF AuditNext

\* The variables of the audit table keep their types.
THEOREM AuditTypeCorrect == AuditSpec => []AuditTypeOK
<1>1. AuditInv => AuditTypeOK
  BY AuditTableAssumption DEF AuditInv, TableInv, RowsOK, AuditTypeOK
<1> QED
  BY <1>1, AuditInitially, AuditInductive, PTL DEF AuditSpec

\* A consumer of the table misses no event up to its cursor, and no sequence
\* and no event is there twice, whatever is appended, purged and restored.
THEOREM NothingIsMissed == AuditSpec => []ReaderMissesNothing
<1>1. AuditInv => ReaderMissesNothing
  BY DEF AuditInv, TableInv, ReaderMissesNothing
<1> QED
  BY <1>1, AuditInitially, AuditInductive, PTL DEF AuditSpec
-----------------------------------------------------------------------------
(* All of them.                                                             *)

\* The stores do not interfere: each behaves as if it were alone, so that what
\* is proved of one holds in every behaviour of them all.
THEOREM StoresAreIndependent ==
    Spec => JsonSpec /\ JsonlSpec /\ AuditSpec /\ VersionsSpec
<1>1. Init => JsonInit /\ JsonlInit /\ AuditInit /\ VersionsInit
  BY DEF Init
<1>2. [Next]_vars => /\ [JsonNext]_jsonVars /\ [JsonlNext]_jsonlVars
                     /\ [AuditNext]_auditVars /\ [VersionsNext]_versionsVars
  BY DEF Next, vars
<1> QED
  BY <1>1, <1>2, PTL DEF Spec, JsonSpec, JsonlSpec, AuditSpec, VersionsSpec

\* Every variable of the stores has its type, always.
THEOREM TypeCorrect == Spec => []TypeOK
<1>1. Init => used \in Names
  BY DEF Init
<1>2. used \in Names /\ [Next]_vars => (used \in Names)'
  BY DEF Next, vars
<1> QED
  BY <1>1, <1>2, StoresAreIndependent, JsonTypeCorrect, JsonlTypeCorrect,
     AuditTypeCorrect, VersionsTypeCorrect, PTL DEF Spec, TypeOK
=============================================================================
