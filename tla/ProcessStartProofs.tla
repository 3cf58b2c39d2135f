-------------------------- MODULE ProcessStartProofs --------------------------
(***************************************************************************)
(* What the log keeps, and on which settings a process comes up, for any   *)
(* number of files, lines and processes.                                   *)
(***************************************************************************)
EXTENDS ProcessStart, FiniteSetTheorems, TLAPS

\* The file that the renames have emptied and not yet filled again; none when
\* no file has been renamed.
Hole == MaxFileNum - 1 - shift

Ordered == \A i, j \in Files : i < j => \A m \in disk[i], n \in disk[j] : n < m
Unbroken == \A n \in Kept : n .. written \subseteq Kept
HoleEmpty == shift \in 1 .. Reopening => disk[Hole] = {}
\* The order of the lines, which a crash does not disturb.
OrderInv == LogType /\ (~failed => Ordered /\ Unbroken /\ HoleEmpty)

\* There are no lines yet, hence none out of order.
LEMMA InitOrder == ASSUME LogInit PROVE OrderInv
<1>1. LogType
  <2>1. count \in 0 .. CheckEvery - 1 /\ fileChan \in 0 .. ChanCap
    BY SizeAssumption, ChanAssumption DEF LogInit
  <2>2. shift \in 0 .. Idle /\ ~(shift < Idle)
    BY FilesAssumption DEF LogInit, Idle
  <2>3. disk \in [Files -> SUBSET (1 .. written)] /\ written \in Nat /\ unchecked \in Nat
    BY DEF LogInit
  <2>4. fileName \in BOOLEAN /\ failed \in BOOLEAN /\ cut \in BOOLEAN /\ file = "nil"
    BY DEF LogInit
  <2> QED
    BY <2>1, <2>2, <2>3, <2>4 DEF LogType
<1>2. \A k \in Files : disk[k] = {}
  BY DEF LogInit
<1>3. Ordered /\ Unbroken
  BY <1>2 DEF Ordered, Unbroken, Kept
<1>4. HoleEmpty
  BY FilesAssumption DEF LogInit, HoleEmpty, Idle, Reopening
<1> QED
  BY <1>1, <1>3, <1>4 DEF OrderInv

\* Steps that write, rename and lose nothing, outside the renames.
LEMMA QuietOrder ==
    ASSUME OrderInv, LogType', UNCHANGED <<disk, written>>, failed => failed',
           shift' \in {shift, 0, Idle}
    PROVE  OrderInv'
<1>1. Ordered => Ordered'
  BY DEF Ordered
<1>2. Unbroken => Unbroken'
  BY DEF Unbroken, Kept
<1>3. HoleEmpty => HoleEmpty'
  BY FilesAssumption DEF HoleEmpty, Hole, Idle, Reopening
<1> QED
  BY <1>1, <1>2, <1>3 DEF OrderInv

\* The types, as the process begins or dies,
LEMMA BeginType == ASSUME LogType, LogBegins \/ LogDies PROVE LogType'
<1>0. Fresh
  BY DEF LogBegins, LogDies
<1>1. /\ fileName' \in BOOLEAN /\ count' \in 0 .. CheckEvery - 1 /\ fileChan' \in 0 .. ChanCap
      /\ file' = "nil" /\ shift' \in 0 .. Idle /\ ~(shift' < Idle)
  <2>1. fileName' \in BOOLEAN /\ file' = "nil"
    BY <1>0 DEF Fresh
  <2>2. count' \in 0 .. CheckEvery - 1 /\ fileChan' \in 0 .. ChanCap
    BY <1>0, SizeAssumption, ChanAssumption DEF Fresh
  <2>3. shift' \in 0 .. Idle /\ ~(shift' < Idle)
    BY <1>0, FilesAssumption DEF Fresh, Idle
  <2> QED
    BY <2>1, <2>2, <2>3
<1>2. disk' = disk /\ written' = written /\ failed' = failed
  BY DEF LogBegins, LogDies
<1>3. unchecked' \in Nat
  BY DEF LogType, LogBegins, LogDies
<1>4. cut' \in BOOLEAN
  BY DEF LogType, LogBegins, LogDies
<1> QED
  BY <1>1, <1>2, <1>3, <1>4 DEF LogType

\* as the file is named and opened,
LEMMA NameType ==
    ASSUME LogType, shift = Idle, NEW named \in BOOLEAN, SetName(named) \/ OpenFile
    PROVE  LogType'
BY DEF LogType, SetName, OpenFile, ghosts, Idle

\* as a line is passed on and the file opened again,
LEMMA LogStepType == ASSUME LogType, Log \/ PrintLine \/ Reopen PROVE LogType'
BY FilesAssumption, SizeAssumption, ChanAssumption
   DEF LogType, Log, PrintLine, Reopen, ghosts, Idle, Reopening

\* as a line is written,
LEMMA WriteType == ASSUME LogType, WriteLine PROVE LogType'
<1> USE DEF LogType, WriteLine, Idle
<1>1. fileName' \in BOOLEAN /\ cut' \in BOOLEAN /\ fileChan' \in 0 .. ChanCap
  BY ChanAssumption
<1>2. count' \in 0 .. CheckEvery - 1
  BY SizeAssumption DEF Due
<1>3. written' \in Nat /\ disk' \in [Files -> SUBSET (1 .. written')]
  <2>1. CASE UNCHANGED <<disk, written>>
    BY <2>1
  <2>2. CASE written' = written + 1 /\ disk' = [disk EXCEPT ![0] = @ \cup {written + 1}]
    <3>1. 1 .. written \subseteq 1 .. written + 1 /\ written + 1 \in 1 .. written + 1
      OBVIOUS
    <3>2. 0 \in Files /\ written' \in Nat
      BY <2>2, FilesAssumption DEF Files
    <3>3. \A k \in Files : disk'[k] \subseteq 1 .. written'
      BY <2>2, <3>1, <3>2
    <3>4. disk' \in [Files -> SUBSET (1 .. written')]
      BY <2>2, <3>1, <3>2
    <3> QED
      BY <3>2, <3>4
  <2> QED
    BY <2>1, <2>2
<1>4. file' \in {"nil", "open", "closed"} /\ shift' \in 0 .. Idle /\ (shift' < Idle <=> file' = "closed")
  BY FilesAssumption DEF Check
<1>5. failed' \in BOOLEAN
  BY DEF Check
<1>6. unchecked' \in Nat
  BY DEF Check
<1> QED
  BY <1>1, <1>2, <1>3, <1>4, <1>5, <1>6

\* and as a file is renamed.
LEMMA RenameType == ASSUME LogType, Rename PROVE LogType'
<1>1. disk' \in [Files -> SUBSET (1 .. written')]
  <2> DEFINE i == ToRename(shift)
  <2>1. i \in Files /\ i + 1 \in Files
    BY FilesAssumption DEF LogType, Rename, ToRename, Files, Idle, Reopening
  <2>2. \/ disk' = disk
        \/ disk' = [disk EXCEPT ![i + 1] = disk[i], ![i] = {}]
    BY DEF Rename
  <2>3. disk \in [Files -> SUBSET (1 .. written)] /\ written' = written
    BY DEF LogType, Rename
  <2> HIDE DEF i
  <2> QED
    BY <2>1, <2>2, <2>3
<1>2. /\ shift \in 0 .. MaxFileNum - 2 /\ shift' = shift + 1 /\ file = "closed"
  BY FilesAssumption DEF LogType, Rename, Idle, Reopening
<1>3. shift' \in 0 .. Idle /\ shift' < Idle
  BY <1>2, FilesAssumption DEF Idle
<1>4. failed' \in BOOLEAN
  BY DEF LogType, Rename
<1> QED
  BY <1>1, <1>2, <1>3, <1>4 DEF LogType, Rename

\* A line written is the newest of all, and goes to the file in use.
LEMMA WriteOrder == ASSUME OrderInv, WriteLine PROVE OrderInv'
<1>1. CASE UNCHANGED <<disk, written>>
  <2>1. (failed => failed') /\ shift' \in {shift, 0, Idle}
    BY DEF WriteLine, Check
  <2> QED
    BY <1>1, <2>1, QuietOrder, WriteType DEF OrderInv
<1>2. CASE written' = written + 1 /\ disk' = [disk EXCEPT ![0] = @ \cup {written + 1}]
  <2> SUFFICES ASSUME ~failed' PROVE Ordered' /\ Unbroken' /\ HoleEmpty'
    BY WriteType DEF OrderInv
  <2>1. LogType /\ Ordered /\ Unbroken /\ 0 \in Files
    BY FilesAssumption DEF OrderInv, WriteLine, Check, Files
  <2>2. /\ \A k \in Files \ {0} : disk'[k] = disk[k]
        /\ disk'[0] = disk[0] \cup {written + 1}
    BY <1>2, <2>1 DEF LogType
  <2>3. Ordered'
    BY <2>1, <2>2 DEF Ordered, LogType, Files
  <2>4. Kept' = Kept \cup {written + 1}
    BY <2>1, <2>2 DEF Kept
  <2>5. Unbroken'
    <3>1. Kept \subseteq 1 .. written
      BY <2>1 DEF Kept, LogType
    <3>2. ASSUME NEW n \in Kept' PROVE n .. written' \subseteq Kept'
      BY <1>2, <2>1, <2>4, <3>1, <3>2 DEF Unbroken, LogType
    <3> QED
      BY <3>2 DEF Unbroken
  <2>6. shift' \notin 1 .. Reopening
    BY FilesAssumption DEF WriteLine, Check, Idle, Reopening
  <2> QED
    BY <2>3, <2>5, <2>6 DEF HoleEmpty
<1> QED
  BY <1>1, <1>2 DEF WriteLine

\* A rename fills the hole, or drops the oldest file, and leaves a hole behind.
LEMMA RenameOrder == ASSUME OrderInv, Rename PROVE OrderInv'
<1> SUFFICES ASSUME ~failed' PROVE Ordered' /\ Unbroken' /\ HoleEmpty'
  BY RenameType DEF OrderInv
<1> DEFINE i == MaxFileNum - 2 - shift
<1>1. /\ LogType /\ Ordered /\ Unbroken /\ HoleEmpty
      /\ disk' = IF disk[i] = {} THEN disk ELSE [disk EXCEPT ![i + 1] = disk[i], ![i] = {}]
      /\ shift' = shift + 1 /\ written' = written
  BY DEF OrderInv, Rename, ToRename
<1>2. i \in Files /\ i + 1 \in Files /\ shift \in 0 .. MaxFileNum - 2
  BY <1>1, FilesAssumption DEF Files, Rename, Reopening, LogType, Idle
<1>3. disk'[i] = {}
  BY <1>1, <1>2 DEF LogType
<1>4. HoleEmpty'
  <2>1. Hole' = i
    BY <1>1, <1>2, FilesAssumption DEF Hole
  <2> QED
    BY <1>3, <2>1 DEF HoleEmpty
<1>5. CASE disk[i] = {}
  BY <1>1, <1>4, <1>5 DEF Ordered, Unbroken, Kept
<1>6. CASE disk[i] # {}
  <2>1. /\ disk'[i + 1] = disk[i]
        /\ \A k \in Files \ {i, i + 1} : disk'[k] = disk[k]
    BY <1>1, <1>2, <1>6 DEF LogType
  <2>2. Ordered'
    <3> DEFINE was(k) == IF k = i + 1 THEN i ELSE k
    <3>1. \A k \in Files : k # i => disk'[k] = disk[was(k)] /\ was(k) \in Files
      BY <1>2, <2>1
    <3>2. \A j, k \in Files : j < k /\ j # i /\ k # i => was(j) < was(k)
      BY <1>2 DEF Files
    <3>3. ASSUME NEW j \in Files, NEW k \in Files, j < k PROVE \A m \in disk'[j], n \in disk'[k] : n < m
      <4>1. CASE j = i \/ k = i
        BY <1>3, <4>1
      <4>2. CASE j # i /\ k # i
        BY <1>1, <3>1, <3>2, <3>3, <4>2 DEF Ordered
      <4> QED
        BY <4>1, <4>2
    <3> QED
      BY <3>3 DEF Ordered
  <2>3. Kept \ disk[i + 1] \subseteq Kept'
    BY <1>2, <2>1 DEF Kept
  <2>4. Kept' \subseteq Kept
    BY <1>2, <1>3, <2>1 DEF Kept
  <2>5. \A n \in Kept' : \A m \in n .. written : m \notin disk[i + 1]
    <3> SUFFICES ASSUME NEW k \in Files, NEW n \in disk'[k], NEW m \in n .. written, m \in disk[i + 1]
                 PROVE  FALSE
      BY DEF Kept
    <3>1. i + 1 = MaxFileNum - 1
      <4>1. CASE shift = 0
        BY <4>1, FilesAssumption
      <4>2. CASE shift # 0
        <5>1. shift \in 1 .. Reopening /\ Hole = i + 1
          BY <1>2, <4>2, FilesAssumption DEF Hole, Reopening
        <5> QED
          BY <1>1, <5>1 DEF HoleEmpty
      <4> QED
        BY <4>1, <4>2
    <3>2. \E j \in Files : j < i + 1 /\ n \in disk[j]
      BY <1>2, <1>3, <2>1, <3>1 DEF Files
    <3>3. m < n /\ n \in 1 .. written
      BY <1>1, <1>2, <3>2 DEF Ordered, LogType
    <3> QED
      BY <3>3, <1>1 DEF LogType
  <2>6. Unbroken'
    BY <1>1, <2>3, <2>4, <2>5 DEF Unbroken
  <2> QED
    BY <1>4, <2>2, <2>6
<1> QED
  BY <1>5, <1>6
-----------------------------------------------------------------------------
(* How many files are full.                                                *)

Numbered == Files \ {0}
NoGap == \A j, k \in Numbered : j < k /\ j # Hole /\ disk[k] # {} => disk[j] # {}
FullFiles == \A k \in Numbered : disk[k] # {} => Cardinality(disk[k]) >= MaxSize
FullFirst == shift < Reopening => Cardinality(disk[0]) >= MaxSize
DropsOldest == Kept # 1 .. written => \A k \in Numbered : k # Hole => disk[k] # {}
FullInv == ~failed /\ ~cut => NoGap /\ FullFiles /\ FullFirst /\ DropsOldest

\* There are no files yet, hence none that is not full.
LEMMA InitFull == ASSUME LogInit PROVE FullInv
<1>1. \A k \in Files : disk[k] = {}
  BY DEF LogInit
<1>2. Kept = 1 .. written
  BY <1>1 DEF Kept, LogInit
<1>3. ~(shift < Reopening)
  BY FilesAssumption DEF LogInit, Idle, Reopening
<1> QED
  BY <1>1, <1>2, <1>3 DEF FullInv, NoGap, FullFiles, FullFirst, DropsOldest, Numbered

\* Outside the renames there is no hole among the numbered files.
LEMMA QuietFull ==
    ASSUME LogType, LogType', FullInv, UNCHANGED <<disk, written>>,
           failed => failed', cut => cut',
           UNCHANGED shift \/ (shift = Reopening /\ shift' = Idle)
    PROVE  FullInv'
<1>1. Hole' = Hole \/ (Hole = 0 /\ Hole' = -1)
  BY FilesAssumption DEF Hole, Reopening, Idle
<1>2. shift' < Reopening => shift < Reopening
  BY FilesAssumption DEF Reopening, Idle
<1>3. Kept' = Kept /\ Numbered' = Numbered
  BY DEF Kept, Numbered
<1>4. (NoGap => NoGap') /\ (DropsOldest => DropsOldest')
  BY <1>1, <1>3 DEF NoGap, DropsOldest, Numbered
<1>5. (FullFiles => FullFiles') /\ (FullFirst => FullFirst')
  BY <1>2, <1>3 DEF FullFiles, FullFirst
<1> QED
  BY <1>4, <1>5 DEF FullInv

\* A line goes to the file in use, which begins to be renamed only when it is full.
LEMMA WriteFull == ASSUME LogType, FullInv, WriteLine PROVE FullInv'
<1> SUFFICES ASSUME ~failed', ~cut' PROVE FullInv'
  BY DEF FullInv
<1>1. /\ NoGap /\ FullFiles /\ DropsOldest /\ Hole = -1
      /\ 0 \in Files
  BY FilesAssumption DEF FullInv, WriteLine, Check, Hole, Idle, Files
<1>2. \A k \in Numbered : disk'[k] = disk[k]
  BY DEF WriteLine, LogType, Numbered
<1>3. Hole' \in {-1, MaxFileNum - 1}
  BY FilesAssumption DEF WriteLine, Check, Hole, Idle
<1>4. NoGap'
  BY <1>1, <1>2, FilesAssumption DEF NoGap, Numbered, Files
<1>5. FullFiles'
  BY <1>1, <1>2 DEF FullFiles, Numbered
<1>6. FullFirst'
  BY FilesAssumption DEF FullFirst, WriteLine, Check, Idle, Reopening
<1>7. Kept = 1 .. written => Kept' = 1 .. written'
  <2>1. CASE UNCHANGED <<disk, written>>
    BY <2>1 DEF Kept
  <2>2. CASE written' = written + 1 /\ disk' = [disk EXCEPT ![0] = @ \cup {written + 1}]
    <3>1. Kept' = Kept \cup {written + 1}
      BY <1>1, <2>2 DEF Kept, LogType
    <3> QED
      BY <2>2, <3>1 DEF LogType
  <2> QED
    BY <2>1, <2>2 DEF WriteLine
<1>8. DropsOldest'
  BY <1>1, <1>2, <1>7 DEF DropsOldest, Numbered, Files
<1> QED
  BY <1>4, <1>5, <1>6, <1>8 DEF FullInv

\* The hole moves down by one; only the first rename may lose lines, and then
\* the files were all full.
LEMMA RenameFull == ASSUME OrderInv, FullInv, Rename PROVE FullInv'
<1> SUFFICES ASSUME ~failed', ~cut' PROVE FullInv'
  BY DEF FullInv
<1> DEFINE i == MaxFileNum - 2 - shift
<1>1. /\ LogType /\ HoleEmpty /\ NoGap /\ FullFiles /\ FullFirst /\ DropsOldest
      /\ disk' = IF disk[i] = {} THEN disk ELSE [disk EXCEPT ![i + 1] = disk[i], ![i] = {}]
      /\ shift' = shift + 1 /\ written' = written
  BY DEF OrderInv, FullInv, Rename, ToRename
<1>2. i \in Files /\ i + 1 \in Numbered /\ shift \in 0 .. MaxFileNum - 2
  BY <1>1, FilesAssumption DEF Files, Numbered, Rename, Reopening, LogType, Idle
<1>3. Hole = i + 1 /\ Hole' = i /\ (shift' < Reopening <=> i # 0)
  BY <1>1, <1>2, FilesAssumption DEF Hole, Reopening
<1>4. Cardinality(disk[0]) >= MaxSize /\ (i = 0 => disk[i] # {})
  <2>1. Cardinality(disk[0]) >= MaxSize
    BY <1>1, <1>2, FilesAssumption DEF FullFirst, Reopening
  <2>2. disk[0] # {}
    BY <2>1, SizeAssumption, FS_EmptySet
  <2> QED
    BY <2>1, <2>2
<1>5. /\ disk'[i] = {}
      /\ disk[i] # {} => disk'[i + 1] = disk[i]
      /\ disk[i] = {} => disk'[i + 1] = disk[i + 1]
      /\ \A k \in Files : k # i /\ k # i + 1 => disk'[k] = disk[k]
  BY <1>1, <1>2 DEF LogType, Numbered
<1> HIDE DEF i
<1>6. FullFiles'
  BY <1>1, <1>2, <1>4, <1>5 DEF FullFiles, Numbered
<1>7. FullFirst'
  <2>1. i # 0 => disk'[0] = disk[0]
    BY <1>2, <1>5, FilesAssumption DEF Files, Numbered
  <2> QED
    BY <1>3, <1>4, <2>1 DEF FullFirst
<1>8. NoGap'
  <2> SUFFICES ASSUME NEW j \in Numbered, NEW k \in Numbered, j < k, j # i, disk'[k] # {}
               PROVE  disk'[j] # {}
    BY <1>3 DEF NoGap, Numbered
  <2>1. j \in Files /\ k \in Files /\ k # i /\ j \in Int /\ k \in Int /\ i \in Int
    BY <1>2, <1>5 DEF Numbered, Files
  <2>2. CASE k = i + 1
    <3>1. j < i /\ i \in Numbered /\ j # i + 1
      BY <1>2, <2>1, <2>2 DEF Numbered, Files
    <3>2. disk[i] # {} => disk[j] # {}
      BY <1>1, <1>3, <3>1 DEF NoGap
    <3>3. disk[i + 1] # {} => disk[j] # {}
      BY <1>1, <1>2, <1>3, <2>2, <3>1 DEF NoGap
    <3> QED
      BY <1>5, <2>1, <2>2, <3>1, <3>2, <3>3
  <2>3. CASE k # i + 1 /\ j = i + 1
    <3>1. disk[i] # {}
      BY <1>1, <1>2, <1>3, <1>4, <1>5, <2>1, <2>3 DEF NoGap, Numbered
    <3> QED
      BY <1>5, <2>3, <3>1
  <2>4. CASE k # i + 1 /\ j # i + 1
    BY <1>1, <1>3, <1>5, <2>1, <2>4 DEF NoGap
  <2> QED
    BY <2>2, <2>3, <2>4
<1>9. DropsOldest'
  <2> SUFFICES ASSUME Kept' # 1 .. written', NEW k \in Numbered, k # i PROVE disk'[k] # {}
    BY <1>3 DEF DropsOldest, Numbered
  <2>1. CASE Kept # 1 .. written
    <3>1. k # i + 1 => disk[k] # {}
      BY <1>1, <1>3, <2>1 DEF DropsOldest
    <3>2. disk[i] # {}
      BY <1>1, <1>2, <1>3, <1>4, <2>1, FilesAssumption DEF DropsOldest, Numbered, Files
    <3> QED
      BY <1>5, <3>1, <3>2 DEF Numbered
  <2>2. CASE Kept = 1 .. written
    <3>1. Kept' # Kept
      BY <1>1, <2>2
    <3>2. disk[i] # {} /\ disk[i + 1] # {}
      <4>1. disk[i] # {}
        BY <1>1, <3>1 DEF Kept
      <4>2. CASE disk[i + 1] = {}
        <5>1. i \in Files /\ i + 1 \in Files /\ disk'[i] = disk[i + 1] /\ disk'[i + 1] = disk[i]
          BY <1>2, <1>5, <4>1, <4>2 DEF Numbered
        <5>2. \A n : (\E f \in Files : n \in disk'[f]) <=> (\E f \in Files : n \in disk[f])
          BY <1>5, <5>1
        <5> QED
          BY <3>1, <5>2 DEF Kept
      <4> QED
        BY <4>1, <4>2
    <3>3. i + 1 = MaxFileNum - 1
      <4>1. shift \notin 1 .. Reopening
        BY <1>1, <1>3, <3>2 DEF HoleEmpty
      <4> QED
        BY <1>2, <1>3, <4>1, FilesAssumption DEF Hole, Reopening
    <3>4. \A j \in Numbered : j # i + 1 => disk[j] # {}
      BY <1>1, <1>2, <1>3, <3>2, <3>3 DEF NoGap, Numbered, Files
    <3> QED
      BY <1>5, <3>2, <3>4 DEF Numbered
  <2> QED
    BY <2>1, <2>2
<1> QED
  BY <1>6, <1>7, <1>8, <1>9 DEF FullInv
-----------------------------------------------------------------------------
(* How long the file in use gets.                                          *)

Allowed == MaxSize - 1 + CheckEvery * unchecked
BoundInv ==
    /\ ~failed => IF at # "down" /\ shift = Idle
                  THEN Cardinality(disk[0]) + (CheckEvery - count) <= Allowed
                  ELSE Cardinality(disk[0]) <= Allowed
    /\ at # "down" => unchecked >= 1

\* Multiples of CheckEvery.
LEMMA Times ==
    ASSUME NEW u \in Nat
    PROVE  /\ CheckEvery * u \in Nat /\ CheckEvery * (u + 1) = CheckEvery * u + CheckEvery
           /\ u >= 1 => CheckEvery * u >= CheckEvery
<1>1. CheckEvery \in Nat
  BY SizeAssumption
<1>2. CheckEvery * u \in Nat /\ CheckEvery * (u + 1) = CheckEvery * u + CheckEvery
  BY <1>1
<1>3. ASSUME u >= 1 PROVE CheckEvery * u >= CheckEvery
  <2>1. PICK v \in Nat : u = v + 1
    BY <1>3
  <2>2. CheckEvery * (v + 1) = CheckEvery * v + CheckEvery /\ CheckEvery * v \in Nat
    BY <1>1
  <2> QED
    BY <1>1, <2>1, <2>2
<1> QED
  BY <1>2, <1>3

\* A file has finitely many lines.
LEMMA Sizes == ASSUME LogType PROVE \A k \in Files : IsFiniteSet(disk[k]) /\ Cardinality(disk[k]) \in Nat
<1> SUFFICES ASSUME NEW k \in Files PROVE IsFiniteSet(disk[k])
  BY FS_CardinalityType
<1>1. IsFiniteSet(1 .. written)
  BY FS_Interval DEF LogType
<1> QED
  BY <1>1, FS_Subset DEF LogType

\* One line more adds one at most.
LEMMA AddOne ==
    ASSUME NEW S, IsFiniteSet(S), NEW x
    PROVE  Cardinality(S \cup {x}) \in Nat /\ Cardinality(S \cup {x}) <= Cardinality(S) + 1
<1>1. Cardinality(S) \in Nat
  BY FS_CardinalityType
<1>2. Cardinality(S \cup {x}) = IF x \in S THEN Cardinality(S) ELSE Cardinality(S) + 1
  BY FS_AddElement
<1> QED
  BY <1>1, <1>2

\* An empty file is within the bound.
LEMMA InitBound == ASSUME Init PROVE BoundInv
<1>1. Cardinality(disk[0]) = 0
  BY FS_EmptySet, FilesAssumption DEF Init, LogInit, Files
<1>2. Allowed >= 0
  BY SizeAssumption DEF Allowed, Init, LogInit
<1> QED
  BY <1>1, <1>2 DEF BoundInv, Init

\* Nothing is written and the count stays: the bound is as it was.
LEMMA QuietBound ==
    ASSUME BoundInv, UNCHANGED <<disk, count, shift, unchecked>>, failed => failed',
           at # "down", at' # "down"
    PROVE  BoundInv'
BY DEF BoundInv, Allowed, Idle

\* A process that begins counts from nothing, and is allowed as many lines more.
LEMMA BeginBound == ASSUME LogType, BoundInv, Begin PROVE BoundInv'
<1>1. /\ at = "down" /\ at' = "nacos" /\ disk' = disk /\ failed' = failed
      /\ count' = 0 /\ shift' = Idle /\ unchecked' = unchecked + 1
  BY DEF Begin, LogBegins, Fresh
<1>2. Allowed' = Allowed + CheckEvery /\ Allowed \in Int
  BY <1>1, Times, SizeAssumption DEF Allowed, LogType
<1>3. Cardinality(disk[0]) \in Nat
  BY Sizes, FilesAssumption DEF Files
<1> QED
  BY <1>1, <1>2, <1>3, SizeAssumption DEF BoundInv, LogType, Idle

\* A process that dies takes its count along.
LEMMA DieBound == ASSUME LogType, BoundInv, Die PROVE BoundInv'
<1>1. /\ at' = "down" /\ at # "down" /\ UNCHANGED <<disk, failed, unchecked>>
  BY DEF Die, LogDies
<1>2. Allowed' = Allowed /\ Allowed \in Int
  BY <1>1, Times, SizeAssumption DEF Allowed, LogType
<1>3. Cardinality(disk[0]) \in Nat
  BY Sizes, FilesAssumption DEF Files
<1> QED
  BY <1>1, <1>2, <1>3, SizeAssumption DEF BoundInv, LogType

\* A line is counted, and the size looked at when the count is full.
LEMMA WriteBound == ASSUME LogType, BoundInv, WriteLine, at # "down", at' = at PROVE BoundInv'
<1> SUFFICES ASSUME ~failed' PROVE BoundInv'
  BY DEF BoundInv, WriteLine, Check, LogType
<1> DEFINE size == Cardinality(disk[0])
           new == Cardinality(disk'[0])
<1>1. size \in Nat /\ new \in Nat /\ new <= size + 1
  <2>1. 0 \in Files /\ IsFiniteSet(disk[0]) /\ size \in Nat
    BY Sizes, FilesAssumption DEF Files
  <2>2. disk'[0] = disk[0] \/ disk'[0] = disk[0] \cup {written + 1}
    BY <2>1 DEF WriteLine, LogType
  <2>3. /\ Cardinality(disk[0] \cup {written + 1}) \in Nat
        /\ Cardinality(disk[0] \cup {written + 1}) <= size + 1
    BY <2>1, AddOne
  <2>4. CASE disk'[0] = disk[0]
    BY <2>1, <2>4
  <2>5. CASE disk'[0] = disk[0] \cup {written + 1}
    BY <2>1, <2>3, <2>5
  <2> QED
    BY <2>2, <2>4, <2>5
<1>2. /\ size + (CheckEvery - count) <= Allowed /\ Allowed \in Int
      /\ unchecked \in Nat /\ unchecked >= 1 /\ count \in 0 .. CheckEvery - 1 /\ shift = Idle
  BY Times, SizeAssumption DEF BoundInv, WriteLine, Check, Allowed, LogType
<1> HIDE DEF size, new
<1>3. CASE count' = count + 1 /\ UNCHANGED <<shift, unchecked>>
  <2>1. new + (CheckEvery - count') <= Allowed'
    BY <1>1, <1>2, <1>3, SizeAssumption DEF Allowed
  <2> QED
    BY <1>2, <1>3, <2>1 DEF BoundInv, new, Idle
<1>4. CASE count' = 0 /\ new < MaxSize /\ unchecked' = 1 /\ shift' = shift
  <2>1. Allowed' = MaxSize - 1 + CheckEvery
    BY <1>4, SizeAssumption DEF Allowed
  <2>2. new + (CheckEvery - count') <= Allowed'
    BY <1>1, <1>4, <2>1, SizeAssumption
  <2> QED
    BY <1>2, <1>4, <2>2 DEF BoundInv, new, Idle
<1>5. CASE Due(count + 1) /\ shift' = 0 /\ unchecked' = unchecked
  <2>1. new <= Allowed'
    BY <1>1, <1>2, <1>5, SizeAssumption DEF Allowed
  <2>2. shift' # Idle'
    BY <1>5, FilesAssumption DEF Idle
  <2> QED
    BY <1>2, <1>5, <2>1, <2>2 DEF BoundInv, new
<1> QED
  BY <1>3, <1>4, <1>5 DEF WriteLine, Check, new

\* A rename leaves the file in use or empties it.
LEMMA RenameBound == ASSUME LogType, BoundInv, Rename, at # "down", at' = at PROVE BoundInv'
<1>1. /\ unchecked' = unchecked /\ shift \in 0 .. MaxFileNum - 2 /\ shift' = shift + 1
      /\ failed => failed'
  BY FilesAssumption DEF Rename, LogType, Reopening, Idle
<1>2. disk'[0] = disk[0] \/ disk'[0] = {}
  <2> DEFINE i == ToRename(shift)
  <2>1. i \in Files /\ i + 1 \in Files /\ i + 1 # 0 /\ 0 \in Files
    BY <1>1, FilesAssumption DEF ToRename, Files
  <2>2. disk' = disk \/ disk' = [disk EXCEPT ![i + 1] = disk[i], ![i] = {}]
    BY DEF Rename
  <2> HIDE DEF i
  <2> QED
    BY <2>1, <2>2 DEF LogType
<1>3. Cardinality(disk'[0]) <= Cardinality(disk[0]) /\ Cardinality(disk[0]) \in Nat /\ Cardinality(disk'[0]) \in Nat
  BY <1>2, Sizes, FS_EmptySet, FilesAssumption DEF Files
<1>4. shift # Idle /\ shift' # Idle'
  BY <1>1, FilesAssumption DEF Idle
<1>5. Allowed' = Allowed /\ Allowed \in Int
  BY <1>1, Times, SizeAssumption DEF Allowed, LogType
<1> QED
  BY <1>1, <1>3, <1>4, <1>5 DEF BoundInv

\* The file opened after the renames is empty.
LEMMA ReopenBound == ASSUME OrderInv, BoundInv, Reopen, at # "down", at' = at PROVE BoundInv'
<1> SUFFICES ASSUME ~failed' PROVE BoundInv'
  BY DEF BoundInv, Reopen
<1>1. disk'[0] = {}
  <2>1. shift \in 1 .. Reopening /\ Hole = 0
    BY FilesAssumption DEF Reopen, Reopening, Hole
  <2> QED
    BY <2>1 DEF OrderInv, HoleEmpty, Reopen
<1>2. Cardinality(disk'[0]) = 0
  BY <1>1, FS_EmptySet
<1>3. Allowed' = MaxSize - 1 + CheckEvery
  BY SizeAssumption DEF Allowed, Reopen
<1>4. count' \in 0 .. CheckEvery - 1 /\ unchecked' = 1 /\ shift' = Idle'
  BY DEF OrderInv, LogType, Reopen, Idle
<1>5. Cardinality(disk'[0]) + (CheckEvery - count') <= Allowed'
  <2>1. \A c \in 0 .. CheckEvery - 1 : 0 + (CheckEvery - c) <= MaxSize - 1 + CheckEvery
    BY SizeAssumption
  <2> QED
    BY <1>2, <1>3, <1>4, <2>1
<1> QED
  BY <1>4, <1>5 DEF BoundInv
-----------------------------------------------------------------------------
(* The process.                                                            *)

States == {"down", "nacos", "keys", "log", "open", "numbers", "local", "db", "workers", "main"}
StartType ==
    /\ at \in States /\ settings \in [Keys -> {"none", "nacos", "local"}]
    /\ numbers \subseteq Numbers /\ starts \in 0 .. MaxStarts
\* The log has no file before its settings are there.
EarlyInv == at \in {"down", "nacos", "keys", "local", "log", "open"} => file = "nil"
\* What each step has of the settings.
FromNacos == \A k \in Keys : settings[k] = "nacos"
FromFile == (\A k \in Keys : settings[k] # "nacos") /\ numbers = {} /\ ~fileName
SourceInv ==
    /\ at \in {"nacos", "keys", "local"} => numbers = {} /\ ~fileName
    /\ at \in {"log", "open", "numbers"} => FromNacos
    /\ at \in {"db", "workers", "main"} => FromNacos \/ FromFile
LogInv == OrderInv /\ FullInv /\ BoundInv
IInv == StartType /\ LogInv /\ EarlyInv /\ SourceInv

\* The invariant holds before the first process.
LEMMA InitInv == ASSUME Init PROVE IInv
<1>1. LogInv
  BY InitOrder, InitFull, InitBound DEF LogInv, Init
<1>2. StartType
  BY StartsAssumption DEF Init, StartType, States, Nothing
<1>3. EarlyInv /\ SourceInv
  BY DEF Init, LogInit, EarlyInv, SourceInv
<1> QED
  BY <1>1, <1>2, <1>3 DEF IInv

\* Files are renamed only while one is open.
LEMMA NoShift == ASSUME LogType, file = "nil" PROVE shift = Idle
BY FilesAssumption DEF LogType, Idle

\* What is known of the log, as the process begins,
LEMMA BeginLog == ASSUME IInv, Begin PROVE LogInv'
<1>1. LogType /\ shift = Idle
  BY NoShift DEF IInv, LogInv, OrderInv, EarlyInv, Begin
<1>2. LogType' /\ UNCHANGED <<disk, written, shift, failed, cut>>
  BY <1>1, BeginType DEF Begin, LogBegins, Fresh, Idle
<1>3. OrderInv'
  BY <1>2, QuietOrder DEF IInv, LogInv
<1>4. FullInv'
  BY <1>1, <1>2, QuietFull DEF IInv, LogInv
<1>5. BoundInv'
  BY <1>1, BeginBound DEF IInv, LogInv
<1> QED
  BY <1>3, <1>4, <1>5 DEF LogInv

\* as it dies,
LEMMA DieLog == ASSUME IInv, Die PROVE LogInv'
<1>1. LogType /\ LogType'
  BY BeginType DEF IInv, LogInv, OrderInv, Die
<1>2. /\ UNCHANGED <<disk, written, failed>> /\ shift' = Idle
      /\ (cut => cut') /\ (~cut' => shift = Idle)
  BY <1>1 DEF Die, LogDies, Fresh, LogType
<1>3. OrderInv'
  BY <1>1, <1>2, QuietOrder DEF IInv, LogInv
<1>4. FullInv'
  <2>1. CASE cut'
    BY <2>1 DEF FullInv
  <2>2. CASE ~cut'
    BY <1>1, <1>2, <2>2, QuietFull DEF IInv, LogInv, Idle
  <2> QED
    BY <2>1, <2>2
<1>5. BoundInv'
  BY <1>1, DieBound DEF IInv, LogInv
<1> QED
  BY <1>3, <1>4, <1>5 DEF LogInv

\* Steps that touch no file, of the process's start and of the log.
LEMMA QuietLog ==
    ASSUME LogInv, LogType', UNCHANGED <<disk, written, count, shift, failed, cut, unchecked>>,
           at # "down", at' # "down"
    PROVE  LogInv'
<1>1. OrderInv'
  BY QuietOrder DEF LogInv
<1>2. FullInv'
  BY QuietFull DEF LogInv, OrderInv
<1>3. BoundInv'
  BY QuietBound DEF LogInv
<1> QED
  BY <1>1, <1>2, <1>3 DEF LogInv

\* What is unchanged keeps its type.
LEMMA StillTyped == ASSUME LogType, UNCHANGED logVars PROVE LogType'
BY DEF LogType, logVars, memory, ghosts, Idle

\* as main names and opens it,
LEMMA InitialiseLog == ASSUME IInv, Initialise PROVE LogInv'
<1>1. at # "down" /\ at' # "down"
  BY DEF Initialise, NewNacosClient, AllFetched, SetLogFileName, GetDataProcessConfig,
         GetViperCfgFromNacos, InitFromLocalFile, GetDBConn, WorkersStart, Step
<1>2. CASE UNCHANGED logVars
  BY <1>1, <1>2, QuietLog, StillTyped DEF IInv, LogInv, OrderInv, logVars, memory, ghosts
<1>3. CASE SetLogFileName
  <2>1. \E named \in BOOLEAN : SetName(named) \/ OpenFile
    BY <1>3 DEF SetLogFileName
  <2>2. LogType /\ shift = Idle
    BY <1>3, NoShift DEF IInv, LogInv, OrderInv, EarlyInv, SetLogFileName, Step
  <2>3. LogType'
    BY <2>1, <2>2, NameType
  <2> QED
    BY <1>1, <2>1, <2>3, QuietLog DEF IInv, SetName, OpenFile, ghosts
<1> QED
  BY <1>2, <1>3 DEF Initialise, NewNacosClient, AllFetched, GetDataProcessConfig,
                    GetViperCfgFromNacos, InitFromLocalFile, GetDBConn, WorkersStart

\* and as it is written and rotated.
LEMMA LogStepLog == ASSUME IInv, LogStep PROVE LogInv'
<1>1. /\ LogType /\ at # "down" /\ at' = at
      /\ OrderInv /\ FullInv /\ BoundInv
  BY DEF IInv, LogInv, OrderInv, LogStep, start
<1>2. CASE Log \/ PrintLine
  BY <1>1, <1>2, LogStepType, QuietLog DEF LogInv, Log, PrintLine, ghosts
<1>3. CASE WriteLine
  BY <1>1, <1>3, WriteOrder, WriteFull, WriteBound DEF LogInv
<1>4. CASE Rename
  BY <1>1, <1>4, RenameOrder, RenameFull, RenameBound DEF LogInv
<1>5. CASE Reopen
  <2>1. LogType' /\ (failed => failed') /\ (cut => cut') /\ shift' = Idle /\ shift = Reopening
        /\ UNCHANGED <<disk, written>>
    BY <1>1, <1>5, LogStepType DEF Reopen
  <2>2. OrderInv' /\ FullInv'
    BY <1>1, <2>1, QuietOrder, QuietFull
  <2> QED
    BY <1>1, <1>5, <2>2, ReopenBound DEF LogInv
<1> QED
  BY <1>2, <1>3, <1>4, <1>5 DEF LogStep, Run

\* The settings: one source, whichever key failed.
LEMMA StartStep == ASSUME IInv, Next PROVE StartType' /\ EarlyInv' /\ SourceInv'
<1> USE DEF StartType, EarlyInv, SourceInv, FromNacos, FromFile
<1>1. CASE Begin
  <2>1. starts' \in 0 .. MaxStarts
    BY <1>1, StartsAssumption DEF IInv, Begin
  <2>2. settings' \in [Keys -> {"none", "nacos", "local"}] /\ \A k \in Keys : settings'[k] = "none"
    BY <1>1 DEF Begin, Nothing
  <2> QED
    BY <1>1, <2>1, <2>2 DEF Begin, LogBegins, Fresh, States
<1>2. CASE Die
  BY <1>2 DEF IInv, Die, LogDies, Fresh, States
<1>3. CASE LogStep
  <2>1. fileName' = fileName /\ (file = "nil" => file' = "nil") /\ UNCHANGED start
    <3>1. fileName' = fileName /\ UNCHANGED start
      BY <1>3 DEF LogStep, Log, Run, WriteLine, PrintLine, Rename, Reopen
    <3>2. ASSUME file = "nil" PROVE file' = "nil"
      <4>1. shift = Idle
        BY <3>2, NoShift DEF IInv, LogInv, OrderInv
      <4> QED
        BY <1>3, <3>2, <4>1, FilesAssumption
           DEF LogStep, Log, Run, WriteLine, PrintLine, Rename, Reopen, Idle, Reopening
    <3> QED
      BY <3>1, <3>2
  <2> QED
    BY <2>1 DEF IInv, start
<1>4. CASE NewNacosClient
  BY <1>4 DEF IInv, NewNacosClient, Step, States, logVars, memory
<1>5. ASSUME NEW k \in Keys, GetViperCfgFromNacos(k) PROVE StartType' /\ EarlyInv' /\ SourceInv'
  BY <1>5 DEF IInv, GetViperCfgFromNacos, Step, States, logVars, memory
<1>6. CASE AllFetched
  BY <1>6 DEF IInv, AllFetched, Step, States, logVars, memory
<1>7. CASE SetLogFileName
  BY <1>7 DEF IInv, SetLogFileName, SetName, OpenFile, Step, States
<1>8. CASE GetDataProcessConfig
  BY <1>8 DEF IInv, GetDataProcessConfig, Step, States, logVars, memory
<1>9. CASE InitFromLocalFile
  BY <1>9 DEF IInv, InitFromLocalFile, Step, States, logVars, memory
<1>10. CASE GetDBConn \/ WorkersStart
  BY <1>10 DEF IInv, GetDBConn, WorkersStart, Step, States, logVars, memory
<1> QED
  BY <1>1, <1>2, <1>3, <1>4, <1>5, <1>6, <1>7, <1>8, <1>9, <1>10 DEF Next, Initialise

\* Every step keeps the invariant.
LEMMA InvStep == ASSUME IInv, [Next]_vars PROVE IInv'
<1>1. CASE Next
  BY <1>1, BeginLog, DieLog, InitialiseLog, LogStepLog, StartStep DEF Next, IInv
<1>2. CASE UNCHANGED vars
  <2>1. LogType'
    BY <1>2, StillTyped DEF IInv, LogInv, OrderInv, vars
  <2>2. OrderInv' /\ FullInv'
    BY <1>2, <2>1, QuietOrder, QuietFull DEF IInv, LogInv, OrderInv, vars, logVars, memory, ghosts
  <2>3. BoundInv'
    BY <1>2 DEF IInv, LogInv, BoundInv, Allowed, Idle, vars, logVars, memory, ghosts, start
  <2>4. StartType' /\ EarlyInv' /\ SourceInv'
    BY <1>2 DEF IInv, StartType, EarlyInv, SourceInv, FromNacos, FromFile, vars, logVars, memory, start
  <2> QED
    BY <2>2, <2>3, <2>4 DEF IInv, LogInv
<1> QED
  BY <1>1, <1>2

\* The invariant holds in every behaviour.
LEMMA Invariance == Spec => []IInv
BY InitInv, InvStep, PTL DEF Spec
-----------------------------------------------------------------------------
\* The reader's handle is closed only within a shift, and counts and channel
\* stay in their bounds, for any number of files, lines and processes.
THEOREM TypeCorrect == Spec => []TypeOK
<1>1. IInv => TypeOK
  BY DEF IInv, StartType, LogInv, OrderInv, TypeOK, States
<1> QED
  BY <1>1, Invariance, PTL

\* The log keeps the newest lines, in order and without a gap, through shifts,
\* crashes within a shift and files that cannot be opened (log.go:232-252).
THEOREM NewestAreKept == Spec => []KeepsNewest
<1>1. ASSUME IInv, ~failed PROVE KeepsNewest
  <2>1. Ordered /\ Unbroken
    BY <1>1 DEF IInv, LogInv, OrderInv
  <2>2. ASSUME Kept # 1 .. written, ~cut, shift = Idle, NEW k \in Files \ {0}
        PROVE  Cardinality(disk[k]) >= MaxSize
    <3>1. DropsOldest /\ FullFiles
      BY <1>1, <2>2 DEF IInv, LogInv, FullInv
    <3>2. k # Hole /\ k \in Numbered
      BY <2>2, FilesAssumption DEF Hole, Idle, Files, Numbered
    <3> QED
      BY <2>2, <3>1, <3>2 DEF DropsOldest, FullFiles
  <2> QED
    BY <2>1, <2>2 DEF KeepsNewest, Ordered, Unbroken
<1>2. IInv => KeepsNewest
  BY <1>1 DEF KeepsNewest
<1> QED
  BY <1>2, Invariance, PTL

\* The file in use exceeds the limit by at most the lines between two looks for
\* each process that wrote to it since the last one (log.go:210-214).
THEOREM FileIsBounded == Spec => []FileBounded
<1>1. ASSUME IInv PROVE FileBounded
  <2>1. /\ LogType /\ BoundInv /\ Cardinality(disk[0]) \in Nat /\ Allowed \in Int
    BY <1>1, Sizes, Times, FilesAssumption, SizeAssumption DEF IInv, LogInv, OrderInv, Files, Allowed, LogType
  <2> QED
    BY <2>1, SizeAssumption DEF FileBounded, BoundInv, Allowed, LogType
<1> QED
  BY <1>1, Invariance, PTL

\* A process never comes up on a mixture of Nacos and the local file, whichever
\* key failed, and on the local file it has no workers (main.go:66-87).
THEOREM SettingsOfOneSource == Spec => []StartsWhole
<1>1. IInv => StartsWhole
  BY DEF IInv, SourceInv, FromNacos, FromFile, StartsWhole
<1> QED
  BY <1>1, Invariance, PTL
=============================================================================
