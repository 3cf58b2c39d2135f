------------------------------ MODULE LogWriter ------------------------------
(***************************************************************************)
(* The log of pkg/log/log.go: any goroutine puts lines into fileChan, one  *)
(* goroutine takes them out and writes them to a file, and after every     *)
(* hundred-odd lines looks at the file's size and shifts the files: name   *)
(* becomes name.1, name.1 becomes name.2, and so on.                       *)
(*                                                                         *)
(* The files outlive the process; the channel, the count and the handle do *)
(* not.  A line is known by its place among the lines ever written to a    *)
(* file, and every line is one unit long.                                  *)
(***************************************************************************)
EXTENDS Integers, FiniteSets

CONSTANTS
    MaxFileNum,     \* files kept: name, name.1, ... (log.go:29)
    MaxSize,        \* lines from which a file is shifted (log.go:28)
    CheckEvery,     \* lines between two looks at the size: 101 (log.go:211)
    ChanCap,        \* capacity of fileChan (log.go:30)
    MaxWritten      \* bound: lines ever written

ASSUME FilesAssumption == MaxFileNum \in Nat /\ MaxFileNum >= 2
ASSUME SizeAssumption == MaxSize \in Nat \ {0} /\ CheckEvery \in Nat \ {0}
ASSUME ChanAssumption == ChanCap \in Nat \ {0} /\ MaxWritten \in Nat

VARIABLES
    fileName,   \* a file name is set
    file,       \* the handle: "nil", "open", "closed"
    count,      \* lines since the last look at the size
    fileChan,   \* how many lines wait in fileChan
    shift,      \* the step of shiftFiles the reader is at
    disk,       \* the lines in each file
    written,    \* how many lines were ever written
    failed,     \* a Stat or a Rename of shiftFiles has failed, ever
    cut,        \* the process has died within shiftFiles, ever
    unchecked   \* processes that have had the file since the last look

memory == <<fileName, file, count, fileChan, shift>>
ghosts == <<failed, cut, unchecked>>
logVars == <<memory, disk, written, ghosts>>

Files == 0 .. MaxFileNum - 1
\* shiftFiles renames in steps 0, 1, ...; then opens the new file.
Reopening == MaxFileNum - 1
Idle == MaxFileNum

Fresh ==
    /\ fileName' = FALSE /\ file' = "nil" /\ count' = 0
    /\ fileChan' = 0 /\ shift' = Idle

LogInit ==
    /\ fileName = FALSE /\ file = "nil" /\ count = 0
    /\ fileChan = 0 /\ shift = Idle
    /\ disk = [k \in Files |-> {}] /\ written = 0
    /\ failed = FALSE /\ cut = FALSE /\ unchecked = 0
-----------------------------------------------------------------------------
(* The process comes and goes; a crash, an exit and a panic look the same,  *)
(* and leave what waits in fileChan unwritten.                              *)

LogBegins == Fresh /\ unchecked' = unchecked + 1 /\ UNCHANGED <<disk, written, failed, cut>>
LogDies == Fresh /\ cut' = (cut \/ shift # Idle) /\ UNCHANGED <<disk, written, failed, unchecked>>

\* SetLogFileName: the name first, the file later, while the reader goes on.
SetName(named) ==
    /\ fileName' = named
    /\ UNCHANGED <<file, count, fileChan, shift, disk, written, ghosts>>
OpenFile ==
    /\ file' \in (IF fileName THEN {"open", "nil"} ELSE {"nil"})
    /\ UNCHANGED <<fileName, count, fileChan, shift, disk, written, ghosts>>
-----------------------------------------------------------------------------
\* A line of a level that is logged; the caller waits for room.
Log ==
    /\ fileChan < ChanCap /\ fileChan' = fileChan + 1
    /\ UNCHANGED <<fileName, file, count, shift, disk, written, ghosts>>

\* The look at the size: nothing to do, the first step of shiftFiles, or a Stat
\* that fails.
Check(size) ==
    \/ size < MaxSize /\ unchecked' = 1 /\ UNCHANGED <<file, shift, failed>>
    \/ size >= MaxSize /\ file' = "closed" /\ shift' = 0 /\ UNCHANGED <<failed, unchecked>>
    \/ failed' = TRUE /\ UNCHANGED <<file, shift, unchecked>>

\* Variant: the look comes one line later.
DueLate(n) == n > CheckEvery
Due(n) == n >= CheckEvery

\* output, with a file: the write may fail unnoticed, on a full disk.
WriteLine ==
    /\ shift = Idle /\ fileChan > 0 /\ fileChan' = fileChan - 1
    /\ file = "open"
    /\ \/ /\ written < MaxWritten /\ written' = written + 1
          /\ disk' = [disk EXCEPT ![0] = @ \cup {written + 1}]
       \/ UNCHANGED <<disk, written>>
    /\ IF Due(count + 1)
       THEN count' = 0 /\ Check(Cardinality(disk'[0]))
       ELSE count' = count + 1 /\ UNCHANGED <<file, shift, failed, unchecked>>
    /\ UNCHANGED <<fileName, cut>>

\* output, without one: to standard output, or to nowhere.
\* Variant: that a line goes nowhere is logged.
PrintLineLogged ==
    /\ shift = Idle /\ fileChan > 0
    /\ fileChan' = IF fileName THEN fileChan ELSE fileChan - 1
    /\ file = "nil"
    /\ UNCHANGED <<fileName, file, count, shift, disk, written, ghosts>>
PrintLine ==
    /\ shift = Idle /\ fileChan > 0 /\ fileChan' = fileChan - 1
    /\ file = "nil"
    /\ UNCHANGED <<fileName, file, count, shift, disk, written, ghosts>>

\* The file renamed in a step of the loop: the oldest but one first.
\* Variant: the newest first.
ToRenameUpwards(s) == s
ToRename(s) == MaxFileNum - 2 - s

Rename ==
    /\ shift < Reopening /\ shift' = shift + 1
    /\ LET i == ToRename(shift)
       IN  \/ /\ disk' = IF disk[i] = {} THEN disk
                         ELSE [disk EXCEPT ![i + 1] = disk[i], ![i] = {}]
              /\ UNCHANGED failed
           \/ failed' = TRUE /\ UNCHANGED disk
    /\ UNCHANGED <<fileName, file, count, fileChan, written, cut, unchecked>>

\* A failure is printed; the handle is nil from then on.
\* Variant: the old handle stays.
ReopenKeepsHandle ==
    /\ shift = Reopening /\ shift' = Idle
    /\ file' \in {"open", file}
    /\ unchecked' = 1
    /\ UNCHANGED <<fileName, count, fileChan, disk, written, failed, cut>>
Reopen ==
    /\ shift = Reopening /\ shift' = Idle
    /\ file' \in {"open", "nil"}
    /\ unchecked' = 1
    /\ UNCHANGED <<fileName, count, fileChan, disk, written, failed, cut>>

\* The goroutine run.
Run == WriteLine \/ PrintLine \/ Rename \/ Reopen
-----------------------------------------------------------------------------
LogType ==
    /\ fileName \in BOOLEAN /\ file \in {"nil", "open", "closed"}
    /\ count \in 0 .. CheckEvery - 1 /\ fileChan \in 0 .. ChanCap
    /\ shift \in 0 .. Idle /\ (shift < Idle <=> file = "closed")
    /\ disk \in [Files -> SUBSET (1 .. written)] /\ written \in Nat
    /\ failed \in BOOLEAN /\ cut \in BOOLEAN /\ unchecked \in Nat

Kept == UNION {disk[k] : k \in Files}

\* Shifting never loses a line but the oldest, and keeps them in order: from
\* the highest-numbered file to the unnumbered one there is an unbroken run of
\* lines that ends with the last one written, also when the process died in
\* the midst of the renames; and the oldest go only for as many full files as
\* may be kept, unless it did (log.go:232-252).
KeepsNewest ==
    ~failed =>
        /\ \A n \in Kept : n .. written \subseteq Kept
        /\ \A i, j \in Files : i < j => \A m \in disk[i], n \in disk[j] : n < m
        /\ Kept # 1 .. written /\ ~cut /\ shift = Idle =>
             \A k \in Files \ {0} : Cardinality(disk[k]) >= MaxSize

\* The file in use is longer than the limit by no more than the lines between
\* two looks at its size, for each process that has written to it: the count
\* starts at zero with the process, and one that dies before its first look
\* leaves the look to the next (log.go:19, 210-214).
FileBounded ==
    ~failed => Cardinality(disk[0]) <= MaxSize - 1 + CheckEvery * unchecked
=============================================================================
