----------------------------- MODULE ProcessStart -----------------------------
(***************************************************************************)
(* A process from its start to its end: the init of main.go:49-89, which   *)
(* reads the settings from Nacos or else from a local file, and the steps  *)
(* of main that need them; with the log of LogWriter beneath, whose reader *)
(* is running before the first of them.                                    *)
(***************************************************************************)
EXTENDS LogWriter

CONSTANTS
    AppKey,     \* the Nacos key of the application's own settings
    NacosKeys,  \* the others, of the databases (internal/conf/nacos.go:32)
    BondKey,    \* among them, the one of the database used
    MaxStarts   \* bound: processes

ASSUME KeyAssumption == BondKey \in NacosKeys /\ AppKey \notin NacosKeys
ASSUME StartsAssumption == MaxStarts \in Nat

Keys == {AppKey} \cup NacosKeys
Numbers == {"rawCap", "parsedCap", "workerNum", "batchSize", "flushDelay"}

VARIABLES
    at,         \* the step the process is at
    settings,   \* where the settings under each key come from
    numbers,    \* the numbers of main.go:37-41 that are not zero
    starts      \* processes so far

start == <<at, settings, numbers, starts>>
vars == <<logVars, start>>

Nothing == [k \in Keys |-> "none"]

Init == LogInit /\ at = "down" /\ settings = Nothing /\ numbers = {} /\ starts = 0

Begin ==
    /\ at = "down" /\ starts < MaxStarts /\ starts' = starts + 1
    /\ at' = "nacos" /\ settings' = Nothing /\ numbers' = {}
    /\ LogBegins

Die == at # "down" /\ at' = "down" /\ UNCHANGED <<settings, numbers, starts>> /\ LogDies

Step(from, to) == at = from /\ at' = to /\ UNCHANGED starts
-----------------------------------------------------------------------------
(* init.                                                                   *)

\* NACOS_URL is missing, or NACOS_PORT is no number.
NewNacosClient ==
    /\ Step("nacos", "keys") \/ Step("nacos", "local")
    /\ UNCHANGED <<settings, numbers, logVars>>

\* The application's key, then the others in an order that Go chooses; the
\* first that fails ends it.
GetViperCfgFromNacos(k) ==
    /\ settings[k] = "none"
    /\ k = AppKey \/ settings[AppKey] = "nacos"
    /\ \/ Step("keys", "keys") /\ settings' = [settings EXCEPT ![k] = "nacos"]
       \/ Step("keys", "local") /\ UNCHANGED settings
    /\ UNCHANGED <<numbers, logVars>>

AllFetched ==
    /\ Step("keys", "log") /\ \A k \in Keys : settings[k] = "nacos"
    /\ UNCHANGED <<settings, numbers, logVars>>

\* The path in the settings may be missing, which is no file name.
SetLogFileName ==
    \/ Step("log", "open") /\ UNCHANGED <<settings, numbers>> /\ \E named \in BOOLEAN : SetName(named)
    \/ Step("open", "numbers") /\ UNCHANGED <<settings, numbers>> /\ OpenFile

\* Any of the numbers may be missing in the settings, which is zero.
GetDataProcessConfig ==
    /\ Step("numbers", "db")
    /\ numbers' \in SUBSET Numbers
    /\ UNCHANGED <<settings, logVars>>

\* viper.ReadInConfig replaces what was merged before; the file has the settings
\* of some keys.  Without a file the process ends.  The log has no name and the
\* numbers stay zero.
\* Variant: the file is merged into what Nacos gave.
InitFromLocalFileMerged ==
    /\ Step("local", "db")
    /\ \E K \in SUBSET Keys : settings' = [k \in Keys |-> IF k \in K THEN "local" ELSE settings[k]]
    /\ UNCHANGED <<numbers, logVars>>
InitFromLocalFile ==
    /\ Step("local", "db")
    /\ \E K \in SUBSET Keys : settings' = [k \in Keys |-> IF k \in K THEN "local" ELSE "none"]
    /\ UNCHANGED <<numbers, logVars>>
-----------------------------------------------------------------------------
(* main.                                                                   *)

\* Without settings the address is empty, and GetDBConn panics: Die.
GetDBConn ==
    /\ Step("db", "workers") /\ settings[BondKey] # "none"
    /\ UNCHANGED <<settings, numbers, logVars>>

\* StartParseWorkers and StartDBWorkers; a DB worker whose ticker has no period
\* panics, and the process with it.
WorkersStart ==
    /\ Step("workers", "main")
    /\ "workerNum" \in numbers => "flushDelay" \in numbers
    /\ UNCHANGED <<settings, numbers, logVars>>

LogStep == at # "down" /\ (Log \/ Run) /\ UNCHANGED start

Initialise ==
    \/ NewNacosClient \/ AllFetched \/ SetLogFileName \/ GetDataProcessConfig
    \/ \E k \in Keys : GetViperCfgFromNacos(k)
    \/ InitFromLocalFile \/ GetDBConn \/ WorkersStart

Next == Begin \/ Die \/ Initialise \/ LogStep

Spec == Init /\ [][Next]_vars

\* The scheduler runs the log's reader.
FairSpec == Spec /\ WF_vars(at # "down" /\ Run /\ UNCHANGED start)
-----------------------------------------------------------------------------
TypeOK ==
    /\ LogType
    /\ at \in {"down", "nacos", "keys", "log", "open", "numbers", "local", "db", "workers", "main"}
    /\ settings \in [Keys -> {"none", "nacos", "local"}]
    /\ numbers \subseteq Numbers /\ starts \in 0 .. MaxStarts

\* A process that has come up runs on the settings of one source, at whichever
\* key Nacos failed; and on the local file it has no workers and no buffers in
\* its channels, whatever the file says of them: nobody takes the first message
\* off its listener (main.go:66-87, 212-213).
StartsWhole ==
    at \in {"workers", "main"} =>
        \/ \A k \in Keys : settings[k] = "nacos"
        \/ /\ \A k \in Keys : settings[k] # "nacos"
           /\ numbers = {} /\ ~fileName

\* A goroutine that waits to log a line gets room: whatever fails in a shift,
\* the one goroutine that makes room goes on (log.go:253-256, 282-291).
LoggersProceed == fileChan = ChanCap ~> fileChan < ChanCap
=============================================================================
