--------------------------- MODULE QuotePipeline ---------------------------
(***************************************************************************)
(* The quote pipeline of the process and its shutdown: main's select loop  *)
(* (main.go), the producers of RawChan, and the goroutines StartParseWorkers*)
(* and StartDBWorkers start (service/bond_quote_service.go).               *)
(*                                                                         *)
(*   Listener  \                                                           *)
(*              RawChan -> parse workers -> ParsedChan -> dispatcher       *)
(*   generator /              |                             |              *)
(*                            DeadChan          one channel per DB worker  *)
(*                                                          |              *)
(*                                                batches -> MySQL         *)
(*                                                                         *)
(* A Go channel is a sequence with a capacity; sending to a closed one     *)
(* panics and ends the process.  One action is one channel operation of    *)
(* one goroutine with the straight-line code up to its next one: between   *)
(* two of them a goroutine touches nothing shared.  InsertBatch is a       *)
(* transaction of the DB worker that calls it and is atomic here; module   *)
(* InsertBatch opens it up.  The STOMP session under the Listener is       *)
(* module StompSession.                                                    *)
(*                                                                         *)
(* A definition marked "Variant" is a mistake the next definition could    *)
(* have been written with; no action uses it.                              *)
(***************************************************************************)
EXTENDS BatchWrite, FiniteSets

CONSTANTS
    ParseWorkers,   \* goroutines of StartParseWorkers
    DbWorkers,      \* DB goroutines of StartDBWorkers
    Listener,       \* the goroutine of startMessageListener
    Dispatcher,     \* the dispatcher goroutine of StartDBWorkers
    Feed,           \* the messages the STOMP server pushes, in order
    TestFeed,       \* those GenerateAndSendToChannel makes; each push is a message of its own
    Malformed,      \* the messages ParseBondQuote returns an error for
    Partition,      \* hash(isin) % workerNum, as the DB worker it selects
    RawCap, ParsedCap, DeadCap,     \* the capacities of the channels
    BatchSize       \* batchSize: a flush threshold and a channel capacity

ASSUME WorkerAssumption ==
    /\ ParseWorkers # {}
    /\ IsFiniteSet(ParseWorkers) /\ IsFiniteSet(DbWorkers)
    /\ ParseWorkers \cap DbWorkers = {}
    /\ Listener # Dispatcher
    /\ {Listener, Dispatcher} \cap (ParseWorkers \cup DbWorkers) = {}
ASSUME FeedAssumption ==
    /\ Feed \in Seq(Messages) /\ TestFeed \in Seq(Messages)
    /\ IsInjective(Feed) /\ IsInjective(TestFeed)
    /\ Range(Feed) \cap Range(TestFeed) = {} /\ Range(Feed) \cup Range(TestFeed) = Messages
    /\ Malformed \subseteq Messages
ASSUME PartitionAssumption == Partition \in [Isins -> DbWorkers]
ASSUME CapAssumption ==
    /\ RawCap \in Nat \ {0} /\ ParsedCap \in Nat \ {0} /\ DeadCap \in Nat \ {0}
    /\ BatchSize \in Nat \ {0}

\* The goroutines that call wg.Add and wg.Done.  The generator calls neither.
WgMembers == ParseWorkers \cup DbWorkers \cup {Listener, Dispatcher}
\* The goroutines that hold a message between a receive and a send.
Carriers == ParseWorkers \cup {Listener, Dispatcher}

VARIABLES
    feed,           \* what the server has still to push
    testFeed,       \* what the generator has still to make
    rawChan, parsedChan, deadChan,
    workerChan,     \* workerChans: the channel of each DB worker
    batch,          \* the batch slice of each DB worker
    hand,           \* the message a goroutine received and has not passed on
    status,         \* of each goroutine in wg: not registered, running, done
    main,           \* where main is
    panicked,       \* a goroutine panicked: the process is gone
    latest,         \* the day's latest table
    stored,         \* messages of committed batches
    failed,         \* messages of batches whose transaction failed
    dropped         \* messages the generator threw away at a full RawChan

chanVars == <<rawChan, parsedChan, deadChan, workerChan>>
dbVars == <<latest, stored, failed>>
feedVars == <<feed, testFeed, dropped>>
ctlVars == <<status, main, panicked>>
vars == <<feedVars, chanVars, batch, hand, ctlVars, dbVars>>

MainStates == {"select", "closeRaw", "closeParsed", "closeDead", "wait", "exited"}

\* What main has done so far: cancel() comes first, then the closes in order.
CtxDone == main # "select"
RawClosed == main \in {"closeParsed", "closeDead", "wait", "exited"}
ParsedClosed == main \in {"closeDead", "wait", "exited"}
DeadClosed == main \in {"wait", "exited"}
\* The dispatcher's deferred loop closes every worker channel as it returns.
\* Variant: the deferred loop is missing.
WorkerChansLeftOpen == FALSE
WorkerChansClosed == status[Dispatcher] = "done"

\* The process runs until main returns or any goroutine panics.
Alive == main # "exited" /\ ~panicked
Running(g) == Alive /\ status[g] = "running"
Free(g) == hand[g] = NoMsg

\* wg's counter is zero: between wg.Add and wg.Done a goroutine is "running".
WgZero == \A g \in WgMembers : status[g] # "running"

Panic == /\ panicked' = TRUE
         /\ UNCHANGED <<feedVars, chanVars, batch, hand, status, main, dbVars>>

Init ==
    /\ feed = Feed /\ testFeed = TestFeed /\ dropped = {}
    /\ rawChan = <<>> /\ parsedChan = <<>> /\ deadChan = <<>>
    /\ workerChan = [w \in DbWorkers |-> <<>>]
    /\ batch = [w \in DbWorkers |-> <<>>]
    /\ hand = [g \in Carriers |-> NoMsg]
    /\ status = [g \in WgMembers |-> "new"]
    /\ main = "select" /\ panicked = FALSE
    /\ latest = [i \in Isins |-> NoMsg]
    /\ stored = {} /\ failed = {}
-----------------------------------------------------------------------------
\* wg.Add(1) and the go statement.  Each runs in a goroutine main started, so
\* main may be anywhere by then.  StartDBWorkers starts the dispatcher first.
Start(g) ==
    /\ Alive
    /\ status[g] = "new"
    /\ g \in DbWorkers => status[Dispatcher] # "new"
    /\ status' = [status EXCEPT ![g] = "running"]
    /\ UNCHANGED <<feedVars, chanVars, batch, hand, main, panicked, dbVars>>

Exit(g) ==
    /\ status' = [status EXCEPT ![g] = "done"]
    /\ UNCHANGED <<feedVars, chanVars, batch, hand, main, panicked, dbVars>>
-----------------------------------------------------------------------------
\* Subscribe's select: a message of the subscription, or ctx.Done.
ListenerRecv ==
    /\ Running(Listener) /\ Free(Listener)
    /\ feed # <<>>
    /\ hand' = [hand EXCEPT ![Listener] = Head(feed)]
    /\ feed' = Tail(feed)
    /\ UNCHANGED <<testFeed, dropped, chanVars, batch, ctlVars, dbVars>>

ListenerSend ==
    /\ Running(Listener) /\ ~Free(Listener)
    /\ \/ RawClosed /\ Panic
       \/ /\ ~RawClosed /\ Len(rawChan) < RawCap
          /\ rawChan' = Append(rawChan, hand[Listener])
          /\ hand' = [hand EXCEPT ![Listener] = NoMsg]
          /\ UNCHANGED <<feedVars, parsedChan, deadChan, workerChan, batch, ctlVars, dbVars>>

ListenerExit ==
    /\ Running(Listener) /\ Free(Listener)
    /\ CtxDone
    /\ Exit(Listener)

\* startMessageListener returns early: a step of the login or the subscription
\* failed, which nobody hears of, or the session broke, and main, unless it is
\* past its select, starts the listener anew (StompSession has the details).
ListenerDown ==
    /\ Running(Listener) /\ Free(Listener)
    /\ \E s \in {"done"} \cup (IF CtxDone THEN {} ELSE {"new"}) :
          status' = [status EXCEPT ![Listener] = s]
    /\ UNCHANGED <<feedVars, chanVars, batch, hand, main, panicked, dbVars>>

\* GenerateAndSendToChannel's select with a default branch.
GeneratorSend ==
    /\ Alive
    /\ testFeed # <<>>
    /\ \/ RawClosed /\ Panic
       \/ /\ ~RawClosed
          /\ testFeed' = Tail(testFeed)
          /\ IF Len(rawChan) < RawCap
             THEN /\ rawChan' = Append(rawChan, Head(testFeed))
                  /\ UNCHANGED dropped
             ELSE /\ dropped' = dropped \cup {Head(testFeed)}
                  /\ UNCHANGED rawChan
          /\ UNCHANGED <<feed, parsedChan, deadChan, workerChan, batch, hand, ctlVars, dbVars>>
-----------------------------------------------------------------------------
\* A parse worker: for raw := range RawChan.
ParseRecv(p) ==
    /\ Running(p) /\ Free(p)
    /\ rawChan # <<>>
    /\ hand' = [hand EXCEPT ![p] = Head(rawChan)]
    /\ rawChan' = Tail(rawChan)
    /\ UNCHANGED <<feedVars, parsedChan, deadChan, workerChan, batch, ctlVars, dbVars>>

\* ParseBondQuote failed: DeadChan <- raw.
ParseDead(p) ==
    /\ Running(p) /\ hand[p] \in Malformed
    /\ \/ DeadClosed /\ Panic
       \/ /\ ~DeadClosed /\ Len(deadChan) < DeadCap
          /\ deadChan' = Append(deadChan, hand[p])
          /\ hand' = [hand EXCEPT ![p] = NoMsg]
          /\ UNCHANGED <<feedVars, rawChan, parsedChan, workerChan, batch, ctlVars, dbVars>>

\* ParseBondQuote succeeded: ParsedChan <- pq.
\* Variant: the send has a default branch that gives the message up.
ParseSendOrDiscard(p) ==
    /\ Running(p) /\ ~Free(p) /\ hand[p] \notin Malformed /\ ~ParsedClosed
    /\ parsedChan' = IF Len(parsedChan) < ParsedCap THEN Append(parsedChan, hand[p])
                     ELSE parsedChan
    /\ hand' = [hand EXCEPT ![p] = NoMsg]
    /\ UNCHANGED <<feedVars, rawChan, deadChan, workerChan, batch, ctlVars, dbVars>>
ParseSend(p) ==
    /\ Running(p) /\ ~Free(p) /\ hand[p] \notin Malformed
    /\ \/ ParsedClosed /\ Panic
       \/ /\ ~ParsedClosed /\ Len(parsedChan) < ParsedCap
          /\ parsedChan' = Append(parsedChan, hand[p])
          /\ hand' = [hand EXCEPT ![p] = NoMsg]
          /\ UNCHANGED <<feedVars, rawChan, deadChan, workerChan, batch, ctlVars, dbVars>>

ParseExit(p) ==
    /\ Running(p) /\ Free(p)
    /\ RawClosed /\ rawChan = <<>>
    /\ Exit(p)
-----------------------------------------------------------------------------
\* The dispatcher: for pq := range ParsedChan.
DispatchRecv ==
    /\ Running(Dispatcher) /\ Free(Dispatcher)
    /\ parsedChan # <<>>
    /\ hand' = [hand EXCEPT ![Dispatcher] = Head(parsedChan)]
    /\ parsedChan' = Tail(parsedChan)
    /\ UNCHANGED <<feedVars, rawChan, deadChan, workerChan, batch, ctlVars, dbVars>>

\* The DB worker a quote goes to.
\* Variant: the first worker with room, to spread the load.
TargetByLoad(m) == CHOOSE w \in DbWorkers :
    \A v \in DbWorkers : Len(workerChan[w]) <= Len(workerChan[v])
Target(m) == Partition[IsinOf[m]]

DispatchSend ==
    /\ Running(Dispatcher) /\ ~Free(Dispatcher)
    /\ LET m == hand[Dispatcher]
           w == Target(m)
       IN  /\ Len(workerChan[w]) < BatchSize
           /\ workerChan' = [workerChan EXCEPT ![w] = Append(@, m)]
    /\ hand' = [hand EXCEPT ![Dispatcher] = NoMsg]
    /\ UNCHANGED <<feedVars, rawChan, parsedChan, deadChan, batch, ctlVars, dbVars>>

DispatchExit ==
    /\ Running(Dispatcher) /\ Free(Dispatcher)
    /\ ParsedClosed /\ parsedChan = <<>>
    /\ Exit(Dispatcher)
-----------------------------------------------------------------------------
\* flush() of the quotes b held by DB worker w: InsertBatch commits, or fails
\* and is logged; the batch is emptied either way.
\* Variant: an error returns from flush before the batch is emptied.
FlushKeepingFailed(w, b) ==
    \/ /\ batch' = [batch EXCEPT ![w] = <<>>]
       /\ latest' = Upsert(latest, b) /\ stored' = stored \cup Range(b)
       /\ UNCHANGED failed
    \/ /\ batch' = [batch EXCEPT ![w] = b]
       /\ failed' = failed \cup Range(b)
       /\ UNCHANGED <<latest, stored>>
\* Variant: no transaction, so the upsert survives a failure after it.
FlushWithoutTransaction(w, b) ==
    /\ batch' = [batch EXCEPT ![w] = <<>>]
    /\ latest' = Upsert(latest, b)
    /\ \/ stored' = stored \cup Range(b) /\ UNCHANGED failed
       \/ failed' = failed \cup Range(b) /\ UNCHANGED stored
Flush(w, b) ==
    /\ batch' = [batch EXCEPT ![w] = <<>>]
    /\ \/ /\ latest' = Upsert(latest, b)
          /\ stored' = stored \cup Range(b)
          /\ UNCHANGED failed
       \/ /\ failed' = failed \cup Range(b)
          /\ UNCHANGED <<latest, stored>>

\* len(batch) >= batchSize.
\* Variant: off by one.
BatchOverfull(b) == Len(b) > BatchSize
BatchFull(b) == Len(b) >= BatchSize

DbRecv(w) ==
    /\ Running(w)
    /\ workerChan[w] # <<>>
    /\ workerChan' = [workerChan EXCEPT ![w] = Tail(@)]
    /\ LET b == Append(batch[w], Head(workerChan[w]))
       IN  IF BatchFull(b)
           THEN Flush(w, b)
           ELSE batch' = [batch EXCEPT ![w] = b] /\ UNCHANGED dbVars
    /\ UNCHANGED <<feedVars, rawChan, parsedChan, deadChan, hand, ctlVars>>

\* The ticker of flushDelay fires; an empty batch is left alone.
\* Variant: the ticker flushes full batches only.
DbTickFull(w) ==
    /\ Running(w) /\ BatchFull(batch[w])
    /\ Flush(w, batch[w])
    /\ UNCHANGED <<feedVars, chanVars, hand, ctlVars>>
DbTick(w) ==
    /\ Running(w)
    /\ batch[w] # <<>>
    /\ Flush(w, batch[w])
    /\ UNCHANGED <<feedVars, chanVars, hand, ctlVars>>

\* The worker channel is closed and drained: flush what is left and return.
\* Variant: the worker returns without the last flush.
DbExitUnflushed(w) ==
    /\ Running(w)
    /\ WorkerChansClosed /\ workerChan[w] = <<>>
    /\ Exit(w)
DbExit(w) ==
    /\ Running(w)
    /\ WorkerChansClosed /\ workerChan[w] = <<>>
    /\ IF batch[w] = <<>> THEN UNCHANGED <<batch, dbVars>> ELSE Flush(w, batch[w])
    /\ status' = [status EXCEPT ![w] = "done"]
    /\ UNCHANGED <<feedVars, chanVars, hand, main, panicked>>
-----------------------------------------------------------------------------
\* main: SIGINT and cancel(), the closes one by one, wg.Wait, return.
MainGoto(from, to) ==
    /\ Alive
    /\ main = from /\ main' = to
    /\ UNCHANGED <<feedVars, chanVars, batch, hand, status, panicked, dbVars>>

Interrupt == MainGoto("select", "closeRaw")
CloseRaw == MainGoto("closeRaw", "closeParsed")
CloseParsed == MainGoto("closeParsed", "closeDead")
CloseDead == MainGoto("closeDead", "wait")
MainReturn == WgZero /\ MainGoto("wait", "exited")

\* The process is gone: nothing more happens.
Terminated == ~Alive /\ UNCHANGED vars

ParseWorker(p) == ParseRecv(p) \/ ParseDead(p) \/ ParseSend(p) \/ ParseExit(p)
Dispatch == DispatchRecv \/ DispatchSend \/ DispatchExit
DbWorker(w) == DbRecv(w) \/ DbTick(w) \/ DbExit(w)
ListenerStep == ListenerRecv \/ ListenerSend \/ ListenerExit \/ ListenerDown
Closing == CloseRaw \/ CloseParsed \/ CloseDead \/ MainReturn

Next ==
    \/ \E g \in WgMembers : Start(g)
    \/ ListenerStep
    \/ GeneratorSend
    \/ \E p \in ParseWorkers : ParseWorker(p)
    \/ Dispatch
    \/ \E w \in DbWorkers : DbWorker(w)
    \/ Interrupt
    \/ Closing
    \/ Terminated

Spec == Init /\ [][Next]_vars

\* The Go scheduler runs every runnable goroutine, a blocked channel operation
\* that stays possible is completed, and a ticker keeps firing.  Nothing
\* obliges the operator to interrupt the process.
Fairness ==
    /\ \A g \in WgMembers : WF_vars(Start(g))
    /\ WF_vars(ListenerRecv \/ ListenerSend \/ ListenerExit)
    /\ WF_vars(GeneratorSend)
    /\ \A p \in ParseWorkers : WF_vars(ParseWorker(p))
    /\ WF_vars(Dispatch)
    /\ \A w \in DbWorkers : WF_vars(DbRecv(w)) /\ WF_vars(DbTick(w)) /\ WF_vars(DbExit(w))
    /\ WF_vars(Closing)

FairSpec == Spec /\ Fairness
=============================================================================
