------------------------- MODULE QuotePipelineProps -------------------------
(***************************************************************************)
(* What the quote pipeline is held to.  The properties of the first part   *)
(* hold, the last of them with one parse worker only; those of the second  *)
(* part are what the code's comments and notes say of it, and its          *)
(* goroutines can break each of them.                                      *)
(***************************************************************************)
EXTENDS QuotePipeline

\* A channel, or a batch with its threshold, in its bounds.
Holds(c, cap) == c \in Seq(Messages) /\ Len(c) <= cap

FeedTypeOK == feed \in Seq(Messages) /\ testFeed \in Seq(Messages) /\ dropped \subseteq Messages
ChanTypeOK == Holds(rawChan, RawCap) /\ Holds(parsedChan, ParsedCap) /\ Holds(deadChan, DeadCap)
WorkTypeOK ==
    /\ workerChan \in [DbWorkers -> Seq(Messages)]
    /\ batch \in [DbWorkers -> Seq(Messages)]
    /\ \A w \in DbWorkers : Holds(workerChan[w], BatchSize) /\ Holds(batch[w], BatchSize - 1)
CtlTypeOK ==
    /\ hand \in [Carriers -> Messages \cup {NoMsg}]
    /\ status \in [WgMembers -> {"new", "running", "done"}]
    /\ \A g \in Carriers : status[g] # "running" => Free(g)
    /\ main \in MainStates /\ panicked \in BOOLEAN
DbTypeOK == latest \in Rows /\ stored \subseteq Messages /\ failed \subseteq Messages

\* Type correctness, with the capacities of main.go:217-219 and of
\* StartDBWorkers: no channel ever holds more than it was made for, a batch is
\* shorter than its flush threshold whenever its worker waits, and a goroutine
\* that has not registered or has returned holds no message.
TypeOK == FeedTypeOK /\ ChanTypeOK /\ WorkTypeOK /\ CtlTypeOK /\ DbTypeOK

\* What DB worker w holds: its channel and its batch.
HeldBy(w) == Range(workerChan[w]) \cup Range(batch[w])

\* Two DB workers never hold quotes of one ISIN, so their upserts, which run
\* in concurrent transactions, never touch the same row of the latest table
\* (the promise of the partition at bond_quote_service.go:145 and 151).
SingleWriterPerIsin ==
    \A v, w \in DbWorkers : \A m \in HeldBy(v), n \in HeldBy(w) :
        IsinOf[m] = IsinOf[n] => v = w

\* The places a message may be in: a channel, a batch, a goroutine's hand, or
\* one of the accounts of what has become of it.
Places ==
    ({"feed", "testFeed", "raw", "parsed", "dead", "stored", "failed", "dropped"} \X {NoMsg})
    \cup ({"chan", "batch"} \X DbWorkers) \cup ({"hand"} \X Carriers)

Inside(p) ==
    CASE p[1] = "feed"     -> Range(feed)
      [] p[1] = "testFeed" -> Range(testFeed)
      [] p[1] = "raw"      -> Range(rawChan)
      [] p[1] = "parsed"   -> Range(parsedChan)
      [] p[1] = "dead"     -> Range(deadChan)
      [] p[1] = "chan"     -> Range(workerChan[p[2]])
      [] p[1] = "batch"    -> Range(batch[p[2]])
      [] p[1] = "hand"     -> {hand[p[2]]} \ {NoMsg}
      [] p[1] = "stored"   -> stored
      [] p[1] = "failed"   -> failed
      [] p[1] = "dropped"  -> dropped

\* No channel and no batch holds a message twice.
NoneTwice ==
    /\ IsInjective(feed) /\ IsInjective(testFeed)
    /\ IsInjective(rawChan) /\ IsInjective(parsedChan) /\ IsInjective(deadChan)
    /\ \A w \in DbWorkers : IsInjective(workerChan[w]) /\ IsInjective(batch[w])

\* A message is never lost and never duplicated on its way from a producer to
\* a committed batch, a failed one, the dead letters or the generator's
\* floor, under every interleaving and at every moment of a shutdown: the
\* channels, batch = batch[:0] after a flush and the last flush at exit
\* neither skip nor repeat one.
Conservation ==
    /\ \A m \in Messages : Cardinality({p \in Places : m \in Inside(p)}) = 1
    /\ NoneTwice

\* Received by the process and not yet settled.
InFlight ==
    Range(rawChan) \cup Range(parsedChan)
    \cup (UNION {HeldBy(w) : w \in DbWorkers})
    \cup ({hand[g] : g \in Carriers} \ {NoMsg})

\* If main returns and every goroutine had registered with the WaitGroup by
\* then, nothing received is left behind in a channel, a batch or a hand: the
\* closes cascade through the dispatcher to the last flush of each DB worker.
CleanExitDrained ==
    (main = "exited" /\ \A g \in WgMembers : status[g] # "new") => InFlight = {}

\* The two tables agree: an ISIN has a latest row exactly when a message of
\* that ISIN was committed, and the row is one of those messages.
LatestMatchesStored ==
    \A i \in Isins :
        IF \E m \in stored : IsinOf[m] = i
        THEN latest[i] \in stored /\ IsinOf[latest[i]] = i
        ELSE latest[i] = NoMsg

\* Nothing but a shutdown makes a goroutine panic on a closed channel: every
\* close of main.go:262-264 comes after the interrupt.
PanicOnlyInShutdown == panicked => CtxDone

\* Stage of a message in the ledger that the pipeline implements.
Stage(m) ==
    CASE m \in stored -> "stored"
      [] m \in failed -> "failed"
      [] m \in dropped -> "dropped"
      [] m \in Range(deadChan) -> "dead"
      [] m \in Range(feed) \cup Range(testFeed) \cup {hand[Listener]} -> "offered"
      [] m \in InFlight \ {hand[Listener]} -> "accepted"
      [] OTHER -> "lost"

Ledger == INSTANCE QuoteLedger WITH ledger <- [m \in Messages |-> Stage(m)]

\* The goroutines, channels and batches together keep the ledger: every step
\* moves messages between its stages as a ledger step does, or moves none.
ImplementsLedger == Ledger!Spec

\* The dead letters, which nobody reads, are full and parse worker p waits to
\* add one more.
StuckOnDeadLetter(p) == Len(deadChan) = DeadCap /\ hand[p] \in Malformed

\* A quote the process took up is settled unless the operator interrupts the
\* process: the tickers flush what never fills a batch, and no full channel
\* starves a goroutine.  A full DeadChan stops a parse worker and keeps the
\* message in its hand; the quotes behind it wait only when every parse worker
\* is stopped so (lines 132, 145-165, 199-224).
EveryQuoteSettles ==
    \A m \in Messages :
        Stage(m) = "accepted" ~>
            \/ Stage(m) \in {"stored", "failed", "dead"}
            \/ CtxDone
            \/ \E p \in ParseWorkers : StuckOnDeadLetter(p) /\ hand[p] = m
            \/ \A p \in ParseWorkers : StuckOnDeadLetter(p)

\* An interrupt always ends the process: no goroutine that wg.Wait waits for
\* stays blocked on a channel, whatever was full or empty when it came.
ShutdownTerminates == CtxDone ~> ~Alive

\* The latest row of an ISIN never gives way to a message sent earlier, which
\* is what "based on the message's send time" promises
\* (bond_quote_service.go:271, 281).  The upsert compares nothing, and parse
\* workers do not keep the order of the feed.
LatestNeverRegresses ==
    [][\A i \in Isins :
        latest[i] # NoMsg => SendTime[latest'[i]] >= SendTime[latest[i]]]_vars
-----------------------------------------------------------------------------
\* The shutdown is graceful: closing the channels crashes no goroutine
\* (main.go:261).
ShutdownNeverPanics == ~panicked
=============================================================================
