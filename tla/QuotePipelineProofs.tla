------------------------ MODULE QuotePipelineProofs ------------------------
(***************************************************************************)
(* Proofs about QuotePipeline for every set of workers, every feed, every  *)
(* capacity and every partition of the ISINs.                              *)
(***************************************************************************)
EXTENDS QuotePipelineProps, FiniteSetTheorems, WellFoundedInduction, TLAPS

-----------------------------------------------------------------------------
(* The winner of a batch.                                                  *)

\* A nonempty set of naturals has a least element.
LEMMA LeastNatural ==
    ASSUME NEW S \in SUBSET Nat, S # {}
    PROVE  \E x \in S : \A y \in S : x <= y
<1>1. PICK x \in S : \A y \in S : ~ (<<y, x>> \in OpToRel(<, Nat))
  BY NatLessThanWellFounded, WFMin
<1>2. \A y \in S : ~ (y < x)
  BY <1>1 DEF OpToRel
<1> QED
  BY <1>2, SMT

\* Every ISIN a batch mentions has a winner: the loop of InsertBatch, which
\* keeps the latest send time and the first of equals, always has one to keep.
LEMMA WinnerExists ==
    ASSUME NEW b \in Seq(Messages), NEW i \in BatchIsins(b)
    PROVE  \E k \in DOMAIN b : IsWinner(b, i, k)
<1> DEFINE K == {k \in DOMAIN b : IsinOf[b[k]] = i}
           Age(k) == MaxSendTime - SendTime[b[k]]
           Ages == {Age(k) : k \in K}
<1>1. /\ DOMAIN b \subseteq Nat
      /\ \A k \in DOMAIN b : b[k] \in Messages /\ Age(k) \in Nat /\ SendTime[b[k]] \in Nat
  BY SendTimeAssumption
<1>2. K # {}
  BY DEF BatchIsins, Range
<1>3. PICK a \in Ages : \A x \in Ages : a <= x
  <2>1. Ages \in SUBSET Nat /\ Ages # {}
    BY <1>1, <1>2
  <2> HIDE DEF Ages
  <2> QED
    BY <2>1, LeastNatural
<1> DEFINE T == {k \in K : Age(k) = a}
<1>4. PICK k \in T : \A j \in T : k <= j
  <2>1. T \in SUBSET Nat /\ T # {}
    BY <1>1, <1>3
  <2> HIDE DEF T
  <2> QED
    BY <2>1, LeastNatural
<1>5. ASSUME NEW j \in DOMAIN b, IsinOf[b[j]] = i
      PROVE  Beats(b, k, j)
  <2>1. j \in K /\ k \in K /\ Age(k) = a /\ a <= Age(j)
    BY <1>3, <1>4, <1>5
  <2>2. /\ SendTime[b[j]] \in Nat /\ SendTime[b[k]] \in Nat /\ MaxSendTime \in Nat
    BY <1>1, <2>1, SendTimeAssumption
  <2>3. CASE Age(j) = a
    BY <1>4, <2>1, <2>2, <2>3 DEF Beats
  <2>4. CASE Age(j) # a
    <3>1. SendTime[b[k]] > SendTime[b[j]]
      BY <2>1, <2>2, <2>4
    <3> QED
      BY <3>1 DEF Beats
  <2> QED
    BY <2>3, <2>4
<1> QED
  BY <1>4, <1>5 DEF IsWinner

\* The winner of an ISIN is a message of the batch with that ISIN.
LEMMA WinnerOfBatch ==
    ASSUME NEW b \in Seq(Messages), NEW i \in BatchIsins(b)
    PROVE  /\ Winner(b, i) \in Range(b)
           /\ Winner(b, i) \in Messages
           /\ IsinOf[Winner(b, i)] = i
<1>1. PICK k \in DOMAIN b : IsWinner(b, i, k) /\ Winner(b, i) = b[k]
  BY WinnerExists DEF Winner
<1> QED
  BY <1>1 DEF IsWinner, Range

\* An upsert keeps the latest table a table of one message or none per ISIN.
LEMMA UpsertType ==
    ASSUME NEW rows \in Rows, NEW b \in Seq(Messages)
    PROVE  Upsert(rows, b) \in Rows
BY WinnerOfBatch DEF Upsert, Rows
-----------------------------------------------------------------------------
(* Type correctness.                                                       *)

USE DEF Running, Free, Alive, Exit, MainGoto

\* Receiving from a channel and sending to one with room keep it in bounds.
LEMMA HoldsAppend ==
    ASSUME NEW c, NEW cap \in Nat, Holds(c, cap), Len(c) < cap, NEW m \in Messages
    PROVE  Holds(Append(c, m), cap)
BY DEF Holds

\* A receive leaves a channel within its capacity.
LEMMA HoldsTail ==
    ASSUME NEW c, NEW cap \in Nat, Holds(c, cap), c # <<>>
    PROVE  Holds(Tail(c), cap) /\ Head(c) \in Messages
BY DEF Holds

\* An empty channel or batch is within any bound.
LEMMA HoldsEmpty == ASSUME NEW cap \in Nat PROVE Holds(<<>>, cap)
BY DEF Holds

\* A step that leaves a part of the state alone keeps its type.
LEMMA Frame ==
    /\ FeedTypeOK /\ UNCHANGED feedVars => FeedTypeOK'
    /\ ChanTypeOK /\ UNCHANGED <<rawChan, parsedChan, deadChan>> => ChanTypeOK'
    /\ WorkTypeOK /\ UNCHANGED <<workerChan, batch>> => WorkTypeOK'
    /\ CtlTypeOK /\ UNCHANGED <<hand, ctlVars>> => CtlTypeOK'
    /\ DbTypeOK /\ UNCHANGED dbVars => DbTypeOK'
<1>1. FeedTypeOK /\ UNCHANGED feedVars => FeedTypeOK'
  BY DEF FeedTypeOK, feedVars
<1>2. ChanTypeOK /\ UNCHANGED <<rawChan, parsedChan, deadChan>> => ChanTypeOK'
  BY DEF ChanTypeOK
<1>3. WorkTypeOK /\ UNCHANGED <<workerChan, batch>> => WorkTypeOK'
  BY DEF WorkTypeOK
<1>4. CtlTypeOK /\ UNCHANGED <<hand, ctlVars>> => CtlTypeOK'
  BY DEF CtlTypeOK, ctlVars
<1>5. DbTypeOK /\ UNCHANGED dbVars => DbTypeOK'
  BY DEF DbTypeOK, dbVars
<1> QED
  BY <1>1, <1>2, <1>3, <1>4, <1>5

\* The channels, batches and goroutines main starts with are of their types.
LEMMA InitType == Init => TypeOK
<1> SUFFICES ASSUME Init PROVE TypeOK
  OBVIOUS
<1>1. FeedTypeOK
  BY FeedAssumption DEF Init, FeedTypeOK
<1>2. ChanTypeOK
  BY HoldsEmpty, CapAssumption DEF Init, ChanTypeOK
<1>3. WorkTypeOK
  BY HoldsEmpty, CapAssumption DEF Init, WorkTypeOK
<1>4. CtlTypeOK
  BY DEF Init, CtlTypeOK, WgMembers, Carriers, MainStates
<1>5. DbTypeOK
  BY DEF Init, DbTypeOK, Rows
<1> QED
  BY <1>1, <1>2, <1>3, <1>4, <1>5 DEF TypeOK

\* A panic changes no channel, batch or table.
LEMMA PanicType == ASSUME TypeOK, Panic PROVE TypeOK'
BY Frame DEF TypeOK, Panic, CtlTypeOK, chanVars

\* wg.Add(1) and the go statement: a goroutine starts with nothing in hand.
LEMMA StartType == ASSUME TypeOK, NEW g \in WgMembers, Start(g) PROVE TypeOK'
<1>1. CtlTypeOK'
  BY DEF TypeOK, Start, CtlTypeOK, WgMembers, Carriers
<1> QED
  BY <1>1, Frame DEF TypeOK, Start, chanVars

\* A goroutine that holds no message returns.
LEMMA ExitType == ASSUME TypeOK, NEW g \in WgMembers, g \in Carriers => Free(g), Exit(g)
                  PROVE  TypeOK'
<1>1. CtlTypeOK'
  BY DEF TypeOK, CtlTypeOK
<1> QED
  BY <1>1, Frame DEF TypeOK, chanVars

\* A running goroutine takes a message in hand, or passes on what it holds.
LEMMA HandType ==
    ASSUME TypeOK, NEW g \in Carriers, Running(g), NEW m \in Messages \cup {NoMsg},
           hand' = [hand EXCEPT ![g] = m], UNCHANGED ctlVars
    PROVE  CtlTypeOK'
BY DEF TypeOK, CtlTypeOK, ctlVars

\* A goroutine between a receive and its send holds a message.
LEMMA HandIsMessage ==
    ASSUME TypeOK, NEW g \in Carriers, ~Free(g) PROVE hand[g] \in Messages
BY DEF TypeOK, CtlTypeOK

\* The listener keeps the types: receive, send, and the two ways it returns.
LEMMA ListenerType == ASSUME TypeOK, ListenerStep PROVE TypeOK'
<1>0. Listener \in Carriers /\ Listener \in WgMembers
  BY DEF Carriers, WgMembers
<1>1. CASE ListenerRecv
  <2>1. Head(feed) \in Messages /\ FeedTypeOK'
    BY <1>1 DEF ListenerRecv, TypeOK, FeedTypeOK
  <2>2. CtlTypeOK'
    BY <1>0, <1>1, <2>1, HandType DEF ListenerRecv
  <2> QED
    BY <1>1, <2>1, <2>2, Frame DEF ListenerRecv, TypeOK, chanVars
<1>2. CASE ListenerSend
  <2>1. CASE Panic
    BY <2>1, PanicType
  <2>2. CASE ~Panic
    <3>1. hand[Listener] \in Messages
      BY <1>0, <1>2, HandIsMessage DEF ListenerSend
    <3>2. ChanTypeOK'
      <4>1. /\ Len(rawChan) < RawCap /\ rawChan' = Append(rawChan, hand[Listener])
            /\ UNCHANGED <<parsedChan, deadChan>>
        BY <1>2, <2>2 DEF ListenerSend
      <4>2. Holds(rawChan', RawCap)
        BY <3>1, <4>1, HoldsAppend, CapAssumption DEF TypeOK, ChanTypeOK
      <4> QED
        BY <4>1, <4>2 DEF TypeOK, ChanTypeOK
    <3>3. CtlTypeOK'
      BY <1>0, <1>2, <2>2, HandType DEF ListenerSend
    <3> QED
      BY <1>2, <2>2, <3>2, <3>3, Frame DEF ListenerSend, TypeOK
  <2> QED
    BY <2>1, <2>2
<1>3. CASE ListenerExit
  BY <1>0, <1>3, ExitType DEF ListenerExit
<1>4. CASE ListenerDown
  <2>1. CtlTypeOK'
    BY <1>0, <1>4 DEF ListenerDown, TypeOK, CtlTypeOK
  <2> QED
    BY <1>4, <2>1, Frame DEF ListenerDown, TypeOK, chanVars
<1> QED
  BY <1>1, <1>2, <1>3, <1>4 DEF ListenerStep

\* The generator keeps the types, whether RawChan has room or not.
LEMMA GeneratorType == ASSUME TypeOK, GeneratorSend PROVE TypeOK'
<1>1. CASE Panic
  BY <1>1, PanicType
<1>2. CASE ~Panic
  <2>1. Head(testFeed) \in Messages /\ FeedTypeOK'
    <3>1. /\ testFeed # <<>> /\ testFeed' = Tail(testFeed) /\ UNCHANGED feed
          /\ dropped' \in {dropped, dropped \cup {Head(testFeed)}}
      BY <1>2 DEF GeneratorSend
    <3> QED
      BY <3>1 DEF TypeOK, FeedTypeOK
  <2>2. ChanTypeOK'
    BY <1>2, <2>1, HoldsAppend, CapAssumption DEF GeneratorSend, TypeOK, ChanTypeOK
  <2> QED
    BY <1>2, <2>1, <2>2, Frame DEF GeneratorSend, TypeOK
<1> QED
  BY <1>1, <1>2

\* A parse worker keeps the types: receive, dead letter, send, return.
LEMMA ParseType == ASSUME TypeOK, NEW p \in ParseWorkers, ParseWorker(p) PROVE TypeOK'
<1>0. p \in Carriers /\ p \in WgMembers
  BY DEF Carriers, WgMembers
<1>1. CASE ParseRecv(p)
  <2>1. Head(rawChan) \in Messages /\ ChanTypeOK'
    BY <1>1, HoldsTail, CapAssumption DEF ParseRecv, TypeOK, ChanTypeOK
  <2>2. CtlTypeOK'
    BY <1>0, <1>1, <2>1, HandType DEF ParseRecv
  <2> QED
    BY <1>1, <2>1, <2>2, Frame DEF ParseRecv, TypeOK
<1>2. CASE ParseDead(p)
  <2>1. CASE Panic
    BY <2>1, PanicType
  <2>2. CASE ~Panic
    <3>1. hand[p] \in Messages
      BY <1>2, FeedAssumption DEF ParseDead
    <3>2. ChanTypeOK'
      <4>1. /\ Len(deadChan) < DeadCap /\ deadChan' = Append(deadChan, hand[p])
            /\ UNCHANGED <<rawChan, parsedChan>>
        BY <1>2, <2>2 DEF ParseDead
      <4>2. Holds(deadChan', DeadCap)
        BY <3>1, <4>1, HoldsAppend, CapAssumption DEF TypeOK, ChanTypeOK
      <4> QED
        BY <4>1, <4>2 DEF TypeOK, ChanTypeOK
    <3>3. CtlTypeOK'
      BY <1>0, <1>2, <2>2, HandType DEF ParseDead
    <3> QED
      BY <1>2, <2>2, <3>2, <3>3, Frame DEF ParseDead, TypeOK
  <2> QED
    BY <2>1, <2>2
<1>3. CASE ParseSend(p)
  <2>1. CASE Panic
    BY <2>1, PanicType
  <2>2. CASE ~Panic
    <3>1. hand[p] \in Messages
      BY <1>0, <1>3, HandIsMessage DEF ParseSend
    <3>2. ChanTypeOK'
      <4>1. /\ Len(parsedChan) < ParsedCap /\ parsedChan' = Append(parsedChan, hand[p])
            /\ UNCHANGED <<rawChan, deadChan>>
        BY <1>3, <2>2 DEF ParseSend
      <4>2. Holds(Append(parsedChan, hand[p]), ParsedCap)
        BY <3>1, <4>1, HoldsAppend, CapAssumption DEF TypeOK, ChanTypeOK
      <4> QED
        BY <4>1, <4>2 DEF TypeOK, ChanTypeOK
    <3>3. CtlTypeOK'
      BY <1>0, <1>3, <2>2, HandType DEF ParseSend
    <3> QED
      BY <1>3, <2>2, <3>2, <3>3, Frame DEF ParseSend, TypeOK
  <2> QED
    BY <2>1, <2>2
<1>4. CASE ParseExit(p)
  BY <1>0, <1>4, ExitType DEF ParseExit
<1> QED
  BY <1>1, <1>2, <1>3, <1>4 DEF ParseWorker

\* The dispatcher keeps the types, and the worker channels their capacity.
LEMMA DispatchType == ASSUME TypeOK, Dispatch PROVE TypeOK'
<1>0. Dispatcher \in Carriers /\ Dispatcher \in WgMembers
  BY DEF Carriers, WgMembers
<1>1. CASE DispatchRecv
  <2>1. Head(parsedChan) \in Messages /\ ChanTypeOK'
    BY <1>1, HoldsTail, CapAssumption DEF DispatchRecv, TypeOK, ChanTypeOK
  <2>2. CtlTypeOK'
    BY <1>0, <1>1, <2>1, HandType DEF DispatchRecv
  <2> QED
    BY <1>1, <2>1, <2>2, Frame DEF DispatchRecv, TypeOK
<1>2. CASE DispatchSend
  <2> DEFINE m == hand[Dispatcher]
             w == Target(m)
  <2>1. m \in Messages
    BY <1>0, <1>2, HandIsMessage DEF DispatchSend
  <2>2. w \in DbWorkers
    BY <2>1, IsinAssumption, PartitionAssumption DEF Target
  <2>3. Len(workerChan[w]) < BatchSize /\ workerChan' = [workerChan EXCEPT ![w] = Append(@, m)]
    BY <1>2 DEF DispatchSend
  <2>4. Holds(Append(workerChan[w], m), BatchSize)
    BY <2>1, <2>2, <2>3, HoldsAppend, CapAssumption DEF TypeOK, WorkTypeOK
  <2> HIDE DEF m, w
  <2>5. WorkTypeOK'
    BY <1>2, <2>2, <2>3, <2>4 DEF DispatchSend, TypeOK, WorkTypeOK, Holds
  <2>6. CtlTypeOK'
    BY <1>0, <1>2, HandType DEF DispatchSend
  <2> QED
    BY <1>2, <2>5, <2>6, Frame DEF DispatchSend, TypeOK
<1>3. CASE DispatchExit
  BY <1>0, <1>3, ExitType DEF DispatchExit
<1> QED
  BY <1>1, <1>2, <1>3 DEF Dispatch

\* Whatever becomes of a batch, the worker's next one is empty and the tables
\* and accounts keep their types.
LEMMA FlushType ==
    ASSUME TypeOK, NEW w \in DbWorkers, NEW b \in Seq(Messages), Flush(w, b)
    PROVE  batch' = [batch EXCEPT ![w] = <<>>] /\ DbTypeOK'
<1>1. Range(b) \subseteq Messages
  BY DEF Range
<1>2. Upsert(latest, b) \in Rows
  BY UpsertType DEF TypeOK, DbTypeOK
<1> QED
  BY <1>1, <1>2 DEF Flush, TypeOK, DbTypeOK

\* A DB worker keeps the types: its batch stays below the flush threshold.
LEMMA DbType == ASSUME TypeOK, NEW w \in DbWorkers, DbWorker(w) PROVE TypeOK'
<1>0. Holds(<<>>, BatchSize - 1) /\ BatchSize \in Nat /\ BatchSize - 1 \in Nat
  BY HoldsEmpty, CapAssumption
<1>1. CASE DbRecv(w)
  <2> DEFINE b == Append(batch[w], Head(workerChan[w]))
  <2>1. Head(workerChan[w]) \in Messages /\ Holds(Tail(workerChan[w]), BatchSize)
    BY <1>0, <1>1, HoldsTail DEF DbRecv, TypeOK, WorkTypeOK
  <2>2. b \in Seq(Messages)
    BY <2>1 DEF TypeOK, WorkTypeOK
  <2>3. workerChan' \in [DbWorkers -> Seq(Messages)] /\ \A v \in DbWorkers : Holds(workerChan'[v], BatchSize)
    BY <1>1, <2>1 DEF DbRecv, TypeOK, WorkTypeOK, Holds
  <2>4. CASE BatchFull(b)
    <3>1. batch' = [batch EXCEPT ![w] = <<>>] /\ DbTypeOK'
      BY <1>1, <2>2, <2>4, FlushType DEF DbRecv
    <3>2. WorkTypeOK'
      BY <1>0, <2>3, <3>1 DEF TypeOK, WorkTypeOK
    <3> QED
      BY <1>1, <3>1, <3>2, Frame DEF DbRecv, TypeOK
  <2>5. CASE ~BatchFull(b)
    <3>1. batch' = [batch EXCEPT ![w] = b] /\ UNCHANGED dbVars
      BY <1>1, <2>5 DEF DbRecv
    <3>2. Holds(b, BatchSize - 1)
      BY <1>0, <2>2, <2>5 DEF BatchFull, Holds
    <3> HIDE DEF b
    <3>3. WorkTypeOK'
      BY <2>2, <2>3, <3>1, <3>2 DEF TypeOK, WorkTypeOK
    <3> QED
      BY <1>1, <3>1, <3>3, Frame DEF DbRecv, TypeOK
  <2> QED
    BY <2>4, <2>5
<1>2. ASSUME batch' = [batch EXCEPT ![w] = <<>>], UNCHANGED workerChan
      PROVE  WorkTypeOK'
  BY <1>0, <1>2 DEF TypeOK, WorkTypeOK
<1>3. batch[w] \in Seq(Messages)
  BY DEF TypeOK, WorkTypeOK
<1>4. CASE DbTick(w)
  <2>1. batch' = [batch EXCEPT ![w] = <<>>] /\ DbTypeOK' /\ UNCHANGED workerChan
    BY <1>3, <1>4, FlushType DEF DbTick, chanVars
  <2> QED
    BY <1>2, <1>4, <2>1, Frame DEF DbTick, TypeOK, chanVars
<1>5. CASE DbExit(w)
  <2>1. CtlTypeOK'
    BY <1>5, WorkerAssumption DEF DbExit, TypeOK, CtlTypeOK, Carriers, WgMembers
  <2>2. WorkTypeOK' /\ DbTypeOK'
    <3>1. CASE batch[w] = <<>>
      BY <1>5, <3>1, Frame DEF DbExit, TypeOK, chanVars
    <3>2. CASE batch[w] # <<>>
      <4>1. batch' = [batch EXCEPT ![w] = <<>>] /\ DbTypeOK' /\ UNCHANGED workerChan
        BY <1>3, <1>5, <3>2, FlushType DEF DbExit, chanVars
      <4> QED
        BY <1>2, <4>1
    <3> QED
      BY <3>1, <3>2
  <2> QED
    BY <1>5, <2>1, <2>2, Frame DEF DbExit, TypeOK, chanVars
<1> QED
  BY <1>1, <1>4, <1>5 DEF DbWorker

\* The interrupt and the closes change nothing but where main is.
LEMMA MainType == ASSUME TypeOK, Interrupt \/ Closing PROVE TypeOK'
<1>1. CtlTypeOK'
  BY DEF Interrupt, Closing, CloseRaw, CloseParsed, CloseDead, MainReturn,
         TypeOK, CtlTypeOK, MainStates
<1> QED
  BY <1>1, Frame DEF Interrupt, Closing, CloseRaw, CloseParsed, CloseDead, MainReturn,
                     TypeOK, chanVars

\* Every variable keeps its type, every channel its capacity and every batch
\* its threshold, whatever the number of workers and messages.
THEOREM TypeCorrect == Spec => []TypeOK
<1>1. TypeOK /\ [Next]_vars => TypeOK'
  <2> SUFFICES ASSUME TypeOK, [Next]_vars PROVE TypeOK'
    OBVIOUS
  <2>1. CASE UNCHANGED vars
    BY <2>1, Frame DEF TypeOK, vars, chanVars
  <2>2. CASE Terminated
    BY <2>1, <2>2 DEF Terminated
  <2> QED
    BY <2>1, <2>2, StartType, ListenerType, GeneratorType, ParseType, DispatchType,
       DbType, MainType DEF Next
<1> QED
  BY <1>1, InitType, PTL DEF Spec
-----------------------------------------------------------------------------
(* A step as the actions it may be, once and for all: the later proofs     *)
(* split [Next]_vars with it.                                              *)

Quiescent == UNCHANGED vars \/ Terminated \/ Panic

\* Every step is one of these actions, a panic, or no change.
LEMMA StepCases ==
    ASSUME [Next]_vars
    PROVE  \/ Quiescent
           \/ \E g \in WgMembers : Start(g)
           \/ ListenerStep
           \/ GeneratorSend
           \/ \E p \in ParseWorkers : ParseWorker(p)
           \/ Dispatch
           \/ \E w \in DbWorkers : DbWorker(w)
           \/ Interrupt
           \/ Closing
BY DEF Next, Quiescent

\* A panic only happens at a closed channel, so only after the interrupt.
THEOREM PanicsOnlyInShutdown == Spec => []PanicOnlyInShutdown
<1>1. Init => PanicOnlyInShutdown
  BY DEF Init, PanicOnlyInShutdown
<1>2. PanicOnlyInShutdown /\ [Next]_vars => PanicOnlyInShutdown'
  <2> SUFFICES ASSUME PanicOnlyInShutdown, [Next]_vars PROVE PanicOnlyInShutdown'
    OBVIOUS
  <2> USE DEF PanicOnlyInShutdown, CtxDone, RawClosed, ParsedClosed, DeadClosed
  <2>1. CASE UNCHANGED vars \/ Terminated
    BY <2>1 DEF Terminated, vars, ctlVars
  <2>2. CASE \E g \in WgMembers : Start(g)
    BY <2>2 DEF Start
  <2>3. CASE ListenerStep \/ GeneratorSend
    BY <2>3 DEF ListenerStep, ListenerRecv, ListenerSend, ListenerExit, ListenerDown, GeneratorSend, Panic, ctlVars
  <2>4. CASE \E p \in ParseWorkers : ParseWorker(p)
    BY <2>4 DEF ParseWorker, ParseRecv, ParseDead, ParseSend, ParseExit, Panic, ctlVars
  <2>5. CASE Dispatch
    BY <2>5 DEF Dispatch, DispatchRecv, DispatchSend, DispatchExit, ctlVars
  <2>6. CASE \E w \in DbWorkers : DbWorker(w)
    BY <2>6 DEF DbWorker, DbRecv, DbTick, DbExit, ctlVars
  <2>7. CASE Interrupt \/ Closing
    BY <2>7 DEF Interrupt, Closing, CloseRaw, CloseParsed, CloseDead, MainReturn
  <2> QED
    BY <2>1, <2>2, <2>3, <2>4, <2>5, <2>6, <2>7 DEF Next
<1> QED
  BY <1>1, <1>2, PTL DEF Spec
-----------------------------------------------------------------------------
(* What a sequence holds after a receive and after a send.                 *)

\* What a channel holds after a send.
LEMMA RangeAppend ==
    ASSUME NEW s \in Seq(Messages), NEW m \in Messages
    PROVE  Range(Append(s, m)) = Range(s) \cup {m}
<1> DEFINE t == Append(s, m)
<1>1. /\ DOMAIN s = 1 .. Len(s) /\ Len(s) \in Nat
      /\ DOMAIN t = 1 .. Len(s) + 1
      /\ t[Len(s) + 1] = m
      /\ \A k \in 1 .. Len(s) : t[k] = s[k]
  OBVIOUS
<1> HIDE DEF t
<1>2. Range(t) \subseteq Range(s) \cup {m}
  <2> SUFFICES ASSUME NEW k \in DOMAIN t PROVE t[k] \in Range(s) \cup {m}
    BY DEF Range
  <2>1. k \in DOMAIN s \/ k = Len(s) + 1
    BY <1>1
  <2> QED
    BY <1>1, <2>1 DEF Range
<1>3. Range(s) \subseteq Range(t) /\ m \in Range(t)
  <2>1. Len(s) + 1 \in DOMAIN t /\ \A k \in DOMAIN s : k \in DOMAIN t
    BY <1>1
  <2> QED
    BY <1>1, <2>1 DEF Range
<1> QED
  BY <1>2, <1>3 DEF t

\* What a channel held before a receive.
LEMMA RangeTail ==
    ASSUME NEW s \in Seq(Messages), s # <<>>
    PROVE  Range(s) = {Head(s)} \cup Range(Tail(s))
<1> DEFINE t == Tail(s)
<1>1. /\ DOMAIN s = 1 .. Len(s) /\ Len(s) \in Nat \ {0}
      /\ DOMAIN t = 1 .. Len(s) - 1
      /\ Head(s) = s[1]
      /\ \A k \in 1 .. Len(s) - 1 : t[k] = s[k + 1]
  OBVIOUS
<1> HIDE DEF t
<1>2. Range(s) \subseteq {Head(s)} \cup Range(t)
  <2> SUFFICES ASSUME NEW k \in DOMAIN s PROVE s[k] \in {Head(s)} \cup Range(t)
    BY DEF Range
  <2>1. CASE k = 1
    BY <1>1, <2>1
  <2>2. CASE k # 1
    <3>1. k - 1 \in 1 .. Len(s) - 1 /\ (k - 1) + 1 = k
      BY <1>1, <2>2
    <3>2. k - 1 \in DOMAIN t /\ t[k - 1] = s[k]
      BY <1>1, <3>1
    <3> QED
      BY <3>2 DEF Range
  <2> QED
    BY <2>1, <2>2
<1>3. Range(t) \subseteq Range(s) /\ Head(s) \in Range(s)
  <2>1. 1 \in DOMAIN s
    BY <1>1
  <2>2. ASSUME NEW k \in DOMAIN t PROVE t[k] \in Range(s)
    <3>1. k + 1 \in DOMAIN s /\ t[k] = s[k + 1]
      BY <1>1
    <3> QED
      BY <3>1 DEF Range
  <2> QED
    BY <1>1, <2>1, <2>2 DEF Range
<1> QED
  BY <1>2, <1>3 DEF t

\* An empty channel or batch holds no message.
LEMMA RangeEmpty == Range(<<>>) = {}
BY DEF Range

\* What a batch of a DB worker becomes in a step of that worker.
LEMMA DbStep ==
    ASSUME TypeOK, NEW w \in DbWorkers, DbWorker(w)
    PROVE  \E b \in Seq(Messages) :
              /\ Range(b) \subseteq HeldBy(w)
              /\ \/ Flush(w, b)
                 \/ batch' = [batch EXCEPT ![w] = b] /\ UNCHANGED dbVars
              /\ \/ UNCHANGED workerChan
                 \/ workerChan' = [workerChan EXCEPT ![w] = Tail(@)] /\ workerChan[w] # <<>>
<1>1. batch[w] \in Seq(Messages) /\ workerChan[w] \in Seq(Messages)
      /\ batch \in [DbWorkers -> Seq(Messages)]
  BY DEF TypeOK, WorkTypeOK
<1>2. CASE DbRecv(w)
  <2> DEFINE b == Append(batch[w], Head(workerChan[w]))
  <2>1. workerChan[w] # <<>> /\ workerChan' = [workerChan EXCEPT ![w] = Tail(@)]
    BY <1>2 DEF DbRecv
  <2>2. Head(workerChan[w]) \in Messages /\ Head(workerChan[w]) \in Range(workerChan[w])
    BY <1>1, <2>1, RangeTail
  <2>3. b \in Seq(Messages) /\ Range(b) \subseteq HeldBy(w)
    BY <1>1, <2>2, RangeAppend DEF HeldBy
  <2>4. Flush(w, b) \/ (batch' = [batch EXCEPT ![w] = b] /\ UNCHANGED dbVars)
    BY <1>2 DEF DbRecv
  <2> HIDE DEF b
  <2> QED
    BY <2>1, <2>3, <2>4
<1>3. CASE DbTick(w)
  BY <1>1, <1>3 DEF DbTick, HeldBy, chanVars
<1>4. CASE DbExit(w)
  <2>1. batch[w] = <<>> => batch' = [batch EXCEPT ![w] = batch[w]] /\ UNCHANGED dbVars
    BY <1>1, <1>4 DEF DbExit
  <2> QED
    BY <1>1, <1>4, <2>1 DEF DbExit, HeldBy, chanVars
<1> QED
  BY <1>2, <1>3, <1>4 DEF DbWorker
-----------------------------------------------------------------------------
(* The partition.                                                          *)

\* Inductive: a DB worker only ever holds quotes the hash sends to it.
Partitioned == \A w \in DbWorkers : \A m \in HeldBy(w) : Target(m) = w

\* Where no channel or batch of a DB worker changes, the partition stays.
LEMMA PartitionFrame ==
    ASSUME Partitioned, UNCHANGED <<workerChan, batch>> PROVE Partitioned'
BY DEF Partitioned, HeldBy

\* The dispatcher sends a quote to the DB worker its ISIN hashes to.
LEMMA DispatchPartition == ASSUME TypeOK, Partitioned, DispatchSend PROVE Partitioned'
<1> DEFINE m == hand[Dispatcher]
           w == Target(m)
<1>1. m \in Messages
  BY HandIsMessage DEF DispatchSend, Carriers
<1>2. w \in DbWorkers /\ workerChan \in [DbWorkers -> Seq(Messages)]
  BY <1>1, IsinAssumption, PartitionAssumption DEF Target, TypeOK, WorkTypeOK
<1>3. workerChan' = [workerChan EXCEPT ![w] = Append(@, m)] /\ UNCHANGED batch
  BY DEF DispatchSend
<1>4. ASSUME NEW v \in DbWorkers, NEW n \in HeldBy(v)'
      PROVE  Target(n) = v
  <2>1. CASE v = w
    <3>1. HeldBy(v)' = HeldBy(v) \cup {m}
      BY <1>1, <1>2, <1>3, <2>1, RangeAppend DEF HeldBy
    <3> QED
      BY <2>1, <3>1, <1>4 DEF Partitioned
  <2>2. CASE v # w
    BY <1>2, <1>3, <1>4, <2>2 DEF Partitioned, HeldBy
  <2> QED
    BY <2>1, <2>2
<1> QED
  BY <1>4 DEF Partitioned, Target

\* A DB worker moves its own quotes only, and a flush empties its batch.
LEMMA DbPartition ==
    ASSUME TypeOK, Partitioned, NEW w \in DbWorkers, DbWorker(w) PROVE Partitioned'
<1>1. PICK b \in Seq(Messages) :
          /\ Range(b) \subseteq HeldBy(w)
          /\ \/ Flush(w, b)
             \/ batch' = [batch EXCEPT ![w] = b]
          /\ \/ UNCHANGED workerChan
             \/ workerChan' = [workerChan EXCEPT ![w] = Tail(@)] /\ workerChan[w] # <<>>
  BY DbStep
<1>2. PICK c \in {b, <<>>} : batch' = [batch EXCEPT ![w] = c]
  BY <1>1 DEF Flush
<1>3. Range(c) \subseteq HeldBy(w)
  BY <1>1, <1>2, RangeEmpty
<1>4. /\ batch \in [DbWorkers -> Seq(Messages)]
      /\ workerChan \in [DbWorkers -> Seq(Messages)]
  BY DEF TypeOK, WorkTypeOK
<1>5. HeldBy(w)' \subseteq HeldBy(w)
  <2>1. Range(workerChan[w])' \subseteq Range(workerChan[w])
    BY <1>1, <1>4, RangeTail
  <2>2. batch'[w] = c
    BY <1>2, <1>4
  <2> QED
    BY <1>3, <2>1, <2>2 DEF HeldBy
<1>6. \A v \in DbWorkers : v # w => HeldBy(v)' = HeldBy(v)
  BY <1>1, <1>2, <1>4 DEF HeldBy
<1> QED
  BY <1>5, <1>6 DEF Partitioned, Target

\* No DB worker is ever sent a quote of another worker's ISINs.
LEMMA PartitionKept == Spec => []Partitioned
<1>1. Init => Partitioned
  BY RangeEmpty DEF Init, Partitioned, HeldBy
<1>2. TypeOK /\ Partitioned /\ [Next]_vars => Partitioned'
  <2> SUFFICES ASSUME TypeOK, Partitioned, [Next]_vars PROVE Partitioned'
    OBVIOUS
  <2>1. CASE Quiescent
    BY <2>1, PartitionFrame DEF Quiescent, Terminated, Panic, vars, chanVars
  <2>2. CASE \E g \in WgMembers : Start(g)
    BY <2>2, PartitionFrame DEF Start, chanVars
  <2>3. CASE ListenerStep \/ GeneratorSend
    BY <2>3, PartitionFrame DEF ListenerStep, ListenerRecv, ListenerSend, ListenerExit, ListenerDown,
       GeneratorSend, Panic, chanVars
  <2>4. CASE \E p \in ParseWorkers : ParseWorker(p)
    BY <2>4, PartitionFrame DEF ParseWorker, ParseRecv, ParseDead, ParseSend, ParseExit,
       Panic, chanVars
  <2>5. CASE DispatchRecv \/ DispatchExit
    BY <2>5, PartitionFrame DEF DispatchRecv, DispatchExit, chanVars
  <2>6. CASE Interrupt \/ Closing
    BY <2>6, PartitionFrame DEF Interrupt, Closing, CloseRaw, CloseParsed, CloseDead,
       MainReturn, chanVars
  <2> QED
    BY <2>1, <2>2, <2>3, <2>4, <2>5, <2>6, DispatchPartition, DbPartition, StepCases DEF Dispatch
<1> QED
  BY <1>1, <1>2, TypeCorrect, PTL DEF Spec

\* No two DB workers ever hold quotes of one ISIN, for any number of workers
\* and any hash into them.
THEOREM OneWriterPerIsin == Spec => []SingleWriterPerIsin
<1>1. Partitioned => SingleWriterPerIsin
  BY DEF Partitioned, SingleWriterPerIsin, Target
<1> QED
  BY <1>1, PartitionKept, PTL
-----------------------------------------------------------------------------
(* The two tables.                                                         *)

\* Committing a batch and giving one up both keep the tables in agreement:
\* the winner of an ISIN is one of the messages the batch stores.
LEMMA FlushTables ==
    ASSUME TypeOK, LatestMatchesStored, NEW w \in DbWorkers, NEW b \in Seq(Messages), Flush(w, b)
    PROVE  LatestMatchesStored'
<1>1. CASE UNCHANGED <<latest, stored>>
  BY <1>1 DEF LatestMatchesStored
<1>2. CASE latest' = Upsert(latest, b) /\ stored' = stored \cup Range(b)
  <2> SUFFICES ASSUME NEW i \in Isins
               PROVE  IF \E m \in stored' : IsinOf[m] = i
                      THEN latest'[i] \in stored' /\ IsinOf[latest'[i]] = i
                      ELSE latest'[i] = NoMsg
    BY DEF LatestMatchesStored
  <2>1. CASE i \in BatchIsins(b)
    <3>1. latest'[i] \in Range(b) /\ IsinOf[latest'[i]] = i
      BY <1>2, <2>1, WinnerOfBatch DEF Upsert
    <3> QED
      BY <1>2, <3>1
  <2>2. CASE i \notin BatchIsins(b)
    <3>1. latest'[i] = latest[i]
      BY <1>2, <2>2 DEF Upsert
    <3>2. \A m \in Range(b) : IsinOf[m] # i
      BY <2>2 DEF BatchIsins
    <3> QED
      BY <1>2, <3>1, <3>2 DEF LatestMatchesStored
  <2> QED
    BY <2>1, <2>2
<1> QED
  BY <1>1, <1>2 DEF Flush

\* Where no transaction ends, the two tables still agree.
LEMMA TablesFrame ==
    ASSUME LatestMatchesStored, UNCHANGED dbVars PROVE LatestMatchesStored'
BY DEF LatestMatchesStored, dbVars

\* An ISIN has a row in the latest table exactly when a message of it was
\* committed, whatever batches commit, fail and interleave.
THEOREM TablesAgree == Spec => []LatestMatchesStored
<1>1. Init => LatestMatchesStored
  BY DEF Init, LatestMatchesStored
<1>2. TypeOK /\ LatestMatchesStored /\ [Next]_vars => LatestMatchesStored'
  <2> SUFFICES ASSUME TypeOK, LatestMatchesStored, [Next]_vars PROVE LatestMatchesStored'
    OBVIOUS
  <2>1. CASE Quiescent
    BY <2>1, TablesFrame DEF Quiescent, Terminated, Panic, vars
  <2>2. CASE \E g \in WgMembers : Start(g)
    BY <2>2, TablesFrame DEF Start
  <2>3. CASE ListenerStep \/ GeneratorSend
    BY <2>3, TablesFrame DEF ListenerStep, ListenerRecv, ListenerSend, ListenerExit, ListenerDown,
       GeneratorSend, Panic
  <2>4. CASE \E p \in ParseWorkers : ParseWorker(p)
    BY <2>4, TablesFrame DEF ParseWorker, ParseRecv, ParseDead, ParseSend, ParseExit, Panic
  <2>5. CASE Dispatch
    BY <2>5, TablesFrame DEF Dispatch, DispatchRecv, DispatchSend, DispatchExit
  <2>6. CASE \E w \in DbWorkers : DbWorker(w)
    BY <2>6, DbStep, FlushTables, TablesFrame
  <2>7. CASE Interrupt \/ Closing
    BY <2>7, TablesFrame DEF Interrupt, Closing, CloseRaw, CloseParsed, CloseDead, MainReturn
  <2> QED
    BY <2>1, <2>2, <2>3, <2>4, <2>5, <2>6, <2>7, StepCases
<1> QED
  BY <1>1, <1>2, TypeCorrect, PTL DEF Spec
-----------------------------------------------------------------------------
(* The drain at a clean exit.                                              *)

\* Inductive: a goroutine that has returned left its input closed and empty,
\* and main only returns with the WaitGroup at zero.
ParseQuiet == \A p \in ParseWorkers : status[p] = "done" => RawClosed /\ rawChan = <<>>
DispatchQuiet == status[Dispatcher] = "done" => ParsedClosed /\ parsedChan = <<>>
DbQuiet ==
    \A w \in DbWorkers : status[w] = "done" =>
        WorkerChansClosed /\ workerChan[w] = <<>> /\ batch[w] = <<>>
ExitQuiet == main = "exited" => WgZero
Quiet == ParseQuiet /\ DispatchQuiet /\ DbQuiet /\ ExitQuiet

\* Where no channel, batch, goroutine or main moves, what has drained stays so.
LEMMA QuietFrame ==
    ASSUME Quiet, UNCHANGED <<rawChan, parsedChan, workerChan, batch, status, main>>
    PROVE  Quiet'
BY DEF Quiet, ParseQuiet, DispatchQuiet, DbQuiet, ExitQuiet, RawClosed, ParsedClosed,
       WorkerChansClosed, WgZero

\* Every step leaves behind a returned goroutine an input closed and empty.
LEMMA QuietStep == ASSUME TypeOK, Quiet, [Next]_vars PROVE Quiet'
<1> USE DEF ParseQuiet, DispatchQuiet, DbQuiet, ExitQuiet, WorkerChansClosed, WgMembers
<1>0. /\ status \in [WgMembers -> {"new", "running", "done"}]
      /\ workerChan \in [DbWorkers -> Seq(Messages)] /\ batch \in [DbWorkers -> Seq(Messages)]
      /\ Listener # Dispatcher /\ ParseWorkers \cap DbWorkers = {}
      /\ {Listener, Dispatcher} \cap (ParseWorkers \cup DbWorkers) = {}
  BY WorkerAssumption DEF TypeOK, CtlTypeOK, WorkTypeOK
<1>1. CASE Quiescent
  BY <1>1, QuietFrame DEF Quiescent, Terminated, Panic, vars, chanVars, ctlVars
<1>2. CASE \E g \in WgMembers : Start(g)
  BY <1>0, <1>2 DEF Start, Quiet, chanVars, RawClosed, ParsedClosed
<1>3. CASE ListenerStep
  <2>1. CASE ListenerRecv \/ Panic
    BY <2>1, QuietFrame DEF ListenerRecv, Panic, chanVars, ctlVars
  <2>2. CASE ListenerSend /\ ~Panic
    BY <1>0, <2>2 DEF ListenerSend, Quiet, ctlVars, RawClosed, ParsedClosed, WgZero
  <2>3. CASE ListenerExit
    BY <1>0, <2>3 DEF ListenerExit, Quiet, chanVars, RawClosed, ParsedClosed, WgZero
  <2>4. CASE ListenerDown
    BY <1>0, <2>4 DEF ListenerDown, Running, Alive, Quiet, chanVars, RawClosed, ParsedClosed, WgZero
  <2> QED
    BY <1>3, <2>1, <2>2, <2>3, <2>4 DEF ListenerStep
<1>4. CASE GeneratorSend /\ ~Panic
  <2>1. /\ ~RawClosed /\ rawChan' \in {rawChan, Append(rawChan, Head(testFeed))}
        /\ UNCHANGED <<parsedChan, workerChan, batch, ctlVars>>
    BY <1>4 DEF GeneratorSend
  <2> QED
    BY <2>1 DEF Quiet, ctlVars, RawClosed, ParsedClosed, WgZero
<1>5. ASSUME NEW p \in ParseWorkers, ParseWorker(p) PROVE Quiet'
  <2>1. CASE ParseRecv(p)
    BY <1>0, <2>1 DEF ParseRecv, Quiet, ctlVars, RawClosed, ParsedClosed, WgZero
  <2>2. CASE Panic
    BY <2>2, QuietFrame DEF Panic, chanVars
  <2>3. CASE ParseDead(p) /\ ~Panic
    BY <2>3, QuietFrame DEF ParseDead, ctlVars
  <2>4. CASE ParseSend(p) /\ ~Panic
    BY <1>0, <2>4 DEF ParseSend, Quiet, ctlVars, RawClosed, ParsedClosed, WgZero
  <2>5. CASE ParseExit(p)
    BY <1>0, <2>5 DEF ParseExit, Quiet, chanVars, RawClosed, ParsedClosed, WgZero
  <2> QED
    BY <1>5, <2>1, <2>2, <2>3, <2>4, <2>5 DEF ParseWorker
<1>6. CASE Dispatch
  <2>1. CASE DispatchRecv
    BY <1>0, <2>1 DEF DispatchRecv, Quiet, ctlVars, RawClosed, ParsedClosed, WgZero
  <2>2. CASE DispatchSend
    <3>1. \A w \in DbWorkers : status[w] # "done"
      BY <2>2 DEF DispatchSend, Quiet
    <3> QED
      BY <2>2, <3>1 DEF DispatchSend, Quiet, ctlVars, RawClosed, ParsedClosed, WgZero
  <2>3. CASE DispatchExit
    BY <1>0, <2>3 DEF DispatchExit, Quiet, chanVars, RawClosed, ParsedClosed, WgZero
  <2> QED
    BY <1>6, <2>1, <2>2, <2>3 DEF Dispatch
<1>7. ASSUME NEW w \in DbWorkers, DbWorker(w) PROVE Quiet'
  <2>1. PICK b \in Seq(Messages) :
            /\ Flush(w, b) \/ batch' = [batch EXCEPT ![w] = b]
            /\ \/ UNCHANGED workerChan
               \/ workerChan' = [workerChan EXCEPT ![w] = Tail(@)] /\ workerChan[w] # <<>>
    BY <1>7, DbStep
  <2>2. PICK c \in {b, <<>>} : batch' = [batch EXCEPT ![w] = c]
    BY <2>1 DEF Flush
  <2>3. \A v \in DbWorkers : v # w => batch'[v] = batch[v] /\ workerChan'[v] = workerChan[v]
    BY <1>0, <2>1, <2>2
  <2>4. Running(w) /\ UNCHANGED <<rawChan, parsedChan, main>>
    BY <1>7 DEF DbWorker, DbRecv, DbTick, DbExit, chanVars, ctlVars
  <2>5. CASE UNCHANGED status
    BY <1>0, <2>3, <2>4, <2>5 DEF Quiet, RawClosed, ParsedClosed, WgZero
  <2>6. CASE DbExit(w)
    <3>1. /\ WorkerChansClosed /\ workerChan'[w] = <<>> /\ batch'[w] = <<>>
          /\ status' = [status EXCEPT ![w] = "done"]
      BY <1>0, <2>6 DEF DbExit, Flush, chanVars
    <3> QED
      BY <1>0, <2>3, <2>4, <3>1 DEF Quiet, RawClosed, ParsedClosed, WgZero
  <2> QED
    BY <1>7, <2>5, <2>6 DEF DbWorker, DbRecv, DbTick, ctlVars
<1>8. CASE Interrupt \/ Closing
  BY <1>8 DEF Interrupt, Closing, CloseRaw, CloseParsed, CloseDead, MainReturn,
     Quiet, chanVars, RawClosed, ParsedClosed, WgZero
<1> QED
  BY <1>1, <1>2, <1>3, <1>4, <1>5, <1>6, <1>7, <1>8, StepCases DEF Quiescent

\* If main returns with every goroutine registered, nothing that was received
\* is left in a channel, a batch or a hand: the cascade of closes, from RawChan
\* to the last flush of each DB worker, drains the pipeline.
THEOREM CleanExitDrains == Spec => []CleanExitDrained
<1>1. Init => Quiet
  BY DEF Init, Quiet, ParseQuiet, DispatchQuiet, DbQuiet, ExitQuiet, WgMembers
<1>2. TypeOK /\ Quiet => CleanExitDrained
  <2> SUFFICES ASSUME TypeOK, Quiet, main = "exited", \A g \in WgMembers : status[g] # "new"
               PROVE  InFlight = {}
    BY DEF CleanExitDrained
  <2>1. \A g \in WgMembers : status[g] = "done"
    BY DEF Quiet, ExitQuiet, WgZero, TypeOK, CtlTypeOK
  <2>2. rawChan = <<>> /\ parsedChan = <<>>
    BY <2>1, WorkerAssumption DEF Quiet, ParseQuiet, DispatchQuiet, WgMembers
  <2>3. \A w \in DbWorkers : HeldBy(w) = {}
    BY <2>1, RangeEmpty DEF Quiet, DbQuiet, HeldBy, WgMembers
  <2>4. \A g \in Carriers : hand[g] = NoMsg
    BY <2>1 DEF TypeOK, CtlTypeOK, Carriers, WgMembers
  <2> QED
    BY <2>2, <2>3, <2>4, RangeEmpty DEF InFlight
<1> QED
  BY <1>1, <1>2, QuietStep, TypeCorrect, PTL DEF Spec
-----------------------------------------------------------------------------
(* Nobody waits for everybody: what each goroutine waits for, and that they *)
(* never all wait at once.                                                 *)

\* A goroutine main started may reach its wg.Add.
StartReady(g) ==
    Alive /\ status[g] = "new" /\ (g \in DbWorkers => status[Dispatcher] # "new")

\* Subscribe's select has a case, or its send to RawChan has room or panics.
ListenerReady ==
    /\ Running(Listener)
    /\ IF Free(Listener) THEN feed # <<>> \/ CtxDone
                         ELSE RawClosed \/ Len(rawChan) < RawCap

\* A parse worker's receive has a message or the close; so has its send room.
ParserReady(p) ==
    /\ Running(p)
    /\ IF Free(p) THEN RawClosed \/ rawChan # <<>>
       ELSE IF hand[p] \in Malformed THEN DeadClosed \/ Len(deadChan) < DeadCap
       ELSE ParsedClosed \/ Len(parsedChan) < ParsedCap

\* The dispatcher receives, or the worker channel of the quote has room.
DispatcherReady ==
    /\ Running(Dispatcher)
    /\ IF Free(Dispatcher) THEN ParsedClosed \/ parsedChan # <<>>
                           ELSE Len(workerChan[Target(hand[Dispatcher])]) < BatchSize

\* A DB worker receives a quote or the close, or its ticker finds a batch.
DbReady(w) == Running(w) /\ (WorkerChansClosed \/ workerChan[w] # <<>> \/ batch[w] # <<>>)

\* main goes on from the interrupt to wg.Wait, which waits for the counter.
MainReady == Alive /\ CtxDone /\ (main = "wait" => WgZero)

SomeoneReady ==
    \/ \E g \in WgMembers : StartReady(g)
    \/ ListenerReady \/ DispatcherReady \/ MainReady
    \/ \E p \in ParseWorkers : ParserReady(p)
    \/ \E w \in DbWorkers : DbReady(w)

\* The messages that parse workers hold before a full DeadChan.
LeftBehind == {hand[p] : p \in {q \in ParseWorkers : StuckOnDeadLetter(q)}}

\* In a shutdown, and as long as a quote is under way other than those and a
\* parse worker is left to receive, some goroutine or main can go on.
NeverAllWait ==
    Alive /\ (CtxDone \/ (/\ InFlight \ LeftBehind # {}
                         /\ \E p \in ParseWorkers : ~StuckOnDeadLetter(p)))
    => SomeoneReady

\* A DB worker that is there lets the dispatcher send to it or can go on.
LEMMA WorkerReady ==
    ASSUME TypeOK, Quiet, ~SomeoneReady, Running(Dispatcher), NEW w \in DbWorkers
    PROVE  /\ workerChan[w] = <<>> /\ batch[w] = <<>>
           /\ Len(workerChan[w]) < BatchSize
<1>1. w \in WgMembers /\ status[w] \in {"new", "running", "done"}
  BY DEF TypeOK, CtlTypeOK, WgMembers
<1>2. status[w] # "new"
  BY <1>1 DEF SomeoneReady, StartReady, Running
<1>3. status[w] # "done"
  BY DEF Quiet, DbQuiet, WorkerChansClosed, Running
<1>4. Running(w)
  BY <1>1, <1>2, <1>3 DEF Running
<1>5. workerChan[w] = <<>> /\ batch[w] = <<>>
  BY <1>4 DEF SomeoneReady, DbReady
<1>6. Len(workerChan[w]) = 0
  BY <1>5
<1> QED
  BY <1>5, <1>6, CapAssumption

\* A dispatcher that cannot go on has nothing in hand and nothing to receive.
LEMMA DispatcherWaits ==
    ASSUME TypeOK, Quiet, ~SomeoneReady, Running(Dispatcher)
    PROVE  hand[Dispatcher] = NoMsg /\ parsedChan = <<>> /\ ~ParsedClosed
<1>1. hand[Dispatcher] = NoMsg
  <2> SUFFICES ASSUME hand[Dispatcher] # NoMsg PROVE FALSE
    OBVIOUS
  <2>1. hand[Dispatcher] \in Messages
    BY HandIsMessage DEF Carriers, Free
  <2>2. Target(hand[Dispatcher]) \in DbWorkers
    BY <2>1, IsinAssumption, PartitionAssumption DEF Target
  <2> QED
    BY <2>2, WorkerReady DEF SomeoneReady, DispatcherReady, Free
<1> QED
  BY <1>1 DEF SomeoneReady, DispatcherReady, Free

\* While main waits for the WaitGroup, somebody it waits for can go on.
LEMMA WaitersGoOn ==
    ASSUME TypeOK, Quiet, Alive, main = "wait"
    PROVE  SomeoneReady
<1> SUFFICES ASSUME ~SomeoneReady PROVE FALSE
  OBVIOUS
<1>1. RawClosed /\ ParsedClosed /\ DeadClosed /\ CtxDone
  BY DEF RawClosed, ParsedClosed, DeadClosed, CtxDone
<1>2. PICK g \in WgMembers : status[g] = "running"
  BY <1>1 DEF SomeoneReady, MainReady, WgZero
<1>3. Running(g)
  BY <1>2 DEF Running
<1>4. g # Listener
  BY <1>1, <1>3 DEF SomeoneReady, ListenerReady
<1>5. g \notin ParseWorkers
  BY <1>1, <1>3 DEF SomeoneReady, ParserReady
<1>6. ~Running(Dispatcher)
  BY <1>1, DispatcherWaits
<1>7. status[Dispatcher] # "new"
  BY WorkerAssumption DEF SomeoneReady, StartReady, WgMembers
<1>8. WorkerChansClosed
  BY <1>6, <1>7 DEF Running, WorkerChansClosed, TypeOK, CtlTypeOK, WgMembers
<1>9. g \notin DbWorkers
  BY <1>3, <1>8 DEF SomeoneReady, DbReady
<1> QED
  BY <1>3, <1>4, <1>5, <1>6, <1>9 DEF WgMembers

\* Before the interrupt, a quote under way can be moved by somebody.
LEMMA QuotesGoOn ==
    ASSUME TypeOK, Quiet, Alive, ~CtxDone, ~SomeoneReady,
           NEW r \in ParseWorkers, ~StuckOnDeadLetter(r)
    PROVE  InFlight \subseteq LeftBehind
<1>1. ~RawClosed /\ ~ParsedClosed
  BY DEF CtxDone, RawClosed, ParsedClosed
<1>2. status[Dispatcher] \in {"new", "running", "done"} /\ Dispatcher \in WgMembers
  BY DEF TypeOK, CtlTypeOK, WgMembers
<1>3. status[Dispatcher] # "done" /\ status[Dispatcher] # "new"
  BY <1>1, <1>2, WorkerAssumption DEF Quiet, DispatchQuiet, SomeoneReady, StartReady
<1>4. Running(Dispatcher)
  BY <1>2, <1>3 DEF Running
<1>5. \A w \in DbWorkers : HeldBy(w) = {}
  BY <1>4, WorkerReady, RangeEmpty DEF HeldBy
<1>6. hand[Dispatcher] = NoMsg /\ parsedChan = <<>>
  BY <1>4, DispatcherWaits
<1>7. ASSUME NEW p \in ParseWorkers PROVE Running(p) /\ (hand[p] = NoMsg \/ StuckOnDeadLetter(p))
  <2>1. p \in WgMembers /\ status[p] \in {"new", "running", "done"} /\ p \notin DbWorkers
    BY WorkerAssumption DEF TypeOK, CtlTypeOK, WgMembers
  <2>2. status[p] # "done" /\ status[p] # "new"
    BY <1>1, <2>1 DEF Quiet, ParseQuiet, SomeoneReady, StartReady
  <2>3. Running(p)
    BY <2>1, <2>2 DEF Running
  <2>4. Len(parsedChan) < ParsedCap
    BY <1>6, CapAssumption
  <2>5. ~Free(p) => hand[p] \in Malformed /\ ~(Len(deadChan) < DeadCap)
    <3>1. ~ParserReady(p)
      BY DEF SomeoneReady
    <3> QED
      BY <2>3, <2>4, <3>1 DEF ParserReady
  <2>6. ~(Len(deadChan) < DeadCap) => Len(deadChan) = DeadCap
    BY CapAssumption DEF TypeOK, ChanTypeOK, Holds
  <2> QED
    BY <2>3, <2>5, <2>6 DEF StuckOnDeadLetter, Free
<1>8. rawChan = <<>>
  <2>1. Running(r) /\ hand[r] = NoMsg
    BY <1>7
  <2> QED
    BY <2>1 DEF SomeoneReady, ParserReady, Free
<1>9. hand[Listener] = NoMsg
  <2>1. hand[Listener] # NoMsg => Running(Listener)
    BY DEF TypeOK, CtlTypeOK, Carriers, Running, Free
  <2>2. Len(rawChan) < RawCap
    BY <1>8, CapAssumption
  <2> QED
    BY <2>1, <2>2 DEF SomeoneReady, ListenerReady, Free
<1> QED
  <2>1. Range(rawChan) = {} /\ Range(parsedChan) = {} /\ UNION {HeldBy(w) : w \in DbWorkers} = {}
    BY <1>5, <1>6, <1>8, RangeEmpty
  <2>2. {hand[g] : g \in Carriers} \ {NoMsg} \subseteq LeftBehind
    BY <1>6, <1>7, <1>9 DEF Carriers, LeftBehind
  <2> QED
    BY <2>1, <2>2 DEF InFlight

\* For any numbers and capacities, no shutdown comes to a standstill, and
\* neither does a quote under way, unless DeadChan, which nobody reads, has
\* stopped every parse worker: however the full channels couple the
\* goroutines, one can go on.
THEOREM NobodyWaitsForEverybody == Spec => []NeverAllWait
<1>1. Init => Quiet
  BY DEF Init, Quiet, ParseQuiet, DispatchQuiet, DbQuiet, ExitQuiet, WgMembers
<1>2. TypeOK /\ Quiet => NeverAllWait
  <2> SUFFICES ASSUME TypeOK, Quiet, Alive,
                      CtxDone \/ (/\ InFlight \ LeftBehind # {}
                                  /\ \E p \in ParseWorkers : ~StuckOnDeadLetter(p))
               PROVE  SomeoneReady
    BY DEF NeverAllWait
  <2>1. CASE CtxDone /\ main # "wait"
    BY <2>1 DEF SomeoneReady, MainReady
  <2>2. CASE main = "wait"
    BY <2>2, WaitersGoOn
  <2>3. CASE ~CtxDone
    BY <2>3, QuotesGoOn
  <2> QED
    BY <2>1, <2>2, <2>3
<1> QED
  BY <1>1, <1>2, QuietStep, TypeCorrect, PTL DEF Spec
-----------------------------------------------------------------------------
(* One place for each message.                                             *)

\* A message is in one place and in no other.
OnePlace ==
    \A m \in Messages : \E p \in Places : \A q \in Places : m \in Inside(q) <=> q = p

\* The messages of S are now in b, wherever they were, and the others stay.
Moved(S, b) ==
    \A p \in Places : Inside(p)' = IF p = b THEN Inside(p) \cup S ELSE Inside(p) \ S

\* A move takes messages from where they are to one place.
LEMMA MoveKeeps ==
    ASSUME OnePlace, NEW S, NEW b \in Places, Moved(S, b) PROVE OnePlace'
<1>1. ASSUME NEW m \in Messages
      PROVE  \E p \in Places : \A q \in Places : m \in Inside(q)' <=> q = p
  <2>1. CASE m \in S
    BY <2>1 DEF Moved
  <2>2. CASE m \notin S
    <3>1. \A q \in Places : m \in Inside(q)' <=> m \in Inside(q)
      BY <2>2 DEF Moved
    <3> QED
      BY <3>1 DEF OnePlace
  <2> QED
    BY <2>1, <2>2
<1> QED
  BY <1>1 DEF OnePlace, Places

\* Where no channel, batch, hand or account changes, no place does.
LEMMA PlaceFrame ==
    ASSUME NEW p \in Places,
           p[1] = "feed" => UNCHANGED feed,
           p[1] = "testFeed" => UNCHANGED testFeed,
           p[1] = "raw" => UNCHANGED rawChan,
           p[1] = "parsed" => UNCHANGED parsedChan,
           p[1] = "dead" => UNCHANGED deadChan,
           p[1] = "chan" => workerChan'[p[2]] = workerChan[p[2]],
           p[1] = "batch" => batch'[p[2]] = batch[p[2]],
           p[1] = "hand" => hand'[p[2]] = hand[p[2]],
           p[1] = "stored" => UNCHANGED stored,
           p[1] = "failed" => UNCHANGED failed,
           p[1] = "dropped" => UNCHANGED dropped
    PROVE  Inside(p)' = Inside(p)
BY DEF Inside, Places

\* One message goes from place a to place b, and no other place changes.
LEMMA OneMoves ==
    ASSUME OnePlace, NEW m \in Messages, NEW a \in Places, NEW b \in Places, a # b,
           m \in Inside(a), Inside(a)' = Inside(a) \ {m}, Inside(b)' = Inside(b) \cup {m},
           \A p \in Places : p # a /\ p # b => Inside(p)' = Inside(p)
    PROVE  Moved({m}, b)
<1>1. \A p \in Places : p # a => m \notin Inside(p)
  BY DEF OnePlace
<1> QED
  BY <1>1 DEF Moved

\* A receive takes the head out of a channel that holds it once.
LEMMA TailMoves ==
    ASSUME NEW s \in Seq(Messages), s # <<>>, IsInjective(s)
    PROVE  /\ Head(s) \in Range(s) /\ Head(s) \in Messages
           /\ Range(Tail(s)) = Range(s) \ {Head(s)}
           /\ IsInjective(Tail(s))
<1> DEFINE t == Tail(s)
<1>1. /\ DOMAIN s = 1 .. Len(s) /\ Len(s) \in Nat \ {0}
      /\ DOMAIN t = 1 .. Len(s) - 1
      /\ Head(s) = s[1]
      /\ \A k \in 1 .. Len(s) - 1 : t[k] = s[k + 1]
  OBVIOUS
<1>2. Range(s) = {Head(s)} \cup Range(t)
  BY RangeTail
<1> HIDE DEF t
<1>3. Head(s) \notin Range(t)
  <2> SUFFICES ASSUME NEW k \in DOMAIN t, t[k] = s[1] PROVE FALSE
    BY <1>1 DEF Range
  <2>1. k + 1 \in DOMAIN s /\ 1 \in DOMAIN s /\ s[k + 1] = s[1] /\ k + 1 # 1
    BY <1>1
  <2> QED
    BY <2>1 DEF IsInjective
<1>4. IsInjective(t)
  <2> SUFFICES ASSUME NEW j \in DOMAIN t, NEW k \in DOMAIN t, t[j] = t[k] PROVE j = k
    BY DEF IsInjective
  <2>1. j + 1 \in DOMAIN s /\ k + 1 \in DOMAIN s /\ s[j + 1] = s[k + 1]
    BY <1>1
  <2>2. j + 1 = k + 1
    BY <2>1 DEF IsInjective
  <2> QED
    BY <1>1, <2>2
<1> QED
  BY <1>2, <1>3, <1>4 DEF t

\* A send adds to a channel a message it does not hold.
LEMMA AppendMoves ==
    ASSUME NEW s \in Seq(Messages), NEW m \in Messages, m \notin Range(s), IsInjective(s)
    PROVE  IsInjective(Append(s, m))
<1> DEFINE t == Append(s, m)
<1>1. /\ DOMAIN s = 1 .. Len(s) /\ Len(s) \in Nat
      /\ DOMAIN t = 1 .. Len(s) + 1
      /\ t[Len(s) + 1] = m
      /\ \A k \in 1 .. Len(s) : t[k] = s[k]
  OBVIOUS
<1> HIDE DEF t
<1>2. \A k \in DOMAIN s : s[k] # m
  BY DEF Range
<1>3. \A k \in DOMAIN t : k \in DOMAIN s \/ k = Len(s) + 1
  BY <1>1
<1>4. ASSUME NEW j \in DOMAIN t, NEW k \in DOMAIN t, t[j] = t[k] PROVE j = k
  BY <1>1, <1>2, <1>3, <1>4 DEF IsInjective
<1> QED
  BY <1>4 DEF IsInjective, t

\* No message is in two places.
LEMMA Elsewhere ==
    ASSUME OnePlace, NEW m \in Messages, NEW a \in Places, NEW b \in Places, a # b, m \in Inside(a)
    PROVE  m \notin Inside(b)
BY DEF OnePlace

\* What the places hold.
LEMMA PlacesHold ==
    /\ Inside(<<"feed", NoMsg>>) = Range(feed) /\ Inside(<<"testFeed", NoMsg>>) = Range(testFeed)
    /\ Inside(<<"raw", NoMsg>>) = Range(rawChan) /\ Inside(<<"parsed", NoMsg>>) = Range(parsedChan)
    /\ Inside(<<"dead", NoMsg>>) = Range(deadChan)
    /\ \A w : /\ Inside(<<"chan", w>>) = Range(workerChan[w])
              /\ Inside(<<"batch", w>>) = Range(batch[w])
    /\ \A g : Inside(<<"hand", g>>) = {hand[g]} \ {NoMsg}
    /\ Inside(<<"stored", NoMsg>>) = stored /\ Inside(<<"failed", NoMsg>>) = failed
    /\ Inside(<<"dropped", NoMsg>>) = dropped
BY DEF Inside

\* The places are places.
LEMMA PlacesAre ==
    /\ \A k \in {"feed", "testFeed", "raw", "parsed", "dead", "stored", "failed", "dropped"} :
          <<k, NoMsg>> \in Places
    /\ \A w \in DbWorkers : <<"chan", w>> \in Places /\ <<"batch", w>> \in Places
    /\ \A g \in Carriers : <<"hand", g>> \in Places
BY DEF Places

\* A place is the pair of its kind and its owner.
LEMMA PlaceKinds ==
    ASSUME NEW p \in Places
    PROVE  /\ p = <<p[1], p[2]>>
           /\ p[1] \in {"chan", "batch"} => p[2] \in DbWorkers
           /\ p[1] = "hand" => p[2] \in Carriers
           /\ p[1] \notin {"chan", "batch", "hand"} => p[2] = NoMsg
BY DEF Places

\* A goroutine with nothing in hand takes a message out of place a.
LEMMA Takes ==
    ASSUME TypeOK, OnePlace, NEW g \in Carriers, hand[g] = NoMsg, NEW m \in Messages,
           hand' = [hand EXCEPT ![g] = m],
           NEW a \in Places, a[1] # "hand", m \in Inside(a), Inside(a)' = Inside(a) \ {m},
           \A p \in Places : p[1] # "hand" /\ p # a => Inside(p)' = Inside(p)
    PROVE  Moved({m}, <<"hand", g>>)
<1> DEFINE b == <<"hand", g>>
<1>1. b \in Places /\ a # b /\ DOMAIN hand = Carriers
  BY PlacesAre DEF TypeOK, CtlTypeOK
<1>2. Inside(b)' = Inside(b) \cup {m}
  BY <1>1, NoMsgAssumption DEF Inside
<1>3. ASSUME NEW p \in Places, p[1] = "hand", p # b PROVE Inside(p)' = Inside(p)
  <2>1. hand'[p[2]] = hand[p[2]]
    BY <1>1, <1>3, PlaceKinds
  <2> QED
    BY <1>3, <2>1 DEF Inside
<1> QED
  BY <1>1, <1>2, <1>3, OneMoves

\* A goroutine passes the message in its hand on to place b.
LEMMA Passes ==
    ASSUME TypeOK, OnePlace, NEW g \in Carriers, hand[g] \in Messages,
           hand' = [hand EXCEPT ![g] = NoMsg],
           NEW b \in Places, b[1] # "hand", Inside(b)' = Inside(b) \cup {hand[g]},
           \A p \in Places : p[1] # "hand" /\ p # b => Inside(p)' = Inside(p)
    PROVE  /\ hand[g] \in Inside(<<"hand", g>>) /\ hand[g] \notin Inside(b)
           /\ Moved({hand[g]}, b)
<1> DEFINE a == <<"hand", g>>
           m == hand[g]
<1>1. a \in Places /\ a # b /\ DOMAIN hand = Carriers
  BY PlacesAre DEF TypeOK, CtlTypeOK
<1>2. m \in Inside(a) /\ Inside(a)' = Inside(a) \ {m}
  BY <1>1, NoMsgAssumption DEF Inside
<1>3. ASSUME NEW p \in Places, p[1] = "hand", p # a PROVE Inside(p)' = Inside(p)
  <2>1. hand'[p[2]] = hand[p[2]]
    BY <1>1, <1>3, PlaceKinds
  <2> QED
    BY <1>3, <2>1 DEF Inside
<1>4. m \notin Inside(b)
  BY <1>1, <1>2, Elsewhere
<1> HIDE DEF m
<1>5. Moved({m}, b)
  BY <1>1, <1>2, <1>3, OneMoves DEF m
<1> QED
  BY <1>2, <1>4, <1>5 DEF m
-----------------------------------------------------------------------------
\* Subscribe takes the next push in hand.
LEMMA ListenerRecvMoves ==
    ASSUME TypeOK, OnePlace, NoneTwice, ListenerRecv
    PROVE  /\ NoneTwice'
           /\ \E m \in Messages : /\ m \in Inside(<<"feed", NoMsg>>)
                                  /\ Moved({m}, <<"hand", Listener>>)
<1> DEFINE m == Head(feed)
           a == <<"feed", NoMsg>>
<1>1. a \in Places /\ Listener \in Carriers
  BY PlacesAre DEF Carriers
<1>2. /\ m \in Messages /\ m \in Range(feed)
      /\ Range(feed') = Range(feed) \ {m} /\ IsInjective(feed')
  BY TailMoves DEF ListenerRecv, TypeOK, FeedTypeOK, NoneTwice
<1>3. /\ hand' = [hand EXCEPT ![Listener] = m] /\ hand[Listener] = NoMsg
      /\ UNCHANGED <<testFeed, dropped, chanVars, batch, dbVars>>
  BY DEF ListenerRecv
<1> HIDE DEF m
<1>4. m \in Inside(a) /\ Inside(a)' = Inside(a) \ {m}
  BY <1>2 DEF Inside
<1>5. ASSUME NEW p \in Places, p[1] # "hand", p # a PROVE Inside(p)' = Inside(p)
  BY <1>3, <1>5, PlaceKinds, PlaceFrame DEF chanVars, dbVars
<1>6. NoneTwice'
  BY <1>2, <1>3 DEF NoneTwice, chanVars
<1> QED
  BY <1>1, <1>2, <1>3, <1>4, <1>5, <1>6, Takes

\* Subscribe puts the message in hand into RawChan.
LEMMA ListenerSendMoves ==
    ASSUME TypeOK, OnePlace, NoneTwice, ListenerSend, ~Panic
    PROVE  /\ NoneTwice'
           /\ \E m \in Messages : /\ m \in Inside(<<"hand", Listener>>)
                                  /\ Moved({m}, <<"raw", NoMsg>>)
<1> DEFINE m == hand[Listener]
           b == <<"raw", NoMsg>>
<1>1. b \in Places /\ Listener \in Carriers
  BY PlacesAre DEF Carriers
<1>2. /\ m \in Messages /\ hand' = [hand EXCEPT ![Listener] = NoMsg]
      /\ rawChan' = Append(rawChan, m) /\ rawChan \in Seq(Messages)
      /\ UNCHANGED <<feedVars, parsedChan, deadChan, workerChan, batch, dbVars>>
  BY HandIsMessage DEF ListenerSend, TypeOK, ChanTypeOK, Holds, Carriers
<1>3. Inside(b)' = Inside(b) \cup {m}
  BY <1>2, RangeAppend DEF Inside
<1>4. ASSUME NEW p \in Places, p[1] # "hand", p # b PROVE Inside(p)' = Inside(p)
  BY <1>2, <1>4, PlaceKinds, PlaceFrame DEF feedVars, dbVars
<1>5. m \in Inside(<<"hand", Listener>>) /\ m \notin Inside(b) /\ Moved({m}, b)
  BY <1>1, <1>2, <1>3, <1>4, Passes
<1>6. NoneTwice'
  BY <1>2, <1>5, PlacesHold, AppendMoves DEF NoneTwice, feedVars
<1> QED
  BY <1>2, <1>5, <1>6

\* The generator puts a test quote into RawChan or throws it away.
LEMMA GeneratorMoves ==
    ASSUME TypeOK, OnePlace, NoneTwice, GeneratorSend, ~Panic
    PROVE  /\ NoneTwice'
           /\ \E m \in Messages : /\ m \in Inside(<<"testFeed", NoMsg>>)
                                  /\ \/ Moved({m}, <<"raw", NoMsg>>)
                                     \/ Moved({m}, <<"dropped", NoMsg>>)
<1> DEFINE m == Head(testFeed)
           a == <<"testFeed", NoMsg>>
<1>1. /\ m \in Messages /\ m \in Range(testFeed)
      /\ Range(testFeed') = Range(testFeed) \ {m} /\ IsInjective(testFeed')
  BY TailMoves DEF GeneratorSend, TypeOK, FeedTypeOK, NoneTwice
<1>2. /\ \/ rawChan' = Append(rawChan, m) /\ UNCHANGED dropped
         \/ dropped' = dropped \cup {m} /\ UNCHANGED rawChan
      /\ UNCHANGED <<feed, parsedChan, deadChan, workerChan, batch, hand, dbVars>>
      /\ rawChan \in Seq(Messages)
  BY DEF GeneratorSend, TypeOK, ChanTypeOK, Holds
<1> HIDE DEF m
<1>3. a \in Places /\ m \in Inside(a) /\ Inside(a)' = Inside(a) \ {m}
  BY <1>1, PlacesAre DEF Inside
<1>4. CASE rawChan' = Append(rawChan, m) /\ UNCHANGED dropped
  <2> DEFINE b == <<"raw", NoMsg>>
  <2>1. b \in Places /\ a # b
    BY PlacesAre
  <2>2. Inside(b)' = Inside(b) \cup {m} /\ m \notin Range(rawChan)
    <3>1. m \notin Inside(b)
      BY <1>1, <1>3, <2>1, Elsewhere
    <3> QED
      BY <1>1, <1>2, <1>4, <3>1, RangeAppend DEF Inside
  <2>3. ASSUME NEW p \in Places, p # a, p # b PROVE Inside(p)' = Inside(p)
    BY <1>2, <1>4, <2>3, PlaceKinds, PlaceFrame DEF dbVars
  <2>4. Moved({m}, b)
    BY <1>1, <1>3, <2>1, <2>2, <2>3, OneMoves
  <2>5. NoneTwice'
    BY <1>1, <1>2, <1>4, <2>2, AppendMoves DEF NoneTwice
  <2> QED
    BY <1>1, <1>3, <2>4, <2>5
<1>5. CASE dropped' = dropped \cup {m} /\ UNCHANGED rawChan
  <2> DEFINE b == <<"dropped", NoMsg>>
  <2>1. b \in Places /\ a # b
    BY PlacesAre
  <2>2. Inside(b)' = Inside(b) \cup {m}
    BY <1>5 DEF Inside
  <2>3. ASSUME NEW p \in Places, p # a, p # b PROVE Inside(p)' = Inside(p)
    BY <1>2, <1>5, <2>3, PlaceKinds, PlaceFrame DEF dbVars
  <2>4. Moved({m}, b)
    BY <1>1, <1>3, <2>1, <2>2, <2>3, OneMoves
  <2>5. NoneTwice'
    BY <1>1, <1>2, <1>5 DEF NoneTwice
  <2> QED
    BY <1>1, <1>3, <2>4, <2>5
<1> QED
  BY <1>2, <1>4, <1>5

\* A parse worker takes a message out of RawChan.
LEMMA ParseRecvMoves ==
    ASSUME TypeOK, OnePlace, NoneTwice, NEW w \in ParseWorkers, ParseRecv(w)
    PROVE  /\ NoneTwice'
           /\ \E m \in Messages : /\ m \in Inside(<<"raw", NoMsg>>)
                                  /\ Moved({m}, <<"hand", w>>)
<1> DEFINE m == Head(rawChan)
           a == <<"raw", NoMsg>>
<1>1. a \in Places /\ w \in Carriers
  BY PlacesAre DEF Carriers
<1>2. /\ m \in Messages /\ m \in Range(rawChan)
      /\ Range(rawChan') = Range(rawChan) \ {m} /\ IsInjective(rawChan')
  BY TailMoves DEF ParseRecv, TypeOK, ChanTypeOK, Holds, NoneTwice
<1>3. /\ hand' = [hand EXCEPT ![w] = m] /\ hand[w] = NoMsg
      /\ UNCHANGED <<feedVars, parsedChan, deadChan, workerChan, batch, dbVars>>
  BY DEF ParseRecv
<1> HIDE DEF m
<1>4. m \in Inside(a) /\ Inside(a)' = Inside(a) \ {m}
  BY <1>2 DEF Inside
<1>5. ASSUME NEW p \in Places, p[1] # "hand", p # a PROVE Inside(p)' = Inside(p)
  BY <1>3, <1>5, PlaceKinds, PlaceFrame DEF feedVars, dbVars
<1>6. NoneTwice'
  BY <1>2, <1>3 DEF NoneTwice, feedVars
<1> QED
  BY <1>1, <1>2, <1>3, <1>4, <1>5, <1>6, Takes

\* A message ParseBondQuote rejects goes to DeadChan.
LEMMA ParseDeadMoves ==
    ASSUME TypeOK, OnePlace, NoneTwice, NEW w \in ParseWorkers, ParseDead(w), ~Panic
    PROVE  /\ NoneTwice'
           /\ \E m \in Messages : /\ m \in Inside(<<"hand", w>>)
                                  /\ Moved({m}, <<"dead", NoMsg>>)
<1> DEFINE m == hand[w]
           b == <<"dead", NoMsg>>
<1>1. b \in Places /\ w \in Carriers
  BY PlacesAre DEF Carriers
<1>2. /\ m \in Messages /\ hand' = [hand EXCEPT ![w] = NoMsg]
      /\ deadChan' = Append(deadChan, m) /\ deadChan \in Seq(Messages)
      /\ UNCHANGED <<feedVars, rawChan, parsedChan, workerChan, batch, dbVars>>
  BY FeedAssumption DEF ParseDead, TypeOK, ChanTypeOK, Holds
<1>3. Inside(b)' = Inside(b) \cup {m}
  BY <1>2, RangeAppend DEF Inside
<1>4. ASSUME NEW p \in Places, p[1] # "hand", p # b PROVE Inside(p)' = Inside(p)
  BY <1>2, <1>4, PlaceKinds, PlaceFrame DEF feedVars, dbVars
<1>5. m \in Inside(<<"hand", w>>) /\ m \notin Inside(b) /\ Moved({m}, b)
  BY <1>1, <1>2, <1>3, <1>4, Passes
<1>6. NoneTwice'
  BY <1>2, <1>5, PlacesHold, AppendMoves DEF NoneTwice, feedVars
<1> QED
  BY <1>2, <1>5, <1>6

\* A parsed quote goes to ParsedChan.
LEMMA ParseSendMoves ==
    ASSUME TypeOK, OnePlace, NoneTwice, NEW w \in ParseWorkers, ParseSend(w), ~Panic
    PROVE  /\ NoneTwice'
           /\ \E m \in Messages : /\ m \in Inside(<<"hand", w>>)
                                  /\ Moved({m}, <<"parsed", NoMsg>>)
<1> DEFINE m == hand[w]
           b == <<"parsed", NoMsg>>
<1>1. b \in Places /\ w \in Carriers
  BY PlacesAre DEF Carriers
<1>2. /\ m \in Messages /\ hand' = [hand EXCEPT ![w] = NoMsg]
      /\ parsedChan' = Append(parsedChan, m) /\ parsedChan \in Seq(Messages)
      /\ UNCHANGED <<feedVars, rawChan, deadChan, workerChan, batch, dbVars>>
  BY <1>1, HandIsMessage DEF ParseSend, TypeOK, ChanTypeOK, Holds
<1>3. Inside(b)' = Inside(b) \cup {m}
  BY <1>2, RangeAppend DEF Inside
<1>4. ASSUME NEW p \in Places, p[1] # "hand", p # b PROVE Inside(p)' = Inside(p)
  BY <1>2, <1>4, PlaceKinds, PlaceFrame DEF feedVars, dbVars
<1>5. m \in Inside(<<"hand", w>>) /\ m \notin Inside(b) /\ Moved({m}, b)
  BY <1>1, <1>2, <1>3, <1>4, Passes
<1>6. NoneTwice'
  BY <1>2, <1>5, PlacesHold, AppendMoves DEF NoneTwice, feedVars
<1> QED
  BY <1>2, <1>5, <1>6

\* The dispatcher takes a quote out of ParsedChan.
LEMMA DispatchRecvMoves ==
    ASSUME TypeOK, OnePlace, NoneTwice, DispatchRecv
    PROVE  /\ NoneTwice'
           /\ \E m \in Messages : /\ m \in Inside(<<"parsed", NoMsg>>)
                                  /\ Moved({m}, <<"hand", Dispatcher>>)
<1> DEFINE m == Head(parsedChan)
           a == <<"parsed", NoMsg>>
<1>1. a \in Places /\ Dispatcher \in Carriers
  BY PlacesAre DEF Carriers
<1>2. /\ m \in Messages /\ m \in Range(parsedChan)
      /\ Range(parsedChan') = Range(parsedChan) \ {m} /\ IsInjective(parsedChan')
  BY TailMoves DEF DispatchRecv, TypeOK, ChanTypeOK, Holds, NoneTwice
<1>3. /\ hand' = [hand EXCEPT ![Dispatcher] = m] /\ hand[Dispatcher] = NoMsg
      /\ UNCHANGED <<feedVars, rawChan, deadChan, workerChan, batch, dbVars>>
  BY DEF DispatchRecv
<1> HIDE DEF m
<1>4. m \in Inside(a) /\ Inside(a)' = Inside(a) \ {m}
  BY <1>2 DEF Inside
<1>5. ASSUME NEW p \in Places, p[1] # "hand", p # a PROVE Inside(p)' = Inside(p)
  BY <1>3, <1>5, PlaceKinds, PlaceFrame DEF feedVars, dbVars
<1>6. NoneTwice'
  BY <1>2, <1>3 DEF NoneTwice, feedVars
<1> QED
  BY <1>1, <1>2, <1>3, <1>4, <1>5, <1>6, Takes

\* The dispatcher puts the quote in hand into its DB worker's channel.
LEMMA DispatchSendMoves ==
    ASSUME TypeOK, OnePlace, NoneTwice, DispatchSend
    PROVE  /\ NoneTwice'
           /\ \E m \in Messages, w \in DbWorkers :
                /\ m \in Inside(<<"hand", Dispatcher>>)
                /\ Moved({m}, <<"chan", w>>)
<1> DEFINE m == hand[Dispatcher]
<1>1. Dispatcher \in Carriers
  BY DEF Carriers
<1>2. m \in Messages
  BY <1>1, HandIsMessage DEF DispatchSend
<1>3. PICK w \in DbWorkers : w = Target(m)
  BY <1>2, IsinAssumption, PartitionAssumption DEF Target
<1> DEFINE b == <<"chan", w>>
<1>0. b \in Places
  BY PlacesAre
<1>4. /\ hand' = [hand EXCEPT ![Dispatcher] = NoMsg]
      /\ workerChan' = [workerChan EXCEPT ![w] = Append(@, m)]
      /\ workerChan \in [DbWorkers -> Seq(Messages)]
      /\ UNCHANGED <<feedVars, rawChan, parsedChan, deadChan, batch, dbVars>>
  BY <1>3 DEF DispatchSend, TypeOK, WorkTypeOK
<1>5. workerChan[w] \in Seq(Messages) /\ workerChan'[w] = Append(workerChan[w], m)
  BY <1>3, <1>4
<1>6. Inside(b)' = Inside(b) \cup {m}
  BY <1>2, <1>5, RangeAppend DEF Inside
<1>7. ASSUME NEW p \in Places, p[1] # "hand", p # b PROVE Inside(p)' = Inside(p)
  <2>1. p[1] = "chan" => p[2] \in DbWorkers /\ p[2] # w
    BY <1>7, PlaceKinds
  <2> QED
    BY <1>4, <1>7, <2>1, PlaceFrame DEF feedVars, dbVars
<1>8. m \in Inside(<<"hand", Dispatcher>>) /\ m \notin Inside(b) /\ Moved({m}, b)
  BY <1>0, <1>1, <1>2, <1>4, <1>6, <1>7, Passes
<1>9. NoneTwice'
  <2>1. IsInjective(workerChan'[w])
    BY <1>2, <1>3, <1>5, <1>8, PlacesHold, AppendMoves DEF NoneTwice
  <2>2. \A v \in DbWorkers : IsInjective(workerChan'[v])
    BY <1>3, <1>4, <2>1 DEF NoneTwice
  <2> QED
    BY <1>4, <2>2 DEF NoneTwice, feedVars
<1> QED
  BY <1>2, <1>3, <1>8, <1>9

\* A flush ends a transaction with the quotes of the batch and those just
\* taken out of the channel: all are stored, or all failed.
Settles(w, b) ==
    /\ b # <<>>
    /\ Range(b) \subseteq Inside(<<"chan", w>>) \cup Inside(<<"batch", w>>)
    /\ \/ Moved(Range(b), <<"stored", NoMsg>>) /\ latest' = Upsert(latest, b)
       \/ Moved(Range(b), <<"failed", NoMsg>>) /\ UNCHANGED latest

\* A flush settles the batch, and takes nothing from anywhere else.
LEMMA FlushMoves ==
    ASSUME TypeOK, OnePlace, NEW w \in DbWorkers, NEW b \in Seq(Messages), NEW T,
           b # <<>>, Flush(w, b), UNCHANGED <<feedVars, rawChan, parsedChan, deadChan, hand>>,
           Range(b) = Range(batch[w]) \cup T, T \subseteq Range(workerChan[w]),
           Range(workerChan'[w]) = Range(workerChan[w]) \ T,
           \A v \in DbWorkers : v # w => workerChan'[v] = workerChan[v]
    PROVE  Settles(w, b)
<1> DEFINE S == Range(b)
           c == <<"chan", w>>
           d == <<"batch", w>>
<1>1. /\ S \subseteq Messages /\ S \subseteq Inside(c) \cup Inside(d)
      /\ Inside(c) = Range(workerChan[w]) /\ Inside(d) = Range(batch[w])
      /\ c \in Places /\ d \in Places /\ c # d
  <2>1. S \subseteq Messages
    BY DEF Range
  <2>2. Inside(c) = Range(workerChan[w]) /\ Inside(d) = Range(batch[w])
    BY PlacesHold
  <2>3. c \in Places /\ d \in Places /\ c # d
    BY PlacesAre
  <2> QED
    BY <2>1, <2>2, <2>3
<1>2. Inside(c)' = Inside(c) \ S
  <2>1. Inside(c) \cap Inside(d) = {}
    <3>1. \A m \in Inside(d) : m \in Messages
      BY <1>1
    <3> QED
      BY <1>1, <3>1 DEF OnePlace
  <2>2. Inside(c)' = Range(workerChan'[w])
    BY DEF Inside
  <2> QED
    BY <1>1, <2>1, <2>2
<1>3. /\ batch' = [batch EXCEPT ![w] = <<>>] /\ DOMAIN batch = DbWorkers
      /\ \/ latest' = Upsert(latest, b) /\ stored' = stored \cup S /\ UNCHANGED failed
         \/ failed' = failed \cup S /\ UNCHANGED <<latest, stored>>
  BY DEF Flush, TypeOK, WorkTypeOK
<1> HIDE DEF S
<1>4. Inside(d)' = Inside(d) \ S
  <2>1. Inside(d)' = Range(batch'[w]) /\ batch'[w] = <<>>
    BY <1>3 DEF Inside
  <2> QED
    BY <1>1, <2>1, RangeEmpty DEF S
<1>5. ASSUME NEW p \in Places, p # c, p # d PROVE Inside(p) = Inside(p) \ S
  BY <1>1, <1>5 DEF OnePlace
<1>6. ASSUME NEW p \in Places, p # c, p # d,
             p[1] = "stored" => UNCHANGED stored, p[1] = "failed" => UNCHANGED failed
      PROVE  Inside(p)' = Inside(p)
  <2>1. /\ p[1] = "chan" => p[2] \in DbWorkers /\ p[2] # w
        /\ p[1] = "batch" => p[2] \in DbWorkers /\ p[2] # w
    BY <1>6, PlaceKinds
  <2> QED
    BY <1>3, <1>6, <2>1, PlaceFrame DEF feedVars
<1>7. CASE latest' = Upsert(latest, b) /\ stored' = stored \cup S /\ UNCHANGED failed
  <2> DEFINE e == <<"stored", NoMsg>>
  <2>1. Inside(e)' = Inside(e) \cup S /\ e # c /\ e # d
    BY <1>7 DEF Inside
  <2>2. \A p \in Places : p # e => p[1] # "stored"
    BY PlaceKinds
  <2>3. Moved(S, e)
    BY <1>2, <1>4, <1>5, <1>6, <1>7, <2>1, <2>2 DEF Moved
  <2> QED
    BY <1>1, <1>7, <2>3 DEF Settles, S
<1>8. CASE failed' = failed \cup S /\ UNCHANGED <<latest, stored>>
  <2> DEFINE e == <<"failed", NoMsg>>
  <2>1. Inside(e)' = Inside(e) \cup S /\ e # c /\ e # d
    BY <1>8 DEF Inside
  <2>2. \A p \in Places : p # e => p[1] # "failed"
    BY PlaceKinds
  <2>3. Moved(S, e)
    BY <1>2, <1>4, <1>5, <1>6, <1>8, <2>1, <2>2 DEF Moved
  <2> QED
    BY <1>1, <1>8, <2>3 DEF Settles, S
<1> QED
  BY <1>3, <1>7, <1>8

\* A DB worker moves a quote into its batch, settles a batch or returns with
\* none.
LEMMA DbMoves ==
    ASSUME TypeOK, OnePlace, NoneTwice, NEW w \in DbWorkers, DbWorker(w)
    PROVE  /\ NoneTwice'
           /\ \/ (\A p \in Places : Inside(p)' = Inside(p)) /\ UNCHANGED latest /\ DbExit(w)
              \/ \E m \in Messages : /\ m \in Inside(<<"chan", w>>)
                                     /\ Moved({m}, <<"batch", w>>) /\ UNCHANGED latest
              \/ \E b \in Seq(Messages) : Settles(w, b)
<1>1. /\ batch[w] \in Seq(Messages) /\ workerChan[w] \in Seq(Messages)
      /\ batch \in [DbWorkers -> Seq(Messages)] /\ workerChan \in [DbWorkers -> Seq(Messages)]
      /\ IsInjective(<<>>)
  BY DEF TypeOK, WorkTypeOK, IsInjective
<1>2. ASSUME NEW b, Flush(w, b), UNCHANGED <<feedVars, rawChan, parsedChan, deadChan>>,
             \A v \in DbWorkers : IsInjective(workerChan'[v])
      PROVE  NoneTwice'
  <2>1. \A v \in DbWorkers : batch'[v] = <<>> \/ batch'[v] = batch[v]
    BY <1>1, <1>2 DEF Flush
  <2>2. \A v \in DbWorkers : IsInjective(batch'[v])
    BY <1>1, <2>1 DEF NoneTwice
  <2> QED
    BY <1>2, <2>2 DEF NoneTwice, feedVars
<1>3. ASSUME NEW b \in Seq(Messages), b = batch[w], b # <<>>, Flush(w, b),
             UNCHANGED <<feedVars, chanVars, hand>>
      PROVE  NoneTwice' /\ Settles(w, b)
  <2>1. NoneTwice'
    BY <1>2, <1>3 DEF chanVars, NoneTwice
  <2>2. /\ UNCHANGED <<feedVars, rawChan, parsedChan, deadChan, hand>>
        /\ Range(b) = Range(batch[w]) \cup {} /\ {} \subseteq Range(workerChan[w])
        /\ Range(workerChan'[w]) = Range(workerChan[w]) \ {}
        /\ \A v \in DbWorkers : v # w => workerChan'[v] = workerChan[v]
    BY <1>3 DEF chanVars
  <2>3. Settles(w, b)
    BY <1>3, <2>2, FlushMoves
  <2> QED
    BY <2>1, <2>3
<1>4. CASE DbTick(w)
  BY <1>1, <1>3, <1>4 DEF DbTick
<1>5. CASE DbExit(w)
  <2>1. CASE batch[w] = <<>>
    <3>1. UNCHANGED <<feedVars, chanVars, batch, hand, dbVars>>
      BY <1>5, <2>1 DEF DbExit
    <3>2. \A p \in Places : Inside(p)' = Inside(p)
      BY <3>1, PlaceFrame DEF feedVars, chanVars, dbVars
    <3> QED
      BY <1>5, <3>1, <3>2 DEF NoneTwice, feedVars, chanVars, dbVars
  <2>2. CASE batch[w] # <<>>
    BY <1>1, <1>3, <1>5, <2>2 DEF DbExit
  <2> QED
    BY <2>1, <2>2
<1>6. CASE DbRecv(w)
  <2>1. PICK m \in Messages : m = Head(workerChan[w])
    BY <1>1, <1>6 DEF DbRecv
  <2>2. /\ workerChan' = [workerChan EXCEPT ![w] = Tail(@)]
        /\ workerChan'[w] = Tail(workerChan[w]) /\ workerChan[w] # <<>>
        /\ UNCHANGED <<feedVars, rawChan, parsedChan, deadChan, hand>>
        /\ \/ Flush(w, Append(batch[w], m))
           \/ batch' = [batch EXCEPT ![w] = Append(batch[w], m)] /\ UNCHANGED dbVars
    BY <1>1, <1>6, <2>1 DEF DbRecv
  <2>3. /\ m \in Range(workerChan[w])
        /\ Range(workerChan'[w]) = Range(workerChan[w]) \ {m}
        /\ IsInjective(workerChan'[w])
    BY <1>1, <2>1, <2>2, TailMoves DEF NoneTwice
  <2>4. \A v \in DbWorkers : IsInjective(workerChan'[v]) /\ (v # w => workerChan'[v] = workerChan[v])
    BY <1>1, <2>2, <2>3 DEF NoneTwice
  <2>5. /\ m \in Inside(<<"chan", w>>) /\ m \notin Range(batch[w])
        /\ <<"chan", w>> \in Places /\ <<"batch", w>> \in Places
    <3>1. <<"chan", w>> \in Places /\ <<"batch", w>> \in Places /\ <<"chan", w>> # <<"batch", w>>
      BY PlacesAre
    <3>2. m \in Inside(<<"chan", w>>)
      BY <2>3, PlacesHold
    <3>3. m \notin Inside(<<"batch", w>>)
      BY <3>1, <3>2, Elsewhere
    <3> QED
      BY <3>1, <3>2, <3>3, PlacesHold
  <2>6. /\ Append(batch[w], m) \in Seq(Messages) /\ Append(batch[w], m) # <<>>
        /\ Range(Append(batch[w], m)) = Range(batch[w]) \cup {m}
    <3> DEFINE c == Append(batch[w], m)
    <3>1. c \in Seq(Messages) /\ Range(c) = Range(batch[w]) \cup {m}
      BY <1>1, RangeAppend
    <3> HIDE DEF c
    <3>2. c # <<>>
      BY <3>1, RangeEmpty
    <3> QED
      BY <3>1, <3>2 DEF c
  <2>7. CASE Flush(w, Append(batch[w], m))
    <3>1. Settles(w, Append(batch[w], m))
      BY <2>2, <2>3, <2>4, <2>6, <2>7, FlushMoves
    <3> QED
      BY <1>2, <2>2, <2>4, <2>6, <2>7, <3>1
  <2>8. CASE batch' = [batch EXCEPT ![w] = Append(batch[w], m)] /\ UNCHANGED dbVars
    <3>1. batch'[w] = Append(batch[w], m) /\ \A v \in DbWorkers : v # w => batch'[v] = batch[v]
      BY <1>1, <2>8
    <3>2. /\ Inside(<<"chan", w>>)' = Inside(<<"chan", w>>) \ {m}
          /\ Inside(<<"batch", w>>)' = Inside(<<"batch", w>>) \cup {m}
      BY <2>3, <2>6, <3>1 DEF Inside
    <3>3. ASSUME NEW p \in Places, p # <<"chan", w>>, p # <<"batch", w>> PROVE Inside(p)' = Inside(p)
      <4>1. /\ p[1] = "chan" => p[2] \in DbWorkers /\ p[2] # w
            /\ p[1] = "batch" => p[2] \in DbWorkers /\ p[2] # w
        BY <3>3, PlaceKinds
      <4> QED
        BY <2>2, <2>4, <2>8, <3>1, <4>1, PlaceFrame DEF feedVars, dbVars
    <3>4. Moved({m}, <<"batch", w>>)
      <4>1. <<"chan", w>> # <<"batch", w>>
        OBVIOUS
      <4> QED
        BY <2>5, <3>2, <3>3, <4>1, OneMoves
    <3>5. IsInjective(batch'[w])
      BY <1>1, <2>5, <3>1, AppendMoves DEF NoneTwice
    <3>6. NoneTwice'
      BY <2>2, <2>4, <3>1, <3>5 DEF NoneTwice, feedVars
    <3> QED
      BY <2>5, <2>8, <3>4, <3>6 DEF dbVars
  <2> QED
    BY <2>2, <2>7, <2>8
<1> QED
  BY <1>4, <1>5, <1>6 DEF DbWorker

-----------------------------------------------------------------------------
\* The stage of the ledger a message is in at a place.
StageAt(p) ==
    CASE p[1] \in {"feed", "testFeed"} \/ p = <<"hand", Listener>> -> "offered"
      [] p[1] \in {"dead", "stored", "failed", "dropped"} -> p[1]
      [] OTHER -> "accepted"

\* Every step moves messages between two places, settles a batch or moves none.
StepMoves ==
    \/ (\A p \in Places : Inside(p)' = Inside(p)) /\ UNCHANGED latest
    \/ \E m \in Messages, a \in Places, b \in Places :
          /\ m \in Inside(a) /\ Moved({m}, b) /\ UNCHANGED latest
          /\ \/ StageAt(a) = StageAt(b)
             \/ StageAt(a) = "offered" /\ StageAt(b) \in {"accepted", "dropped"}
             \/ StageAt(a) = "accepted" /\ StageAt(b) = "dead"
    \/ \E w \in DbWorkers, b \in Seq(Messages) : Settles(w, b)

\* A step that changes neither channels, batches, hands nor accounts moves no
\* message.
LEMMA NoMove ==
    ASSUME NoneTwice, UNCHANGED <<feedVars, chanVars, batch, hand, dbVars>>
    PROVE  NoneTwice' /\ StepMoves
<1>1. NoneTwice'
  BY DEF NoneTwice, feedVars, chanVars
<1>2. \A p \in Places : Inside(p)' = Inside(p)
  BY PlaceFrame DEF feedVars, chanVars, dbVars
<1> QED
  BY <1>1, <1>2 DEF StepMoves, dbVars

\* The stages of the places.
LEMMA Stages ==
    /\ StageAt(<<"feed", NoMsg>>) = "offered" /\ StageAt(<<"testFeed", NoMsg>>) = "offered"
    /\ StageAt(<<"raw", NoMsg>>) = "accepted" /\ StageAt(<<"parsed", NoMsg>>) = "accepted"
    /\ StageAt(<<"dead", NoMsg>>) = "dead" /\ StageAt(<<"stored", NoMsg>>) = "stored"
    /\ StageAt(<<"failed", NoMsg>>) = "failed" /\ StageAt(<<"dropped", NoMsg>>) = "dropped"
    /\ \A w : StageAt(<<"chan", w>>) = "accepted" /\ StageAt(<<"batch", w>>) = "accepted"
    /\ StageAt(<<"hand", Listener>>) = "offered"
    /\ \A g \in Carriers \ {Listener} : StageAt(<<"hand", g>>) = "accepted"
BY DEF StageAt

\* One message that goes from one place to another, the latest table aside.
LEMMA MoveIsStep ==
    ASSUME NEW a \in Places, NEW b \in Places, UNCHANGED latest,
           \/ StageAt(a) = StageAt(b)
           \/ StageAt(a) = "offered" /\ StageAt(b) \in {"accepted", "dropped"}
           \/ StageAt(a) = "accepted" /\ StageAt(b) = "dead",
           \E m \in Messages : m \in Inside(a) /\ Moved({m}, b)
    PROVE  StepMoves
BY DEF StepMoves

\* Each action, one by one, moves what it should and holds no message twice.
LEMMA AllMoves == ASSUME TypeOK, OnePlace, NoneTwice, [Next]_vars PROVE NoneTwice' /\ StepMoves
<1>1. CASE Quiescent
  BY <1>1, NoMove DEF Quiescent, Terminated, Panic, vars
<1>2. CASE \E g \in WgMembers : Start(g)
  BY <1>2, NoMove DEF Start
<1>3. CASE ListenerStep
  <2>1. CASE ListenerRecv
    <3>1. UNCHANGED latest /\ <<"feed", NoMsg>> \in Places /\ <<"hand", Listener>> \in Places
      BY <2>1, PlacesAre DEF ListenerRecv, dbVars, Carriers
    <3>2. StageAt(<<"feed", NoMsg>>) = StageAt(<<"hand", Listener>>)
      BY Stages
    <3> QED
      BY <2>1, <3>1, <3>2, ListenerRecvMoves, MoveIsStep
  <2>2. CASE ListenerSend /\ ~Panic
    <3>1. UNCHANGED latest /\ <<"hand", Listener>> \in Places /\ <<"raw", NoMsg>> \in Places
      BY <2>2, PlacesAre DEF ListenerSend, dbVars, Carriers
    <3>2. StageAt(<<"hand", Listener>>) = "offered" /\ StageAt(<<"raw", NoMsg>>) = "accepted"
      BY Stages
    <3> QED
      BY <2>2, <3>1, <3>2, ListenerSendMoves, MoveIsStep
  <2>3. CASE ListenerExit \/ ListenerDown
    BY <2>3, NoMove DEF ListenerExit, ListenerDown
  <2> QED
    BY <1>1, <1>3, <2>1, <2>2, <2>3 DEF ListenerStep, Quiescent
<1>4. CASE GeneratorSend /\ ~Panic
  <2>1. UNCHANGED latest
    BY <1>4 DEF GeneratorSend, dbVars
  <2>2. NoneTwice'
    BY <1>4, GeneratorMoves
  <2>3. PICK m \in Messages : /\ m \in Inside(<<"testFeed", NoMsg>>)
                              /\ \/ Moved({m}, <<"raw", NoMsg>>)
                                 \/ Moved({m}, <<"dropped", NoMsg>>)
    BY <1>4, GeneratorMoves
  <2>4. StepMoves
    BY <2>1, <2>3, PlacesAre, Stages DEF StepMoves
  <2> QED
    BY <2>2, <2>4
<1>5. ASSUME NEW w \in ParseWorkers, ParseWorker(w), ~Panic PROVE NoneTwice' /\ StepMoves
  <2>1. w \in Carriers \ {Listener}
    BY WorkerAssumption DEF Carriers
  <2>2. CASE ParseRecv(w)
    <3>1. UNCHANGED latest /\ <<"raw", NoMsg>> \in Places /\ <<"hand", w>> \in Places
      BY <2>1, <2>2, PlacesAre DEF ParseRecv, dbVars
    <3>2. StageAt(<<"raw", NoMsg>>) = StageAt(<<"hand", w>>)
      BY <2>1, Stages
    <3> QED
      BY <2>2, <3>1, <3>2, ParseRecvMoves, MoveIsStep
  <2>3. CASE ParseDead(w)
    <3>1. UNCHANGED latest /\ <<"hand", w>> \in Places /\ <<"dead", NoMsg>> \in Places
      BY <2>1, <1>5, <2>3, PlacesAre DEF ParseDead, dbVars
    <3>2. StageAt(<<"hand", w>>) = "accepted" /\ StageAt(<<"dead", NoMsg>>) = "dead"
      BY <2>1, Stages
    <3> QED
      BY <1>5, <2>3, <3>1, <3>2, ParseDeadMoves, MoveIsStep
  <2>4. CASE ParseSend(w)
    <3>1. UNCHANGED latest /\ <<"hand", w>> \in Places /\ <<"parsed", NoMsg>> \in Places
      BY <2>1, <1>5, <2>4, PlacesAre DEF ParseSend, dbVars
    <3>2. StageAt(<<"hand", w>>) = StageAt(<<"parsed", NoMsg>>)
      BY <2>1, Stages
    <3> QED
      BY <1>5, <2>4, <3>1, <3>2, ParseSendMoves, MoveIsStep
  <2>5. CASE ParseExit(w)
    BY <2>5, NoMove DEF ParseExit
  <2> QED
    BY <1>5, <2>2, <2>3, <2>4, <2>5 DEF ParseWorker
<1>6. CASE Dispatch
  <2>1. Dispatcher \in Carriers \ {Listener}
    BY WorkerAssumption DEF Carriers
  <2>2. CASE DispatchRecv
    <3>1. UNCHANGED latest /\ <<"parsed", NoMsg>> \in Places /\ <<"hand", Dispatcher>> \in Places
      BY <2>1, <2>2, PlacesAre DEF DispatchRecv, dbVars
    <3>2. StageAt(<<"parsed", NoMsg>>) = StageAt(<<"hand", Dispatcher>>)
      BY <2>1, Stages
    <3> QED
      BY <2>2, <3>1, <3>2, DispatchRecvMoves, MoveIsStep
  <2>3. CASE DispatchSend
    <3>1. PICK v \in DbWorkers : \E m \in Messages : /\ m \in Inside(<<"hand", Dispatcher>>)
                                                      /\ Moved({m}, <<"chan", v>>)
      BY <2>3, DispatchSendMoves
    <3>2. UNCHANGED latest /\ <<"hand", Dispatcher>> \in Places /\ <<"chan", v>> \in Places
      BY <2>1, <2>3, PlacesAre DEF DispatchSend, dbVars
    <3>3. StageAt(<<"hand", Dispatcher>>) = StageAt(<<"chan", v>>)
      BY <2>1, Stages
    <3> QED
      BY <2>3, <3>1, <3>2, <3>3, DispatchSendMoves, MoveIsStep
  <2>4. CASE DispatchExit
    BY <2>4, NoMove DEF DispatchExit
  <2> QED
    BY <1>6, <2>2, <2>3, <2>4 DEF Dispatch
<1>7. ASSUME NEW w \in DbWorkers, DbWorker(w) PROVE NoneTwice' /\ StepMoves
  <2>1. <<"chan", w>> \in Places /\ <<"batch", w>> \in Places
    BY PlacesAre
  <2>2. StageAt(<<"chan", w>>) = StageAt(<<"batch", w>>)
    BY Stages
  <2> QED
    BY <1>7, <2>1, <2>2, DbMoves DEF StepMoves
<1>8. CASE Interrupt \/ Closing
  BY <1>8, NoMove DEF Interrupt, Closing, CloseRaw, CloseParsed, CloseDead, MainReturn
<1> QED
  BY <1>1, <1>2, <1>3, <1>4, <1>5, <1>6, <1>7, <1>8, StepCases DEF Quiescent

\* Every step keeps each message in one place.
LEMMA OnePlaceStep == ASSUME TypeOK, OnePlace, NoneTwice, [Next]_vars PROVE OnePlace' /\ NoneTwice'
<1>1. NoneTwice' /\ StepMoves
  BY AllMoves
<1>2. CASE \A p \in Places : Inside(p)' = Inside(p)
  <2>1. \A m \in Messages : \E p \in Places : \A q \in Places : m \in Inside(q)' <=> q = p
    BY <1>2 DEF OnePlace
  <2> QED
    BY <1>1, <2>1 DEF OnePlace, Places
<1>3. CASE \E b \in Places : \E S : Moved(S, b)
  BY <1>1, <1>3, MoveKeeps
<1>4. <<"stored", NoMsg>> \in Places /\ <<"failed", NoMsg>> \in Places
  BY PlacesAre
<1> QED
  BY <1>1, <1>2, <1>3, <1>4 DEF StepMoves, Settles

\* At the start every message is with its producer.
LEMMA OnePlaceInit == Init => OnePlace /\ NoneTwice
<1> SUFFICES ASSUME Init PROVE OnePlace /\ NoneTwice
  OBVIOUS
<1>1. NoneTwice
  BY FeedAssumption DEF Init, NoneTwice, IsInjective
<1>2. /\ Inside(<<"feed", NoMsg>>) = Range(Feed) /\ Inside(<<"testFeed", NoMsg>>) = Range(TestFeed)
      /\ <<"feed", NoMsg>> \in Places /\ <<"testFeed", NoMsg>> \in Places
  BY PlacesAre, PlacesHold DEF Init
<1>3. ASSUME NEW p \in Places, p # <<"feed", NoMsg>>, p # <<"testFeed", NoMsg>>
      PROVE  Inside(p) = {}
  <2>1. p[1] \notin {"feed", "testFeed"}
    BY <1>3, PlaceKinds
  <2>2. p[1] \in {"raw", "parsed", "dead", "stored", "failed", "dropped", "chan", "batch", "hand"}
    BY <2>1 DEF Places
  <2>3. CASE p[1] \in {"raw", "parsed", "dead", "stored", "failed", "dropped"}
    BY <2>3, RangeEmpty DEF Init, Inside
  <2>4. CASE p[1] \in {"chan", "batch"}
    BY <2>4, PlaceKinds, RangeEmpty DEF Init, Inside
  <2>5. CASE p[1] = "hand"
    BY <2>5, PlaceKinds DEF Init, Inside
  <2> QED
    BY <2>2, <2>3, <2>4, <2>5
<1>4. OnePlace
  BY <1>2, <1>3, FeedAssumption DEF OnePlace
<1> QED
  BY <1>1, <1>4

\* Whatever the workers, capacities and interleavings, each message is in
\* one place at every moment, from the producer to where it is settled.
THEOREM NothingLostOrRepeated == Spec => []Conservation
<1>1. TypeOK /\ OnePlace /\ NoneTwice /\ [Next]_vars => OnePlace' /\ NoneTwice'
  BY OnePlaceStep
<1>2. OnePlace /\ NoneTwice => Conservation
  <2> SUFFICES ASSUME OnePlace, NEW m \in Messages
               PROVE  Cardinality({p \in Places : m \in Inside(p)}) = 1
    BY DEF Conservation
  <2>1. PICK q \in Places : {p \in Places : m \in Inside(p)} = {q}
    BY DEF OnePlace
  <2> QED
    BY <2>1, FS_Singleton
<1> QED
  BY <1>1, <1>2, OnePlaceInit, TypeCorrect, PTL DEF Spec
-----------------------------------------------------------------------------
(* The ledger.                                                             *)

\* The stage of a message in the ledger is that of the place it is in.
StageFact ==
    OnePlace => \A m \in Messages, p \in Places : m \in Inside(p) => Stage(m) = StageAt(p)

\* In whichever place a message is, the ledger names the stage of that place.
LEMMA StageIs == StageFact
<1> SUFFICES ASSUME OnePlace, NEW m \in Messages, NEW p \in Places, m \in Inside(p)
             PROVE  Stage(m) = StageAt(p)
  BY DEF StageFact
<1>1. \A q \in Places : m \in Inside(q) <=> q = p
  BY DEF OnePlace
<1>2. /\ m \in stored <=> p[1] = "stored"
      /\ m \in failed <=> p[1] = "failed"
      /\ m \in dropped <=> p[1] = "dropped"
      /\ m \in Range(deadChan) <=> p[1] = "dead"
      /\ m \in Range(feed) <=> p[1] = "feed"
      /\ m \in Range(testFeed) <=> p[1] = "testFeed"
      /\ m \in Range(rawChan) <=> p[1] = "raw"
      /\ m \in Range(parsedChan) <=> p[1] = "parsed"
  <2>1. \A k \in {"feed", "testFeed", "raw", "parsed", "dead", "stored", "failed", "dropped"} :
           m \in Inside(<<k, NoMsg>>) <=> p[1] = k
    BY <1>1, PlacesAre, PlaceKinds
  <2> QED
    BY <2>1, PlacesHold
<1>3. \A g \in Carriers : m = hand[g] <=> p = <<"hand", g>>
  BY <1>1, PlacesHold, PlacesAre, NoMsgAssumption
<1>4. \A w \in DbWorkers : m \in HeldBy(w) <=> p = <<"chan", w>> \/ p = <<"batch", w>>
  BY <1>1, PlacesHold, PlacesAre DEF HeldBy
<1>5. Listener \in Carriers
  BY DEF Carriers
<1>6. m \in InFlight <=> \/ p[1] \in {"raw", "parsed"}
                         \/ \E w \in DbWorkers : p = <<"chan", w>> \/ p = <<"batch", w>>
                         \/ \E g \in Carriers : p = <<"hand", g>>
  <2>1. m \in InFlight <=> \/ m \in Range(rawChan) \/ m \in Range(parsedChan)
                           \/ \E w \in DbWorkers : m \in HeldBy(w)
                           \/ \E g \in Carriers : m = hand[g]
    BY NoMsgAssumption DEF InFlight
  <2> QED
    BY <1>2, <1>3, <1>4, <2>1
<1>7. CASE p[1] \in {"stored", "failed", "dropped", "dead"}
  <2>1. p # <<"hand", Listener>>
    BY <1>7
  <2>2. StageAt(p) = p[1]
    BY <1>7, <2>1 DEF StageAt
  <2>3. m \notin InFlight /\ m # hand[Listener]
    BY <1>3, <1>5, <1>6, <1>7
  <2>4. Stage(m) = p[1]
    BY <1>2, <1>7, <2>3 DEF Stage
  <2> QED
    BY <2>2, <2>4
<1>8. CASE p[1] \in {"feed", "testFeed"} \/ p = <<"hand", Listener>>
  <2>1. m \in Range(feed) \cup Range(testFeed) \cup {hand[Listener]}
    BY <1>2, <1>3, <1>5, <1>8
  <2>2. m \notin stored \cup failed \cup dropped \cup Range(deadChan)
    BY <1>2, <1>8
  <2>3. StageAt(p) = "offered"
    BY <1>8 DEF StageAt
  <2>4. m \notin InFlight \ {hand[Listener]}
    BY <1>3, <1>5, <1>6, <1>8
  <2>5. Stage(m) = "offered"
    BY <2>1, <2>2, <2>4 DEF Stage
  <2> QED
    BY <2>3, <2>5
<1>9. CASE p[1] \in {"raw", "parsed", "chan", "batch", "hand"} /\ p # <<"hand", Listener>>
  <2>1. /\ p[1] \in {"chan", "batch"} => p[2] \in DbWorkers /\ p = <<p[1], p[2]>>
        /\ p[1] = "hand" => p[2] \in Carriers /\ p = <<"hand", p[2]>>
    BY PlaceKinds
  <2>2. m \in InFlight
    BY <1>6, <1>9, <2>1
  <2>3. m \notin stored \cup failed \cup dropped \cup Range(deadChan) \cup Range(feed) \cup Range(testFeed)
    BY <1>2, <1>9
  <2>4. m # hand[Listener]
    BY <1>3, <1>5, <1>9
  <2> QED
    BY <1>9, <2>2, <2>3, <2>4 DEF Stage, StageAt
<1> QED
  BY <1>7, <1>8, <1>9 DEF Places

\* When messages move to place b, their stage becomes that of b and the
\* stages of the others stay.
LEMMA StageMoved ==
    ASSUME OnePlace, OnePlace', NEW S, NEW b \in Places, Moved(S, b)
    PROVE  \A m \in Messages : Stage(m)' = IF m \in S THEN StageAt(b) ELSE Stage(m)
<1>1. StageFact /\ StageFact'
  BY StageIs, PTL
<1> SUFFICES ASSUME NEW m \in Messages
             PROVE  Stage(m)' = IF m \in S THEN StageAt(b) ELSE Stage(m)
  OBVIOUS
<1>2. PICK p \in Places : m \in Inside(p)
  BY DEF OnePlace
<1>3. \A q \in Places : m \in Inside(q)' => Stage(m)' = StageAt(q)
  BY <1>1 DEF StageFact, Places, StageAt
<1>4. CASE m \in S
  BY <1>3, <1>4 DEF Moved
<1>5. CASE m \notin S
  <2>1. m \in Inside(p)'
    BY <1>2, <1>5 DEF Moved
  <2>2. Stage(m) = StageAt(p)
    BY <1>1, <1>2 DEF StageFact
  <2> QED
    BY <1>2, <1>3, <1>5, <2>1, <2>2
<1> QED
  BY <1>4, <1>5

\* Where no place changes, no stage does.
LEMMA StageUnmoved ==
    ASSUME OnePlace, OnePlace', \A p \in Places : Inside(p)' = Inside(p)
    PROVE  \A m \in Messages : Stage(m)' = Stage(m)
<1>1. <<"feed", NoMsg>> \in Places
  BY PlacesAre
<1>2. Moved({}, <<"feed", NoMsg>>)
  BY DEF Moved
<1> QED
  BY <1>1, <1>2, StageMoved

\* The row of an ISIN a batch mentions becomes a message of the batch.
LEMMA UpsertRows ==
    ASSUME NEW b \in Seq(Messages), NEW rows \in Rows, NEW i \in Isins
    PROVE  LET Own == {m \in Range(b) : IsinOf[m] = i}
           IN  IF Own = {} THEN Upsert(rows, b)[i] = rows[i] ELSE Upsert(rows, b)[i] \in Own
<1>1. CASE i \in BatchIsins(b)
  BY <1>1, WinnerOfBatch DEF Upsert, BatchIsins
<1>2. CASE i \notin BatchIsins(b)
  BY <1>2 DEF Upsert, BatchIsins
<1> QED
  BY <1>1, <1>2

\* A step of the pipeline is a step of the ledger or leaves it alone.
LEMMA LedgerStep ==
    ASSUME TypeOK, OnePlace, OnePlace', StepMoves
    PROVE  [Ledger!Next]_(Ledger!vars)
<1> USE DEF Ledger!vars
<1>1. CASE (\A p \in Places : Inside(p)' = Inside(p)) /\ UNCHANGED latest
  BY <1>1, StageUnmoved
<1>2. ASSUME NEW m \in Messages, NEW a \in Places, NEW b \in Places, m \in Inside(a),
             Moved({m}, b), UNCHANGED latest,
             \/ StageAt(a) = StageAt(b)
             \/ StageAt(a) = "offered" /\ StageAt(b) \in {"accepted", "dropped"}
             \/ StageAt(a) = "accepted" /\ StageAt(b) = "dead"
      PROVE  [Ledger!Next]_(Ledger!vars)
  <2>1. Stage(m) = StageAt(a)
    BY <1>2, StageIs DEF StageFact
  <2>2. \A n \in Messages : Stage(n)' = IF n \in {m} THEN StageAt(b) ELSE Stage(n)
    BY <1>2, StageMoved
  <2>3. CASE StageAt(a) = StageAt(b)
    BY <1>2, <2>1, <2>2, <2>3
  <2>4. CASE StageAt(a) # StageAt(b)
    <3>1. Ledger!Move({m}, StageAt(b))
      BY <2>2 DEF Ledger!Move
    <3>2. Ledger!Accept(m) \/ Ledger!Drop(m) \/ Ledger!DeadLetter(m)
      BY <1>2, <2>1, <2>4, <3>1 DEF Ledger!Accept, Ledger!Drop, Ledger!DeadLetter
    <3> QED
      BY <3>2 DEF Ledger!Next
  <2> QED
    BY <2>3, <2>4
<1>3. ASSUME NEW w \in DbWorkers, NEW b \in Seq(Messages), Settles(w, b)
      PROVE  [Ledger!Next]_(Ledger!vars)
  <2> DEFINE S == Range(b)
  <2>1. S \in SUBSET Messages
    BY DEF Range
  <2>2. \A m \in S : Stage(m) = "accepted"
    <3>1. <<"chan", w>> \in Places /\ <<"batch", w>> \in Places
      BY PlacesAre
    <3>2. StageAt(<<"chan", w>>) = "accepted" /\ StageAt(<<"batch", w>>) = "accepted"
      BY Stages
    <3>3. S \subseteq Inside(<<"chan", w>>) \cup Inside(<<"batch", w>>)
      BY <1>3 DEF Settles
    <3> HIDE DEF S
    <3> QED
      BY <2>1, <3>1, <3>2, <3>3, StageIs DEF StageFact
  <2>3. <<"stored", NoMsg>> \in Places /\ <<"failed", NoMsg>> \in Places
        /\ StageAt(<<"stored", NoMsg>>) = "stored" /\ StageAt(<<"failed", NoMsg>>) = "failed"
    BY PlacesAre, Stages
  <2>4. CASE Moved(S, <<"stored", NoMsg>>) /\ latest' = Upsert(latest, b)
    <3>1. \A m \in Messages : Stage(m)' = IF m \in S THEN "stored" ELSE Stage(m)
      BY <2>3, <2>4, StageMoved
    <3>2. latest \in Rows
      BY DEF TypeOK, DbTypeOK
    <3>3. latest' \in [Isins -> Messages \cup {NoMsg}]
      BY <2>4, <3>2, UpsertType DEF Rows
    <3>4. \A i \in Isins :
             LET Own == {m \in S : IsinOf[m] = i}
             IN  IF Own = {} THEN latest'[i] = latest[i] ELSE latest'[i] \in Own
      BY <2>4, <3>2, UpsertRows
    <3> HIDE DEF S
    <3>5. Ledger!Commit(S)
      BY <2>1, <2>2, <3>1, <3>3, <3>4 DEF Ledger!Commit, Ledger!Move
    <3> QED
      BY <2>1, <3>5 DEF Ledger!Next
  <2>5. CASE Moved(S, <<"failed", NoMsg>>) /\ UNCHANGED latest
    <3>1. \A m \in Messages : Stage(m)' = IF m \in S THEN "failed" ELSE Stage(m)
      BY <2>3, <2>5, StageMoved
    <3> HIDE DEF S
    <3>2. Ledger!Abort(S)
      BY <2>1, <2>2, <2>5, <3>1 DEF Ledger!Abort, Ledger!Move
    <3> QED
      BY <2>1, <3>2 DEF Ledger!Next
  <2> QED
    BY <1>3, <2>4, <2>5 DEF Settles
<1> QED
  BY <1>1, <1>2, <1>3 DEF StepMoves

\* The channels, goroutines and batches implement the ledger: whatever is
\* interleaved, a message moves between its stages as QuoteLedger says.
THEOREM PipelineImplementsLedger == Spec => ImplementsLedger
<1>1. Init => Ledger!Init
  <2> SUFFICES ASSUME Init PROVE Ledger!Init
    OBVIOUS
  <2>1. \A m \in Messages : m \in Inside(<<"feed", NoMsg>>) \/ m \in Inside(<<"testFeed", NoMsg>>)
    BY PlacesHold, FeedAssumption DEF Init
  <2>2. \A m \in Messages : Stage(m) = "offered"
    BY <2>1, OnePlaceInit, StageIs, PlacesAre, Stages DEF StageFact
  <2> QED
    BY <2>2 DEF Init, Ledger!Init
<1>2. TypeOK /\ OnePlace /\ NoneTwice /\ [Next]_vars
        => OnePlace' /\ NoneTwice' /\ [Ledger!Next]_(Ledger!vars)
  BY AllMoves, OnePlaceStep, LedgerStep
<1> QED
  BY <1>1, <1>2, OnePlaceInit, TypeCorrect, PTL DEF Spec, ImplementsLedger, Ledger!Spec
-----------------------------------------------------------------------------
(* What is still ahead of the process.  Every step takes something away,   *)
(* and only a restart of the listener before the interrupt adds.           *)

\* The channel operations and the flush still ahead of a message at place p.
Left(p) ==
    CASE p[1] \in {"feed", "testFeed"} -> 8
      [] p = <<"hand", Listener>>      -> 7
      [] p[1] = "raw"                  -> 6
      [] p[1] = "hand" /\ p[2] \in ParseWorkers -> 5
      [] p[1] = "parsed"               -> 4
      [] p = <<"hand", Dispatcher>>    -> 3
      [] p[1] = "chan"                 -> 2
      [] p[1] = "batch"                -> 1
      [] OTHER                         -> 0

\* The moves ahead of each message, the wg.Add and the return ahead of each
\* goroutine, and the statements ahead of main.
MovesAhead ==
    {x \in Messages \X (1 .. 8) : \E p \in Places : x[1] \in Inside(p) /\ x[2] <= Left(p)}
GoroutinesAhead ==
    {x \in WgMembers \X {"start", "return"} :
        IF x[2] = "start" THEN status[x[1]] = "new" ELSE status[x[1]] # "done"}
MainSteps == {"interrupt", "closeRaw", "closeParsed", "closeDead", "return", "panic"}
ClosesAhead ==
    {x \in MainSteps :
        \/ x = "interrupt" /\ ~CtxDone
        \/ x = "closeRaw" /\ ~RawClosed
        \/ x = "closeParsed" /\ ~ParsedClosed
        \/ x = "closeDead" /\ ~DeadClosed
        \/ x = "return" /\ main # "exited"
        \/ x = "panic" /\ ~panicked}

\* All of it; a step may only take away.
Ahead == ({"message"} \X MovesAhead) \cup ({"goroutine"} \X GoroutinesAhead)
         \cup ({"main"} \X ClosesAhead)
AheadShrinks == Ahead' \subseteq Ahead /\ Ahead' # Ahead

\* The session broke, and main has the listener started anew.
Restart == ~CtxDone /\ status[Listener] = "running" /\ status'[Listener] = "new"

\* What is ahead of the messages, the goroutines and main in turn.
LEMMA Shrinks ==
    ASSUME MovesAhead' \subseteq MovesAhead, GoroutinesAhead' \subseteq GoroutinesAhead,
           ClosesAhead' \subseteq ClosesAhead,
           \/ MovesAhead' # MovesAhead
           \/ GoroutinesAhead' # GoroutinesAhead
           \/ ClosesAhead' # ClosesAhead
    PROVE  AheadShrinks
<1>1. /\ \A x : x \in MovesAhead <=> <<"message", x>> \in Ahead
      /\ \A x : x \in GoroutinesAhead <=> <<"goroutine", x>> \in Ahead
      /\ \A x : x \in ClosesAhead <=> <<"main", x>> \in Ahead
  BY DEF Ahead
<1>2. /\ \A x : x \in MovesAhead' <=> <<"message", x>> \in Ahead'
      /\ \A x : x \in GoroutinesAhead' <=> <<"goroutine", x>> \in Ahead'
      /\ \A x : x \in ClosesAhead' <=> <<"main", x>> \in Ahead'
  BY DEF Ahead
<1>3. Ahead' \subseteq Ahead
  BY DEF Ahead
<1>4. Ahead' # Ahead
  BY <1>1, <1>2
<1> QED
  BY <1>3, <1>4 DEF AheadShrinks

\* How far each place is from the tables.
LEMMA Distances ==
    /\ \A p : Left(p) \in 0 .. 8
    /\ Left(<<"feed", NoMsg>>) = 8 /\ Left(<<"testFeed", NoMsg>>) = 8
    /\ Left(<<"hand", Listener>>) = 7 /\ Left(<<"raw", NoMsg>>) = 6
    /\ \A p \in ParseWorkers : Left(<<"hand", p>>) = 5
    /\ Left(<<"parsed", NoMsg>>) = 4 /\ Left(<<"hand", Dispatcher>>) = 3
    /\ \A w : Left(<<"chan", w>>) = 2 /\ Left(<<"batch", w>>) = 1
    /\ Left(<<"dead", NoMsg>>) = 0 /\ Left(<<"stored", NoMsg>>) = 0
    /\ Left(<<"failed", NoMsg>>) = 0 /\ Left(<<"dropped", NoMsg>>) = 0
BY WorkerAssumption DEF Left

\* Messages that move on have less ahead, and the others what they had.
LEMMA MovesShrink ==
    ASSUME NEW S \in SUBSET Messages, S # {}, NEW b \in Places, Moved(S, b),
           \A m \in S : \E a \in Places : m \in Inside(a) /\ Left(b) < Left(a)
    PROVE  MovesAhead' \subseteq MovesAhead /\ MovesAhead' # MovesAhead
<1>0. \A p : Left(p) \in 0 .. 8
  BY Distances
<1>1. ASSUME NEW m \in Messages, NEW k \in 1 .. 8, NEW p \in Places,
             m \in Inside(p)', k <= Left(p)
      PROVE  \E q \in Places : m \in Inside(q) /\ k <= Left(q)
  <2>1. CASE p = b /\ m \in S
    <3>1. PICK a \in Places : m \in Inside(a) /\ Left(b) < Left(a)
      BY <2>1
    <3>2. k <= Left(a)
      BY <1>0, <1>1, <2>1, <3>1
    <3> QED
      BY <3>1, <3>2
  <2>2. CASE ~(p = b /\ m \in S)
    <3>1. m \in Inside(p)
      BY <1>1, <2>2 DEF Moved
    <3> QED
      BY <1>1, <3>1
  <2> QED
    BY <2>1, <2>2
<1>2. MovesAhead' \subseteq MovesAhead
  <2> SUFFICES ASSUME NEW x \in MovesAhead' PROVE x \in MovesAhead
    OBVIOUS
  <2>1. /\ x \in Messages \X (1 .. 8)
        /\ \E p \in Places : x[1] \in Inside(p)' /\ x[2] <= Left(p)
    BY DEF MovesAhead, Places, Left
  <2>2. x[1] \in Messages /\ x[2] \in 1 .. 8
    BY <2>1
  <2>3. \E p \in Places : x[1] \in Inside(p) /\ x[2] <= Left(p)
    BY <1>1, <2>1, <2>2
  <2> QED
    BY <2>1, <2>3 DEF MovesAhead
<1>3. PICK m \in S : TRUE
  OBVIOUS
<1>4. PICK a \in Places : m \in Inside(a) /\ Left(b) < Left(a)
  BY <1>3
<1>5. Left(a) \in 1 .. 8 /\ m \in Messages
  BY <1>0, <1>4
<1>6. <<m, Left(a)>> \in MovesAhead
  BY <1>4, <1>5 DEF MovesAhead
<1>7. ASSUME NEW p \in Places, m \in Inside(p)' PROVE p = b
  BY <1>3, <1>7 DEF Moved
<1>8. <<m, Left(a)>> \notin MovesAhead'
  <2> SUFFICES ASSUME <<m, Left(a)>> \in MovesAhead' PROVE FALSE
    OBVIOUS
  <2>1. \E p \in Places : m \in Inside(p)' /\ Left(a) <= Left(p)
    BY DEF MovesAhead, Places, Left
  <2> QED
    BY <1>0, <1>4, <1>7, <2>1
<1> QED
  BY <1>2, <1>6, <1>8

\* One message that moves on from place a to place b.
LEMMA OneShrinks ==
    ASSUME NEW a \in Places, NEW b \in Places, Left(b) < Left(a),
           \E m \in Messages : m \in Inside(a) /\ Moved({m}, b),
           UNCHANGED <<GoroutinesAhead, ClosesAhead>>
    PROVE  AheadShrinks
<1>1. PICK m \in Messages : m \in Inside(a) /\ Moved({m}, b)
  OBVIOUS
<1>2. MovesAhead' \subseteq MovesAhead /\ MovesAhead' # MovesAhead
  BY <1>1, MovesShrink
<1> QED
  BY <1>2, Shrinks

\* A settled batch, which is not empty, has nothing ahead.
LEMMA SettledShrinks ==
    ASSUME NEW w \in DbWorkers, NEW b \in Seq(Messages), Settles(w, b)
    PROVE  MovesAhead' \subseteq MovesAhead /\ MovesAhead' # MovesAhead
<1>1. Range(b) \in SUBSET Messages
  BY DEF Range
<1>2. Range(b) # {}
  <2>1. DOMAIN b = 1 .. Len(b) /\ Len(b) # 0
    BY DEF Settles
  <2> QED
    BY <2>1 DEF Range
<1>3. <<"chan", w>> \in Places /\ <<"batch", w>> \in Places
      /\ <<"stored", NoMsg>> \in Places /\ <<"failed", NoMsg>> \in Places
  BY PlacesAre
<1>4. /\ Left(<<"chan", w>>) = 2 /\ Left(<<"batch", w>>) = 1
      /\ Left(<<"stored", NoMsg>>) = 0 /\ Left(<<"failed", NoMsg>>) = 0
  BY Distances
<1>5. \A m \in Range(b) : \E a \in Places : m \in Inside(a) /\ 0 < Left(a)
  BY <1>3, <1>4 DEF Settles
<1> QED
  BY <1>1, <1>2, <1>3, <1>4, <1>5, MovesShrink DEF Settles

\* Where no message moves, as many moves are ahead.
LEMMA MovesStay ==
    ASSUME \A p \in Places : Inside(p)' = Inside(p) PROVE MovesAhead' = MovesAhead
BY DEF MovesAhead, Places, Left

\* Where no channel, batch, hand or account changes, no message moves.
LEMMA MovesFrame ==
    ASSUME UNCHANGED <<feedVars, chanVars, batch, hand, dbVars>>
    PROVE  MovesAhead' = MovesAhead
BY PlaceFrame, MovesStay DEF feedVars, chanVars, dbVars

LEMMA GoroutinesFrame == ASSUME UNCHANGED status PROVE GoroutinesAhead' = GoroutinesAhead
BY DEF GoroutinesAhead
LEMMA ClosesFrame == ASSUME UNCHANGED <<main, panicked>> PROVE ClosesAhead' = ClosesAhead
BY DEF ClosesAhead, CtxDone, RawClosed, ParsedClosed, DeadClosed

\* A goroutine that starts or returns does so once.
LEMMA GoroutineShrinks ==
    ASSUME TypeOK, NEW g \in WgMembers, NEW s, status' = [status EXCEPT ![g] = s],
           \/ status[g] = "new" /\ s = "running"
           \/ status[g] = "running" /\ s = "done"
    PROVE  GoroutinesAhead' \subseteq GoroutinesAhead /\ GoroutinesAhead' # GoroutinesAhead
<1>1. /\ status \in [WgMembers -> {"new", "running", "done"}]
      /\ status'[g] = s /\ \A h \in WgMembers : h # g => status'[h] = status[h]
  BY DEF TypeOK, CtlTypeOK
<1>2. \A x \in WgMembers \X {"start", "return"} : x \in GoroutinesAhead' => x \in GoroutinesAhead
  BY <1>1 DEF GoroutinesAhead
<1>3. CASE status[g] = "new" /\ s = "running"
  <2>1. <<g, "start">> \in GoroutinesAhead /\ <<g, "start">> \notin GoroutinesAhead'
    BY <1>1, <1>3 DEF GoroutinesAhead
  <2> QED
    BY <1>2, <2>1 DEF GoroutinesAhead
<1>4. CASE status[g] = "running" /\ s = "done"
  <2>1. <<g, "return">> \in GoroutinesAhead /\ <<g, "return">> \notin GoroutinesAhead'
    BY <1>1, <1>4 DEF GoroutinesAhead
  <2> QED
    BY <1>2, <2>1 DEF GoroutinesAhead
<1> QED
  BY <1>3, <1>4

\* What main has done stays done.
LEMMA ClosesLess ==
    ASSUME CtxDone => CtxDone', RawClosed => RawClosed', ParsedClosed => ParsedClosed',
           DeadClosed => DeadClosed', main = "exited" => main' = "exited", panicked => panicked',
           \/ ~CtxDone /\ CtxDone'
           \/ ~RawClosed /\ RawClosed'
           \/ ~ParsedClosed /\ ParsedClosed'
           \/ ~DeadClosed /\ DeadClosed'
           \/ main # "exited" /\ main' = "exited"
           \/ ~panicked /\ panicked'
    PROVE  ClosesAhead' \subseteq ClosesAhead /\ ClosesAhead' # ClosesAhead
<1>1. ClosesAhead' \subseteq MainSteps
  BY DEF ClosesAhead
<1>2. /\ "interrupt" \in ClosesAhead <=> ~CtxDone
      /\ "closeRaw" \in ClosesAhead <=> ~RawClosed
      /\ "closeParsed" \in ClosesAhead <=> ~ParsedClosed
      /\ "closeDead" \in ClosesAhead <=> ~DeadClosed
      /\ "return" \in ClosesAhead <=> main # "exited"
      /\ "panic" \in ClosesAhead <=> ~panicked
  BY DEF ClosesAhead, MainSteps
<1>3. /\ "interrupt" \in ClosesAhead' <=> ~CtxDone'
      /\ "closeRaw" \in ClosesAhead' <=> ~RawClosed'
      /\ "closeParsed" \in ClosesAhead' <=> ~ParsedClosed'
      /\ "closeDead" \in ClosesAhead' <=> ~DeadClosed'
      /\ "return" \in ClosesAhead' <=> main' # "exited"
      /\ "panic" \in ClosesAhead' <=> ~panicked'
  BY DEF ClosesAhead, MainSteps
<1>4. ClosesAhead' \subseteq ClosesAhead
  <2>1. \A x \in MainSteps : x \in ClosesAhead' => x \in ClosesAhead
    BY <1>2, <1>3 DEF MainSteps
  <2> QED
    BY <1>1, <2>1
<1>5. ClosesAhead' # ClosesAhead
  <2> SUFFICES ASSUME ClosesAhead' = ClosesAhead PROVE FALSE
    OBVIOUS
  <2> QED
    BY <1>2, <1>3, Zenon
<1> QED
  BY <1>4, <1>5

\* main comes to each statement of the shutdown once.
LEMMA CloseShrinks ==
    ASSUME Interrupt \/ Closing
    PROVE  ClosesAhead' \subseteq ClosesAhead /\ ClosesAhead' # ClosesAhead
<1> USE DEF CtxDone, RawClosed, ParsedClosed, DeadClosed, MainGoto
<1>1. CASE Interrupt
  BY <1>1, ClosesLess DEF Interrupt
<1>2. CASE CloseRaw
  BY <1>2, ClosesLess DEF CloseRaw
<1>3. CASE CloseParsed
  BY <1>3, ClosesLess DEF CloseParsed
<1>4. CASE CloseDead
  BY <1>4, ClosesLess DEF CloseDead
<1>5. CASE MainReturn
  BY <1>5, ClosesLess DEF MainReturn
<1> QED
  BY <1>1, <1>2, <1>3, <1>4, <1>5 DEF Closing

\* The process panics once.
LEMMA PanicShrinks == ASSUME Alive, Panic PROVE AheadShrinks
<1>1. UNCHANGED <<MovesAhead, GoroutinesAhead>>
  BY MovesFrame, GoroutinesFrame DEF Panic
<1>2. ClosesAhead' \subseteq ClosesAhead /\ ClosesAhead' # ClosesAhead
  BY ClosesLess DEF Alive, Panic, CtxDone, RawClosed, ParsedClosed, DeadClosed
<1> QED
  BY <1>1, <1>2, Shrinks

\* A step that only starts or ends a goroutine.
LEMMA StatusShrinks ==
    ASSUME TypeOK, NEW g \in WgMembers, NEW s, status' = [status EXCEPT ![g] = s],
           \/ status[g] = "new" /\ s = "running"
           \/ status[g] = "running" /\ s = "done",
           UNCHANGED <<feedVars, chanVars, batch, hand, dbVars, main, panicked>>
    PROVE  AheadShrinks
<1>1. UNCHANGED <<MovesAhead, ClosesAhead>>
  BY MovesFrame, ClosesFrame
<1>2. GoroutinesAhead' \subseteq GoroutinesAhead /\ GoroutinesAhead' # GoroutinesAhead
  BY GoroutineShrinks
<1> QED
  BY <1>1, <1>2, Shrinks

\* A goroutine that returns.
LEMMA ExitShrinks ==
    ASSUME TypeOK, NEW g \in WgMembers, Running(g), Exit(g) PROVE AheadShrinks
BY StatusShrinks DEF Running, Exit

\* Without a panic, the control state of a step that moves messages stays.
LEMMA ControlStays ==
    ASSUME UNCHANGED ctlVars PROVE UNCHANGED <<GoroutinesAhead, ClosesAhead>>
BY GoroutinesFrame, ClosesFrame DEF ctlVars

\* The listener receives, sends, returns, or is started anew.
LEMMA ListenerShrinks ==
    ASSUME TypeOK, OnePlace, NoneTwice, ListenerStep PROVE AheadShrinks \/ Restart
<1>1. /\ <<"feed", NoMsg>> \in Places /\ <<"hand", Listener>> \in Places
      /\ <<"raw", NoMsg>> \in Places /\ Listener \in WgMembers
  BY PlacesAre DEF Carriers, WgMembers
<1>2. Left(<<"hand", Listener>>) < Left(<<"feed", NoMsg>>)
      /\ Left(<<"raw", NoMsg>>) < Left(<<"hand", Listener>>)
  BY Distances
<1>3. CASE ListenerRecv
  <2>1. UNCHANGED <<GoroutinesAhead, ClosesAhead>>
    BY <1>3, ControlStays DEF ListenerRecv
  <2> QED
    BY <1>1, <1>2, <1>3, <2>1, ListenerRecvMoves, OneShrinks
<1>4. CASE ListenerSend /\ ~Panic
  <2>1. UNCHANGED <<GoroutinesAhead, ClosesAhead>>
    BY <1>4, ControlStays DEF ListenerSend
  <2> QED
    BY <1>1, <1>2, <1>4, <2>1, ListenerSendMoves, OneShrinks
<1>5. CASE ListenerSend /\ Panic
  BY <1>5, PanicShrinks DEF ListenerSend, Running
<1>6. CASE ListenerExit
  BY <1>1, <1>6, ExitShrinks DEF ListenerExit
<1>7. CASE ListenerDown
  <2>1. PICK s \in {"done"} \cup (IF CtxDone THEN {} ELSE {"new"}) :
            status' = [status EXCEPT ![Listener] = s]
    BY <1>7 DEF ListenerDown
  <2>2. /\ status[Listener] = "running"
        /\ UNCHANGED <<feedVars, chanVars, batch, hand, main, panicked, dbVars>>
    BY <1>7 DEF ListenerDown, Running
  <2>3. CASE s = "done"
    BY <1>1, <2>1, <2>2, <2>3, StatusShrinks
  <2>4. CASE s = "new" /\ ~CtxDone
    <3>1. status'[Listener] = "new"
      BY <1>1, <2>1, <2>4 DEF TypeOK, CtlTypeOK
    <3> QED
      BY <2>2, <2>4, <3>1 DEF Restart
  <2> QED
    BY <2>1, <2>3, <2>4
<1> QED
  BY <1>3, <1>4, <1>5, <1>6, <1>7 DEF ListenerStep

\* The generator makes one push less.
LEMMA GeneratorShrinks ==
    ASSUME TypeOK, OnePlace, NoneTwice, GeneratorSend PROVE AheadShrinks
<1>1. /\ <<"testFeed", NoMsg>> \in Places /\ <<"raw", NoMsg>> \in Places
      /\ <<"dropped", NoMsg>> \in Places
  BY PlacesAre
<1>2. Left(<<"raw", NoMsg>>) < Left(<<"testFeed", NoMsg>>)
      /\ Left(<<"dropped", NoMsg>>) < Left(<<"testFeed", NoMsg>>)
  BY Distances
<1>3. CASE Panic
  BY <1>3, PanicShrinks DEF GeneratorSend
<1>4. CASE ~Panic
  <2>1. UNCHANGED <<GoroutinesAhead, ClosesAhead>>
    BY <1>4, ControlStays DEF GeneratorSend
  <2>2. \/ \E m \in Messages : m \in Inside(<<"testFeed", NoMsg>>) /\ Moved({m}, <<"raw", NoMsg>>)
        \/ \E m \in Messages : m \in Inside(<<"testFeed", NoMsg>>)
                               /\ Moved({m}, <<"dropped", NoMsg>>)
    BY <1>4, GeneratorMoves
  <2> QED
    BY <1>1, <1>2, <2>1, <2>2, OneShrinks
<1> QED
  BY <1>3, <1>4

\* A parse worker receives, sends, gives a message to DeadChan, or returns.
LEMMA ParserShrinks ==
    ASSUME TypeOK, OnePlace, NoneTwice, NEW p \in ParseWorkers, ParseWorker(p)
    PROVE  AheadShrinks
<1>1. /\ <<"raw", NoMsg>> \in Places /\ <<"hand", p>> \in Places
      /\ <<"parsed", NoMsg>> \in Places /\ <<"dead", NoMsg>> \in Places /\ p \in WgMembers
  BY PlacesAre DEF Carriers, WgMembers
<1>2. /\ Left(<<"hand", p>>) < Left(<<"raw", NoMsg>>)
      /\ Left(<<"parsed", NoMsg>>) < Left(<<"hand", p>>)
      /\ Left(<<"dead", NoMsg>>) < Left(<<"hand", p>>)
  BY Distances
<1>3. CASE ParseRecv(p)
  <2>1. UNCHANGED <<GoroutinesAhead, ClosesAhead>>
    BY <1>3, ControlStays DEF ParseRecv
  <2> QED
    BY <1>1, <1>2, <1>3, <2>1, ParseRecvMoves, OneShrinks
<1>4. CASE ParseDead(p) /\ ~Panic
  <2>1. UNCHANGED <<GoroutinesAhead, ClosesAhead>>
    BY <1>4, ControlStays DEF ParseDead
  <2> QED
    BY <1>1, <1>2, <1>4, <2>1, ParseDeadMoves, OneShrinks
<1>5. CASE ParseSend(p) /\ ~Panic
  <2>1. UNCHANGED <<GoroutinesAhead, ClosesAhead>>
    BY <1>5, ControlStays DEF ParseSend
  <2> QED
    BY <1>1, <1>2, <1>5, <2>1, ParseSendMoves, OneShrinks
<1>6. CASE (ParseDead(p) \/ ParseSend(p)) /\ Panic
  BY <1>6, PanicShrinks DEF ParseDead, ParseSend, Running
<1>7. CASE ParseExit(p)
  BY <1>1, <1>7, ExitShrinks DEF ParseExit
<1> QED
  BY <1>3, <1>4, <1>5, <1>6, <1>7 DEF ParseWorker

\* The dispatcher receives, sends or returns.
LEMMA DispatcherShrinks ==
    ASSUME TypeOK, OnePlace, NoneTwice, Dispatch PROVE AheadShrinks
<1>1. /\ <<"parsed", NoMsg>> \in Places /\ <<"hand", Dispatcher>> \in Places
      /\ Dispatcher \in WgMembers /\ \A w \in DbWorkers : <<"chan", w>> \in Places
  BY PlacesAre DEF Carriers, WgMembers
<1>2. /\ Left(<<"hand", Dispatcher>>) < Left(<<"parsed", NoMsg>>)
      /\ \A w \in DbWorkers : Left(<<"chan", w>>) < Left(<<"hand", Dispatcher>>)
  BY Distances
<1>3. CASE DispatchRecv
  <2>1. UNCHANGED <<GoroutinesAhead, ClosesAhead>>
    BY <1>3, ControlStays DEF DispatchRecv
  <2> QED
    BY <1>1, <1>2, <1>3, <2>1, DispatchRecvMoves, OneShrinks
<1>4. CASE DispatchSend
  <2>1. UNCHANGED <<GoroutinesAhead, ClosesAhead>>
    BY <1>4, ControlStays DEF DispatchSend
  <2>2. PICK w \in DbWorkers :
            \E m \in Messages : m \in Inside(<<"hand", Dispatcher>>) /\ Moved({m}, <<"chan", w>>)
    BY <1>4, DispatchSendMoves
  <2> QED
    BY <1>1, <1>2, <2>1, <2>2, OneShrinks
<1>5. CASE DispatchExit
  BY <1>1, <1>5, ExitShrinks DEF DispatchExit
<1> QED
  BY <1>3, <1>4, <1>5 DEF Dispatch

\* A DB worker moves a quote into its batch, settles a batch or returns.
LEMMA DbShrinks ==
    ASSUME TypeOK, OnePlace, NoneTwice, NEW w \in DbWorkers, DbWorker(w) PROVE AheadShrinks
<1>1. <<"chan", w>> \in Places /\ <<"batch", w>> \in Places /\ w \in WgMembers
  BY PlacesAre DEF WgMembers
<1>2. Left(<<"batch", w>>) < Left(<<"chan", w>>)
  BY Distances
<1>3. UNCHANGED ClosesAhead
  BY ClosesFrame DEF DbWorker, DbRecv, DbTick, DbExit, ctlVars
<1>4. MovesAhead' \subseteq MovesAhead /\ (MovesAhead' # MovesAhead \/ DbExit(w))
  <2>1. CASE (\A p \in Places : Inside(p)' = Inside(p)) /\ DbExit(w)
    BY <2>1, MovesStay
  <2>2. CASE \E m \in Messages : m \in Inside(<<"chan", w>>) /\ Moved({m}, <<"batch", w>>)
    <3>1. PICK m \in Messages : m \in Inside(<<"chan", w>>) /\ Moved({m}, <<"batch", w>>)
      BY <2>2
    <3> QED
      BY <1>1, <1>2, <3>1, MovesShrink
  <2>3. CASE \E b \in Seq(Messages) : Settles(w, b)
    BY <2>3, SettledShrinks
  <2> QED
    BY <2>1, <2>2, <2>3, DbMoves
<1>5. CASE DbExit(w)
  <2>1. GoroutinesAhead' \subseteq GoroutinesAhead /\ GoroutinesAhead' # GoroutinesAhead
    BY <1>1, <1>5, GoroutineShrinks DEF DbExit, Running
  <2> QED
    BY <1>3, <1>4, <2>1, Shrinks
<1>6. CASE DbRecv(w) \/ DbTick(w)
  <2>1. UNCHANGED GoroutinesAhead
    BY <1>6, ControlStays DEF DbRecv, DbTick
  <2>2. CASE MovesAhead' # MovesAhead
    BY <1>3, <1>4, <2>1, <2>2, Shrinks
  <2>3. CASE DbExit(w)
    BY <1>5, <2>3
  <2> QED
    BY <1>4, <2>2, <2>3
<1> QED
  BY <1>5, <1>6 DEF DbWorker

\* Every step that changes anything takes something away from what is ahead,
\* or restarts the listener.
LEMMA StepShrinks ==
    ASSUME TypeOK, OnePlace, NoneTwice, [Next]_vars
    PROVE  AheadShrinks \/ Restart \/ UNCHANGED vars
<1>1. CASE UNCHANGED vars \/ Terminated
  BY <1>1 DEF Terminated
<1>2. CASE \E g \in WgMembers : Start(g)
  BY <1>2, StatusShrinks DEF Start
<1>3. CASE Interrupt \/ Closing
  <2>1. UNCHANGED <<feedVars, chanVars, batch, hand, status, dbVars>>
    BY <1>3 DEF Interrupt, Closing, CloseRaw, CloseParsed, CloseDead, MainReturn, MainGoto
  <2>2. UNCHANGED <<MovesAhead, GoroutinesAhead>>
    BY <2>1, MovesFrame, GoroutinesFrame
  <2> QED
    BY <1>3, <2>2, CloseShrinks, Shrinks
<1> QED
  BY <1>1, <1>2, <1>3, ListenerShrinks, GeneratorShrinks, ParserShrinks, DispatcherShrinks,
     DbShrinks DEF Next

\* There is only so much ahead: the messages, the goroutines and the steps of
\* main are finitely many.
LEMMA AheadIsFinite == IsFiniteSet(Ahead)
<1>1. ASSUME NEW s \in Seq(Messages) PROVE IsFiniteSet(Range(s))
  <2>1. DOMAIN s = 1 .. Len(s) /\ Len(s) \in Nat
    OBVIOUS
  <2>2. s \in Surjection(1 .. Len(s), Range(s))
    BY <2>1 DEF Surjection, Range
  <2> QED
    BY <2>1, <2>2, FS_Interval, FS_Surjection
<1>2. IsFiniteSet(Messages)
  BY <1>1, FeedAssumption, FS_Union
<1>3. IsFiniteSet(WgMembers)
  <2>1. IsFiniteSet({Listener} \cup {Dispatcher})
    BY FS_Singleton, FS_Union
  <2>2. IsFiniteSet(ParseWorkers \cup DbWorkers)
    BY WorkerAssumption, FS_Union
  <2>3. WgMembers = (ParseWorkers \cup DbWorkers) \cup ({Listener} \cup {Dispatcher})
    BY DEF WgMembers
  <2> QED
    BY <2>1, <2>2, <2>3, FS_Union
<1>4. IsFiniteSet(MovesAhead)
  <2>1. IsFiniteSet(1 .. 8)
    <3>1. 1 \in Int /\ 8 \in Int
      OBVIOUS
    <3> QED
      BY <3>1, FS_Interval, Zenon
  <2>2. IsFiniteSet(Messages \X (1 .. 8))
    BY <1>2, <2>1, FS_Product
  <2> QED
    BY <2>2, FS_Subset DEF MovesAhead
<1>5. IsFiniteSet(GoroutinesAhead)
  <2>1. IsFiniteSet({"start"} \cup {"return"})
    BY FS_Singleton, FS_Union
  <2>2. {"start", "return"} = {"start"} \cup {"return"}
    OBVIOUS
  <2>3. IsFiniteSet(WgMembers \X {"start", "return"})
    BY <1>3, <2>1, <2>2, FS_Product
  <2> QED
    BY <2>3, FS_Subset DEF GoroutinesAhead
<1>6. IsFiniteSet(ClosesAhead)
  <2>1. IsFiniteSet({"interrupt"} \cup {"closeRaw"})
    BY FS_Singleton, FS_Union
  <2>2. IsFiniteSet({"closeParsed"} \cup {"closeDead"})
    BY FS_Singleton, FS_Union
  <2>3. IsFiniteSet({"return"} \cup {"panic"})
    BY FS_Singleton, FS_Union
  <2>4. MainSteps = (({"interrupt"} \cup {"closeRaw"})
                     \cup ({"closeParsed"} \cup {"closeDead"}))
                    \cup ({"return"} \cup {"panic"})
    BY DEF MainSteps
  <2>5. IsFiniteSet(MainSteps)
    BY <2>1, <2>2, <2>3, <2>4, FS_Union
  <2> QED
    BY <2>5, FS_Subset DEF ClosesAhead
<1>7. /\ IsFiniteSet({"message"} \X MovesAhead) /\ IsFiniteSet({"goroutine"} \X GoroutinesAhead)
      /\ IsFiniteSet({"main"} \X ClosesAhead)
  BY <1>4, <1>5, <1>6, FS_Singleton, FS_Product
<1> QED
  BY <1>7, FS_Union DEF Ahead

\* Every step of the process is one of finitely many, but for the restarts of
\* a broken session: nothing is done twice and nobody goes round in circles,
\* and from the interrupt on, when no session is restarted, only as many steps
\* are left as there are elements in Ahead.
THEOREM EveryStepCounts ==
    Spec => [](IsFiniteSet(Ahead)) /\ [][AheadShrinks \/ Restart]_vars
<1>1. TypeOK /\ OnePlace /\ NoneTwice /\ [Next]_vars => OnePlace' /\ NoneTwice'
  BY OnePlaceStep
<1>2. TypeOK /\ OnePlace /\ NoneTwice /\ [Next]_vars => [AheadShrinks \/ Restart]_vars
  BY StepShrinks
<1> QED
  BY <1>1, <1>2, AheadIsFinite, OnePlaceInit, TypeCorrect, PTL DEF Spec
=============================================================================
