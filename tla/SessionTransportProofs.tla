------------------------ MODULE SessionTransportProofs ------------------------
(***************************************************************************)
(* First the safety properties of StompSession for any number of           *)
(* goroutines and any tokens: the invariant behind them says which         *)
(* connections are open and being read at each statement, and that the     *)
(* session's right to run, held by one goroutine or by the report in       *)
(* errChan, is never held twice.  Then SessionTransport for any buffer and *)
(* any messages: it implements StompSession, whose theorems it inherits,   *)
(* the stream the STOMP library parses is the server's, and the causes     *)
(* that PanicHasCause lists are all there are.                             *)
(***************************************************************************)
EXTENDS SessionTransport, SequenceTheorems, TLAPS

\* The connections open at statement s of startMessageListener.
OpenAt(s) ==
    IF s \in {"free", "spawned", "login", "dial"} THEN {{}}
    ELSE IF s = "connect" THEN {{"ws"}}
    ELSE IF s = "close" THEN {{}, {"ws"}}
    ELSE {{"ws", "stomp"}}

CtlType ==
    /\ pc \in [Listeners -> States]
    /\ open \in [Listeners -> SUBSET {"ws", "stomp"}]
    /\ readers \in SUBSET Listeners /\ reports \in {0, 1}
    /\ main \in MainStates /\ up \in BOOLEAN /\ panicked \in BOOLEAN
OpenOK == \A a \in Listeners : open[a] \in OpenAt(pc[a])
\* The statements at which the STOMP library reads the connection for certain.
ReadAt == {"connect", "subscribe"} \cup Loop
ReadersOK == \A a \in Listeners : pc[a] \in ReadAt => a \in readers
ExitOK == main = "exited" => WgZero
IInv == CtlType /\ OpenOK /\ ReadersOK /\ OneSession /\ ExitOK

\* What follows from the invariant without another step.
LEMMA IInvImplies ==
    ASSUME IInv PROVE TypeOK /\ NoLeakedConnection /\ ExitClosesSessions
<1> USE DEF IInv, CtlType, OpenOK, OpenAt
<1>1. \A a \in Listeners : pc[a] \in Loop => open[a] = {"ws", "stomp"}
  BY DEF Loop
<1>2. \A a \in Listeners : pc[a] \in {"free", "spawned"} => open[a] = {}
  OBVIOUS
<1>3. TypeOK
  BY <1>1 DEF TypeOK, ErrChanCap, ReadersOK, ReadAt
<1>4. ExitClosesSessions
  BY <1>2 DEF ExitClosesSessions, ExitOK, WgZero
<1> QED
  BY <1>2, <1>3, <1>4 DEF NoLeakedConnection

\* main has started the first goroutine and nothing is open.
LEMMA IInvInit == ASSUME Init PROVE IInv
<1>1. CtlType /\ OpenOK /\ ReadersOK
  BY ListenerAssumption DEF Init, CtlType, States, MainStates, OpenOK, OpenAt, ReadersOK, ReadAt, Loop
<1>2. OneSession
  BY DEF Init, OneSession, Serving, Setup, Loop
<1> QED
  BY <1>1, <1>2 DEF Init, IInv, ExitOK

\* A goroutine goes on from one statement of the session to the next, with the
\* connections that belong to it, and the session stays its own.
LEMMA ServingStep ==
    ASSUME IInv, Alive, NEW a \in Listeners, Serving(a),
           NEW s \in Setup \cup Loop, Goto(a, s),
           NEW o \in OpenAt(s), open' = [open EXCEPT ![a] = o],
           readers' \in SUBSET Listeners, readers \subseteq readers',
           s \in ReadAt => a \in readers',
           UNCHANGED <<reports, main, panicked>>, up' \in BOOLEAN
    PROVE  IInv'
<1>1. CtlType'
  BY DEF IInv, CtlType, Goto, States, OpenAt, Setup, Loop
<1>2. OpenOK'
  BY DEF IInv, CtlType, OpenOK, Goto
<1>3. OneSession'
  BY DEF IInv, CtlType, OneSession, Serving, Goto
<1>4. ReadersOK'
  BY DEF IInv, CtlType, ReadersOK, Goto
<1>5. ExitOK'
  BY DEF IInv, Alive, ExitOK
<1> QED
  BY <1>1, <1>2, <1>3, <1>4, <1>5 DEF IInv

\* A goroutine leaves the session, or goes on closing, with no report.
LEMMA LeavingStep ==
    ASSUME IInv, Alive, NEW a \in Listeners, pc[a] # "free",
           NEW s \in Closing \cup {"free"}, Goto(a, s),
           NEW o \in OpenAt(s), open' = [open EXCEPT ![a] = o],
           readers' \in SUBSET Listeners, readers \ {a} \subseteq readers',
           UNCHANGED <<main, panicked>>, up' \in BOOLEAN,
           \/ UNCHANGED reports
           \/ Serving(a) /\ reports' = 1
    PROVE  IInv'
<1>1. CtlType'
  BY DEF IInv, CtlType, Goto, States, OpenAt, Closing
<1>2. OpenOK'
  BY DEF IInv, CtlType, OpenOK, Goto
<1>3. ~Serving(a)' /\ \A b \in Listeners \ {a} : Serving(b)' => Serving(b)
  BY DEF IInv, CtlType, Serving, Goto, Closing, Setup, Loop
<1>4. OneSession'
  BY <1>3 DEF IInv, OneSession
<1>5. ReadersOK'
  BY DEF IInv, CtlType, ReadersOK, ReadAt, Loop, Closing, Goto
<1>6. ExitOK'
  BY DEF IInv, Alive, ExitOK
<1> QED
  BY <1>1, <1>2, <1>4, <1>5, <1>6 DEF IInv

\* No goroutine of a session moves.
LEMMA MainStep ==
    ASSUME IInv, UNCHANGED <<pc, open, readers, reports>>, up' \in BOOLEAN,
           main' \in MainStates, panicked' \in BOOLEAN, ExitOK'
    PROVE  IInv'
BY DEF IInv, CtlType, OpenOK, ReadersOK, OneSession, Serving

\* A set-up step that succeeds moves the session on; one that fails leaves it
\* by the closes deferred so far.
LEMMA SetupStep ==
    ASSUME IInv, NEW a \in Listeners, SetupOk(a) \/ SetupFails(a) PROVE IInv'
<1>1. Serving(a) /\ Alive /\ up' \in BOOLEAN
  BY DEF SetupOk, SetupFails, Serving, IInv, CtlType
<1>2. open[a] \in OpenAt(pc[a]) /\ open \in [Listeners -> SUBSET {"ws", "stomp"}]
  BY DEF IInv, OpenOK, CtlType
<1>3. CASE SetupOk(a)
  <2> DEFINE s == SetupNext(pc[a])
             o == open[a] \cup Opens(pc[a])
  <2>1. pc[a] \in {"dial", "connect", "subscribe"}
    BY <1>3 DEF SetupOk, Setup
  <2>2. s \in Setup \cup Loop /\ o \in OpenAt(s)
    BY <1>2, <2>1 DEF SetupNext, Opens, OpenAt, Setup, Loop
  <2>3. Goto(a, s) /\ open' = [open EXCEPT ![a] = o] /\ UNCHANGED <<reports, main, panicked>>
    BY <1>3 DEF SetupOk
  <2>4. readers' \in SUBSET Listeners /\ readers \subseteq readers' /\ a \in readers'
    BY <1>3, <2>1 DEF SetupOk, IInv, CtlType, ReadersOK, ReadAt
  <2> HIDE DEF s, o
  <2> QED
    BY <1>1, <2>2, <2>3, <2>4, ServingStep
<1>4. CASE SetupFails(a)
  <2> DEFINE s == OnError(pc[a])
  <2>1. pc[a] \in {"login", "dial", "connect", "subscribe"}
    BY <1>4 DEF SetupFails, Setup
  <2>2. s \in Closing \cup {"free"} /\ open[a] \in OpenAt(s) /\ pc[a] # "free"
    BY <1>2, <2>1 DEF OnError, OpenAt, Closing
  <2>3. Goto(a, s) /\ open' = [open EXCEPT ![a] = open[a]] /\ UNCHANGED <<reports, main, panicked>>
    BY <1>2, <1>4 DEF SetupFails
  <2>4. readers' \in SUBSET Listeners /\ readers \ {a} \subseteq readers'
    BY <1>4 DEF SetupFails, IInv, CtlType
  <2> HIDE DEF s
  <2> QED
    BY <1>1, <2>2, <2>3, <2>4, LeavingStep
<1> QED
  BY <1>3, <1>4

\* The login, whose token main slices for the log.
LEMMA LoginStep ==
    ASSUME IInv, NEW a \in Listeners, NEW t \in TokenLengths, LoginOk(a, t) PROVE IInv'
<1>1. Serving(a) /\ Alive /\ open[a] = {}
  BY DEF LoginOk, At, Serving, Setup, IInv, OpenOK, OpenAt
<1>2. CASE TokenTooShort(t)
  <2>1. UNCHANGED <<pc, open, readers, reports, main, up>> /\ panicked' = TRUE
    BY <1>2 DEF LoginOk
  <2>2. ExitOK'
    BY <2>1 DEF IInv, ExitOK, WgZero
  <2> QED
    BY <2>1, <2>2, MainStep DEF IInv, CtlType
<1>3. CASE ~TokenTooShort(t)
  <2>1. /\ Goto(a, "dial") /\ open' = [open EXCEPT ![a] = {}]
        /\ UNCHANGED <<readers, reports, main, up, panicked>>
    BY <1>1, <1>3 DEF LoginOk, IInv, CtlType
  <2>2. /\ "dial" \in Setup \cup Loop /\ {} \in OpenAt("dial") /\ up' \in BOOLEAN
        /\ "dial" \notin ReadAt /\ readers' \in SUBSET Listeners
    BY <2>1 DEF Setup, OpenAt, ReadAt, Loop, IInv, CtlType
  <2> QED
    BY <1>1, <2>1, <2>2, ServingStep
<1> QED
  BY <1>2, <1>3

\* The other steps of a goroutine that is in the session.
LEMMA LoopStep ==
    ASSUME IInv, NEW a \in Listeners,
           Enter(a) \/ Receive(a) \/ SessionBreaks(a) \/ Forward(a)
    PROVE  IInv'
<1>1. PICK s \in {"login", "forward", "report", "listen"} :
          /\ Goto(a, s) /\ UNCHANGED <<open, readers, reports, main, up, panicked>>
          /\ pc[a] \in (IF s = "login" THEN {"spawned"} ELSE Loop)
  BY DEF Enter, Receive, SessionBreaks, Forward, At, Loop
<1>2. Alive
  BY DEF Enter, Receive, SessionBreaks, Forward, At
<1>3. Serving(a) /\ s \in Setup \cup Loop /\ open[a] \in OpenAt(s)
  BY <1>1 DEF Serving, Setup, Loop, IInv, OpenOK, OpenAt
<1>4. open' = [open EXCEPT ![a] = open[a]] /\ up' \in BOOLEAN /\ readers' \in SUBSET Listeners
  BY <1>1 DEF IInv, CtlType
<1>5. s \in ReadAt => a \in readers'
  BY <1>1 DEF IInv, ReadersOK, ReadAt, Loop
<1> QED
  BY <1>1, <1>2, <1>3, <1>4, <1>5, ServingStep

\* Report fills errChan as the goroutine leaves the session.
LEMMA TeardownStep ==
    ASSUME IInv, NEW a \in Listeners,
           SeeCtxDone(a) \/ Report(a) \/ Disconnect(a) \/ Close(a)
    PROVE  IInv'
<1>0. Alive /\ up' \in BOOLEAN /\ UNCHANGED <<main, panicked, readers>> /\ readers \in SUBSET Listeners
  BY DEF SeeCtxDone, Report, Disconnect, Close, At, IInv, CtlType
<1>1. CASE SeeCtxDone(a) \/ Report(a)
  <2>1. Serving(a) /\ pc[a] # "free" /\ open[a] \in OpenAt("disconnect")
    BY <1>1 DEF SeeCtxDone, Report, At, Serving, Loop, IInv, OpenOK, OpenAt
  <2>2. Goto(a, "disconnect") /\ open' = [open EXCEPT ![a] = open[a]]
    BY <1>1 DEF SeeCtxDone, Report, IInv, CtlType
  <2>3. reports' = reports \/ reports' = 1
    BY <1>1, <2>1 DEF SeeCtxDone, Report, IInv, OneSession
  <2> QED
    BY <1>0, <2>1, <2>2, <2>3, LeavingStep DEF Closing
<1>2. CASE Disconnect(a)
  <2>1. PICK o \in SUBSET {"ws"} : open' = [open EXCEPT ![a] = o]
    BY <1>2 DEF Disconnect
  <2>2. Goto(a, "close") /\ o \in OpenAt("close") /\ pc[a] # "free" /\ UNCHANGED reports
    BY <1>2 DEF Disconnect, At, OpenAt
  <2> QED
    BY <1>0, <2>1, <2>2, LeavingStep DEF Closing
<1>3. CASE Close(a)
  <2>1. open[a] \in {{}, {"ws"}} /\ pc[a] # "free"
    BY <1>3 DEF Close, At, IInv, OpenOK, OpenAt
  <2>2. open' = [open EXCEPT ![a] = {}] /\ Goto(a, "free") /\ UNCHANGED reports
    BY <1>3, <2>1 DEF Close
  <2>3. {} \in OpenAt("free")
    BY DEF OpenAt
  <2> QED
    BY <1>0, <2>1, <2>2, <2>3, LeavingStep
<1> QED
  BY <1>1, <1>2, <1>3

\* main hands the session on to the goroutine it starts.
LEMMA RestartStep == ASSUME IInv, NEW a \in Listeners, Restart(a) PROVE IInv'
<1>1. reports = 1 /\ reports' = 0 /\ \A b \in Listeners : ~Serving(b)
  BY DEF Restart, IInv, CtlType, OneSession
<1>2. CtlType'
  BY <1>1 DEF Restart, Goto, IInv, CtlType, States
<1>3. OpenOK' /\ ReadersOK'
  BY DEF Restart, Goto, IInv, CtlType, OpenOK, OpenAt, ReadersOK, ReadAt, Loop
<1>4. \A b \in Listeners \ {a} : ~Serving(b)'
  BY <1>1 DEF Restart, Goto, IInv, CtlType, Serving
<1>5. OneSession'
  BY <1>1, <1>4 DEF OneSession
<1>6. ExitOK'
  BY DEF Restart, Alive, IInv, ExitOK
<1> QED
  BY <1>2, <1>3, <1>5, <1>6 DEF IInv

\* Every step of the system keeps the invariant: one case per action.
LEMMA IInvStep == ASSUME IInv, [Next]_vars PROVE IInv'
<1>1. CASE UNCHANGED vars \/ Terminated
  <2>1. UNCHANGED vars
    BY <1>1 DEF Terminated
  <2> QED
    BY <2>1 DEF vars, IInv, CtlType, OpenOK, ReadersOK, OneSession, Serving, ExitOK, WgZero
<1>2. CASE ServerChanges
  BY <1>2, MainStep DEF ServerChanges, IInv, CtlType, ExitOK, WgZero
<1>3. ASSUME NEW a \in Listeners, Own(a) PROVE IInv'
  <2>1. CASE SendPanics(a)
    BY <2>1, MainStep DEF SendPanics, IInv, CtlType, ExitOK, WgZero
  <2> QED
    BY <1>3, <2>1, LoginStep, SetupStep, LoopStep, TeardownStep DEF Own
<1>4. CASE Interrupt \/ CloseRaw \/ CloseErr \/ MainReturn
  <2>1. UNCHANGED <<pc, open, readers, reports, up, panicked>>
    BY <1>4 DEF Interrupt, CloseRaw, CloseErr, MainReturn, MainGoto
  <2>2. main' \in MainStates
    BY <1>4 DEF Interrupt, CloseRaw, CloseErr, MainReturn, MainGoto, MainStates
  <2>3. ExitOK'
    BY <1>4, <2>1 DEF Interrupt, CloseRaw, CloseErr, MainReturn, MainGoto, ExitOK, WgZero
  <2> QED
    BY <2>1, <2>2, <2>3, MainStep DEF IInv, CtlType
<1>5. CASE ReaderPanics
  BY <1>5, MainStep DEF ReaderPanics, IInv, CtlType, ExitOK, WgZero
<1>6. ASSUME NEW a \in Listeners, ReaderGone(a) PROVE IInv'
  BY <1>6 DEF ReaderGone, At, IInv, CtlType, OpenOK, ReadersOK, ReadAt, Loop, OneSession, Serving,
              ExitOK, WgZero
<1> QED
  BY <1>1, <1>2, <1>3, <1>4, <1>5, <1>6, SetupStep, LoopStep, RestartStep DEF Next, Shutdown

\* The invariant holds for ever.
LEMMA Invariance == Spec => []IInv
<1>1. IInv /\ [Next]_vars => IInv'
  BY IInvStep
<1> QED
  BY <1>1, IInvInit, PTL DEF Spec

\* Whatever the server does, the listener's loop has both connections open.
THEOREM TypeCorrect == Spec => []TypeOK
BY Invariance, IInvImplies, PTL

\* No two goroutines ever serve the session, and a report never waits for room
\* in errChan, for any number of restarts.
THEOREM OneSessionAtATime == Spec => []OneSession
<1>1. IInv => OneSession
  BY DEF IInv
<1> QED
  BY <1>1, Invariance, PTL

\* startMessageListener never returns with a connection open.
THEOREM NothingLeaks == Spec => []NoLeakedConnection
BY Invariance, IInvImplies, PTL

\* main returns only after every session it started has been closed.
THEOREM ExitIsClean == Spec => []ExitClosesSessions
BY Invariance, IInvImplies, PTL
-----------------------------------------------------------------------------
(* The transport.                                                          *)

\* At most one connection is followed, and only while it may be read.
FollowOK ==
    /\ followed \subseteq readers /\ \A a, b \in followed : a = b
    /\ conn # "none" <=> followed # {}

\* No connection has been opened at the start.
LEMMA FollowInit == ASSUME TInit PROVE FollowOK
BY DEF TInit, Init, T!Init, FollowOK

\* A goroutine changes nobody's reader but its own.
LEMMA OwnReader ==
    ASSUME NEW a \in Listeners,
           Own(a) \/ Sets(a) \/ Forward(a) \/ Restart(a) \/ ReaderGone(a)
    PROVE  readers \ {a} \subseteq readers'
BY DEF Own, Enter, LoginOk, SetupFails, SeeCtxDone, Report, SendPanics, Disconnect, Close,
       Sets, SetupOk, Forward, Restart, ReaderGone

\* The followed connection goes with the reader of the goroutine that steps.
LEMMA FollowKeeps ==
    ASSUME FollowOK, NEW a, readers \ {a} \subseteq readers', Follow(a) PROVE FollowOK'
<1>1. CASE Begins(a) /\ followed' = {a} /\ T!Open
  BY <1>1 DEF Begins, T!Open, T!Renew, FollowOK
<1>2. CASE Shuts(a) /\ UNCHANGED followed /\ T!Breaks
  BY <1>2 DEF Shuts, T!Breaks, FollowOK
<1>3. CASE Leaves(a) /\ followed' = {} /\ T!Drop
  BY <1>3 DEF T!Drop, T!Renew, FollowOK
<1>4. CASE ~Leaves(a) /\ UNCHANGED <<followed, stream>>
  BY <1>4 DEF Leaves, stream, FollowOK
<1> QED
  BY <1>1, <1>2, <1>3, <1>4 DEF Follow

\* Every step keeps it so.
LEMMA FollowStep == ASSUME FollowOK, [TNext]_allVars PROVE FollowOK'
<1>1. CASE UNCHANGED <<readers, followed, conn>>
  BY <1>1 DEF FollowOK
<1>2. ASSUME NEW a \in Listeners, Hear(a) \/ HearUnfollowed(a) PROVE FollowOK'
  <2>1. UNCHANGED <<readers, followed, conn>>
    BY <1>2 DEF Hear, HearUnfollowed, Receive, SessionBreaks, vars, T!Take, T!TakeError, T!stream, stream
  <2> QED
    BY <1>1, <2>1
<1>3. ASSUME NEW a \in Listeners,
             \/ (Own(a) \/ Sets(a) \/ Forward(a) \/ Restart(a)) /\ Follow(a)
             \/ Forgets(a)
      PROVE  FollowOK'
  BY <1>3, OwnReader, FollowKeeps DEF Forgets
<1>4. CASE Reads
  BY <1>1, <1>4 DEF Reads, T!ReadMessage, T!ReadBroken, T!stream
<1>5. CASE Network
  <2>1. UNCHANGED <<readers, followed>> /\ conn # "none" /\ conn' # "none"
    BY <1>5 DEF Network, T!ServerSends, T!Breaks, T!LibraryEnds
  <2> QED
    BY <2>1 DEF FollowOK
<1>6. CASE ServerChanges /\ UNCHANGED <<followed, stream>>
  BY <1>1, <1>6 DEF ServerChanges, stream
<1>7. CASE (Interrupt \/ Shutdown) /\ UNCHANGED <<followed, stream>>
  BY <1>1, <1>7 DEF Interrupt, Shutdown, CloseRaw, CloseErr, MainReturn, MainGoto, stream
<1>8. CASE UNCHANGED allVars
  BY <1>1, <1>8 DEF allVars, vars, stream
<1> QED
  BY <1>2, <1>3, <1>4, <1>5, <1>6, <1>7, <1>8 DEF TNext

\* Every step is one of the session, or one it does not see.
LEMMA StepMaps == ASSUME FollowOK, [TNext]_allVars PROVE [Next]_vars
<1>1. CASE Reads
  <2>1. Alive /\ conn # "none" /\ UNCHANGED <<pc, open, readers, reports, main, up>>
    BY <1>1 DEF Reads, T!ReadMessage, T!ReadBroken, T!Reading
  <2>2. panicked' = TRUE \/ UNCHANGED panicked
    BY <1>1 DEF Reads, T!ReadMessage, T!ReadBroken
  <2>3. readers # {}
    BY <2>1 DEF FollowOK
  <2> QED
    BY <2>1, <2>2, <2>3 DEF ReaderPanics, Next, vars
<1>2. CASE Network
  BY <1>2 DEF Network, T!ServerSends, T!Breaks, T!LibraryEnds, vars
<1>3. CASE UNCHANGED allVars
  BY <1>3 DEF allVars
<1>4. ASSUME NEW a \in Listeners, Hear(a) \/ HearUnfollowed(a) \/ Sets(a) \/ Forgets(a)
      PROVE [Next]_vars
  BY <1>4 DEF Hear, HearUnfollowed, Sets, Forgets, Next
<1> QED
  BY <1>1, <1>2, <1>3, <1>4 DEF TNext, Next

\* The session over its transport is the session of StompSession, whose readers
\* may panic from stomp.Connect on.
THEOREM ImplementsSession == TSpec => Spec
<1>1. TInit => Init /\ FollowOK
  BY FollowInit DEF TInit
<1>2. FollowOK /\ [TNext]_allVars => FollowOK' /\ [Next]_vars
  BY FollowStep, StepMaps
<1> QED
  BY <1>1, <1>2, PTL DEF TSpec, Spec

\* What StompSession promises, its transport included.
THEOREM InheritedSafety ==
    TSpec => [](OneSession /\ NoLeakedConnection /\ ExitClosesSessions)
BY ImplementsSession, OneSessionAtATime, NothingLeaks, ExitIsClean, PTL
-----------------------------------------------------------------------------
(* The stream.                                                             *)

\* The messages that have arrived continue what is parsed and buffered, and,
\* while the connection works, reach to the last byte sent.
EndOf(m) == m.from + m.len
Continues ==
    /\ wire # <<>> => wire[1].from = taken + Len(buf)
    /\ \A j \in 1 .. Len(wire) - 1 : wire[j + 1].from = EndOf(wire[j])
Reaches == sent = IF wire = <<>> THEN taken + Len(buf) ELSE EndOf(wire[Len(wire)])
StreamOK == T!StreamType /\ T!StreamIntact /\ Continues /\ (conn = "up" => Reaches)

\* A connection without a byte.
LEMMA StreamNew ==
    ASSUME T!Open \/ T!Drop PROVE StreamOK'
<1>1. /\ conn' \in {"none", "up"} /\ wire' = <<>> /\ sent' = 0 /\ buf' = <<>> /\ taken' = 0
      /\ inBody' = FALSE /\ empties' = 0 /\ inbox' = 0 /\ ended' = FALSE /\ stopped' = FALSE
  BY DEF T!Open, T!Drop, T!Renew
<1>2. T!StreamType'
  <2>1. <<>> \in Seq(T!Messages) /\ <<>> \in Seq(Nat) /\ Len(<<>>) = 0
    OBVIOUS
  <2>2. 0 < BufSize /\ 0 \in 0 .. InboxCap
    BY BufSizeAssumption, LimitAssumption
  <2> QED
    BY <1>1, <2>1, <2>2 DEF T!StreamType
<1>3. T!StreamIntact'
  BY <1>1 DEF T!StreamIntact
<1>4. Continues' /\ Reaches'
  BY <1>1 DEF Continues, Reaches
<1> QED
  BY <1>2, <1>3, <1>4 DEF StreamOK

\* A message that fits is appended to the buffer byte by byte.
LEMMA ReadFits ==
    ASSUME NEW m \in T!Messages, NEW room \in Nat, m.len <= room
    PROVE  /\ T!Read(room, m).n = m.len
           /\ SubSeq(T!Read(room, m).p, 1, m.len) \in Seq(Nat)
           /\ Len(SubSeq(T!Read(room, m).p, 1, m.len)) = m.len
           /\ \A i \in 1 .. m.len : SubSeq(T!Read(room, m).p, 1, m.len)[i] = m.from + i
<1>1. m.len \in Nat /\ m.from \in Nat /\ T!Least(room, m.len) = m.len
  BY DEF T!Messages, T!Least
<1>2. T!Bytes(m) \in Seq(Nat) /\ Len(T!Bytes(m)) = m.len
  BY <1>1 DEF T!Bytes
<1>3. T!Read(room, m).n = m.len /\ T!Read(room, m).p = SubSeq(T!Bytes(m), 1, m.len)
  BY <1>1 DEF T!Read
<1>4. \A i \in 1 .. m.len : T!Bytes(m)[i] = m.from + i
  BY <1>1 DEF T!Bytes
<1>5. SubSeq(T!Bytes(m), 1, m.len) = T!Bytes(m)
  BY <1>1, <1>2, SubSeqFull
<1> QED
  BY <1>2, <1>3, <1>4, <1>5

\* Whatever the parser leaves of it, what it took and what is buffered go on
\* one after the other.
LEMMA ParseKeeps ==
    ASSUME NEW b \in Seq(Nat), NEW m \in T!Messages, Len(b) <= BufSize,
           \A i \in 1 .. Len(b) : b[i] = taken + i,
           taken \in Nat, inbox \in Nat, T!Parse(b, m)
    PROVE  /\ taken' \in Nat /\ buf' \in Seq(Nat) /\ Len(buf') < BufSize
           /\ taken' + Len(buf') = taken + Len(b)
           /\ T!StreamIntact'
           /\ inBody' \in BOOLEAN /\ inbox' \in {inbox, inbox + 1}
<1> DEFINE begun == IF m.rest < m.len THEN T!Least(m.rest, Len(b)) ELSE Len(b)
           left == IF m.body \/ begun = BufSize THEN 0 ELSE begun
<1>1. begun \in 0 .. Len(b)
  BY DEF T!Least, T!Messages
<1>2. left \in 0 .. Len(b) /\ left < BufSize
  BY <1>1, BufSizeAssumption
<1>3. /\ taken' = taken + Len(b) - left
      /\ buf' = SubSeq(b, Len(b) - left + 1, Len(b))
      /\ inBody' = m.body /\ inbox' \in {inbox, inbox + 1}
  BY DEF T!Parse
<1> HIDE DEF left, begun
<1>4. buf' \in Seq(Nat) /\ Len(buf') = left
  BY <1>2, <1>3
<1>5. \A i \in 1 .. left : buf'[i] = taken' + i
  BY <1>2, <1>3
<1>6. T!StreamIntact'
  BY <1>4, <1>5 DEF T!StreamIntact
<1>7. taken' \in Nat /\ taken' + Len(buf') = taken + Len(b)
  <2>1. Len(b) \in Nat /\ left \in Nat /\ left <= Len(b)
    BY <1>2
  <2>2. taken' = taken + Len(b) - left /\ Len(buf') = left
    BY <1>3, <1>4
  <2> QED
    BY <2>1, <2>2
<1>8. inBody' \in BOOLEAN
  BY <1>3 DEF T!Messages
<1> QED
  BY <1>2, <1>3, <1>4, <1>6, <1>7, <1>8

\* Two stretches of the stream, one after the other, are a stretch of it.
LEMMA StretchesJoin ==
    ASSUME NEW s \in Seq(Nat), NEW r \in Seq(Nat), NEW k \in Nat,
           \A i \in 1 .. Len(s) : s[i] = k + i,
           \A i \in 1 .. Len(r) : r[i] = k + Len(s) + i
    PROVE  /\ s \o r \in Seq(Nat) /\ Len(s \o r) = Len(s) + Len(r)
           /\ \A i \in 1 .. Len(s \o r) : (s \o r)[i] = k + i
<1>1. /\ s \o r \in Seq(Nat) /\ Len(s \o r) = Len(s) + Len(r)
      /\ Len(s) \in Nat /\ Len(r) \in Nat
      /\ \A i \in 1 .. Len(s) + Len(r) : (s \o r)[i] = IF i <= Len(s) THEN s[i] ELSE r[i - Len(s)]
  BY ConcatProperties, LenProperties
<1> DEFINE b == s \o r
<1> HIDE DEF b
<1>2. ASSUME NEW i \in 1 .. Len(s) + Len(r) PROVE b[i] = k + i
  <2>1. CASE i <= Len(s)
    BY <1>1, <2>1 DEF b
  <2>2. CASE i > Len(s)
    <3>1. i - Len(s) \in 1 .. Len(r) /\ b[i] = r[i - Len(s)]
      BY <1>1, <2>2 DEF b
    <3>2. b[i] = k + Len(s) + (i - Len(s))
      BY <3>1
    <3> QED
      BY <1>1, <3>2
  <2> QED
    BY <1>1, <2>1, <2>2
<1> QED
  BY <1>1, <1>2 DEF b

\* Reading a message that fits moves what it holds from the wire to the buffer
\* and on to the parser; one that does not fit ends the process.
LEMMA ReadStep == ASSUME StreamOK, T!ReadMessage PROVE StreamOK'
<1> DEFINE m == Head(wire)
           b == buf \o SubSeq(T!Read(T!Room, m).p, 1, m.len)
<1>1. /\ wire # <<>> /\ wire \in Seq(T!Messages) /\ m \in T!Messages /\ m = wire[1]
      /\ buf \in Seq(Nat) /\ taken \in Nat /\ T!Room \in Nat /\ inbox \in Nat /\ inbox < InboxCap
  BY BufSizeAssumption, LimitAssumption
     DEF T!ReadMessage, T!Reading, T!Room, StreamOK, T!StreamType
<1>2. CASE T!Read(T!Room, m).n > T!Room
  BY <1>2 DEF T!ReadMessage, T!stream, StreamOK, T!StreamType, T!StreamIntact, Continues, Reaches
<1>3. CASE ~(T!Read(T!Room, m).n > T!Room)
  <2>1. T!Read(T!Room, m).n = m.len
    BY DEF T!Read
  <2>2. m.len <= T!Room /\ m.len \in Nat /\ m.from = taken + Len(buf)
    BY <1>1, <1>3, <2>1 DEF T!Messages, StreamOK, Continues
  <2>3. /\ b \in Seq(Nat) /\ Len(b) = Len(buf) + m.len
        /\ \A i \in 1 .. Len(b) : b[i] = taken + i
    <3> DEFINE r == SubSeq(T!Read(T!Room, m).p, 1, m.len)
    <3>1. r \in Seq(Nat) /\ Len(r) = m.len /\ \A i \in 1 .. m.len : r[i] = taken + Len(buf) + i
      BY <1>1, <2>2, ReadFits
    <3>2. \A i \in 1 .. Len(buf) : buf[i] = taken + i
      BY <1>1, LenProperties DEF StreamOK, T!StreamIntact
    <3> HIDE DEF r
    <3>3. b = buf \o r
      BY DEF r
    <3>4. \A i \in 1 .. Len(r) : r[i] = taken + Len(buf) + i
      BY <3>1
    <3> HIDE DEF b, m
    <3>5. /\ b \in Seq(Nat) /\ Len(b) = Len(buf) + Len(r)
          /\ \A i \in 1 .. Len(b) : b[i] = taken + i
      BY <1>1, <3>1, <3>2, <3>3, <3>4, StretchesJoin, Zenon
    <3> QED
      BY <3>1, <3>5
  <2>4. Len(b) <= BufSize
    BY <1>1, <2>2, <2>3, BufSizeAssumption DEF T!Room
  <2>5. /\ T!Parse(b, m) /\ wire' = Tail(wire) /\ empties' = 0
        /\ UNCHANGED <<conn, sent, ended, stopped, panicked>>
    BY <1>3, <2>1 DEF T!ReadMessage
  <2> HIDE DEF b
  <2> HIDE DEF m
  <2>6. /\ taken' \in Nat /\ buf' \in Seq(Nat) /\ Len(buf') < BufSize
        /\ taken' + Len(buf') = EndOf(m) /\ T!StreamIntact'
        /\ inBody' \in BOOLEAN /\ inbox' \in {inbox, inbox + 1}
    <3>1. /\ taken' \in Nat /\ buf' \in Seq(Nat) /\ Len(buf') < BufSize
          /\ taken' + Len(buf') = taken + Len(b) /\ T!StreamIntact'
          /\ inBody' \in BOOLEAN /\ inbox' \in {inbox, inbox + 1}
      BY <1>1, <2>3, <2>4, <2>5, ParseKeeps
    <3>2. EndOf(m) = taken + Len(buf) + m.len
      BY <2>2 DEF EndOf
    <3>3. taken + Len(b) = EndOf(m)
      BY <1>1, <2>2, <2>3, <3>2
    <3> QED
      BY <3>1, <3>3
  <2>7. T!StreamType'
    BY <1>1, <2>5, <2>6, LimitAssumption DEF StreamOK, T!StreamType
  <2>8. Continues' /\ (conn' = "up" => Reaches')
    <3>1. Len(wire') = Len(wire) - 1 /\ \A j \in 1 .. Len(wire') : wire'[j] = wire[j + 1]
      BY <1>1, <2>5
    <3>2. wire' # <<>> => wire'[1].from = taken' + Len(buf')
      BY <1>1, <2>5, <2>6, <3>1 DEF StreamOK, Continues
    <3>3. \A j \in 1 .. Len(wire') - 1 : wire'[j + 1].from = EndOf(wire'[j])
      BY <1>1, <2>5, <3>1 DEF StreamOK, Continues
    <3>4. conn' = "up" => Reaches'
      <4>1. wire' = <<>> => Len(wire) = 1
        <5>1. Len(wire) \in Nat /\ (wire' = <<>> => Len(wire') = 0)
          BY <1>1
        <5> QED
          BY <3>1, <5>1
      <4>2. wire' # <<>> => wire'[Len(wire')] = wire[Len(wire)]
        <5>1. wire' \in Seq(T!Messages) /\ Len(wire) \in Nat
          BY <1>1, <2>5
        <5>2. wire' # <<>> => Len(wire') \in 1 .. Len(wire')
          BY <5>1
        <5>3. Len(wire') + 1 = Len(wire)
          BY <3>1, <5>1
        <5> QED
          BY <3>1, <5>2, <5>3
      <4> QED
        BY <1>1, <2>5, <2>6, <4>1, <4>2 DEF StreamOK, Reaches
    <3> QED
      BY <3>2, <3>3, <3>4 DEF Continues, EndOf
  <2> QED
    BY <2>6, <2>7, <2>8 DEF StreamOK
<1> QED
  BY <1>2, <1>3

\* The server goes on where it stopped, and a break cuts the messages short.
LEMMA NetworkStep ==
    ASSUME StreamOK, T!ServerSends \/ T!Breaks \/ T!LibraryEnds PROVE StreamOK'
<1>1. /\ wire \in Seq(T!Messages) /\ buf \in Seq(Nat) /\ taken \in Nat /\ sent \in Nat
      /\ T!StreamType /\ T!StreamIntact /\ Continues
  BY DEF StreamOK, T!StreamType
<1>2. UNCHANGED <<buf, taken, inBody, empties, inbox>> /\ T!StreamIntact'
  BY <1>1 DEF T!ServerSends, T!Breaks, T!LibraryEnds, T!StreamIntact
<1>3. CASE T!ServerSends
  <2>1. PICK m \in T!Messages :
          m.from = sent /\ sent' = sent + m.len /\ wire' = Append(wire, m)
    <3>1. PICK len \in Lengths, body \in BOOLEAN : \E rest \in 0 .. (IF body THEN 0 ELSE len) :
            /\ sent' = sent + len
            /\ wire' = Append(wire, [from |-> sent, len |-> len, rest |-> rest, body |-> body])
      BY <1>3 DEF T!ServerSends
    <3>2. PICK rest \in 0 .. (IF body THEN 0 ELSE len) :
            /\ sent' = sent + len
            /\ wire' = Append(wire, [from |-> sent, len |-> len, rest |-> rest, body |-> body])
      BY <3>1
    <3>3. len \in Nat /\ rest \in Nat
      BY LengthAssumption
    <3> DEFINE m == [from |-> sent, len |-> len, rest |-> rest, body |-> body]
    <3>4. m \in T!Messages
      BY <1>1, <3>3 DEF T!Messages
    <3> QED
      BY <3>2, <3>4
  <2>2. Reaches /\ conn = "up" /\ UNCHANGED <<conn, ended, stopped>> /\ m.len \in Nat
    BY <1>3, <2>1 DEF T!ServerSends, StreamOK, T!Messages
  <2>3. /\ wire' \in Seq(T!Messages) /\ Len(wire') = Len(wire) + 1 /\ Len(wire) \in Nat
        /\ wire'[Len(wire) + 1] = m /\ \A j \in 1 .. Len(wire) : wire'[j] = wire[j]
    BY <1>1, <2>1
  <2>4. T!StreamType'
    BY <1>1, <1>2, <2>1, <2>2, <2>3 DEF T!StreamType
  <2>5. Continues'
    <3>1. wire'[1].from = taken' + Len(buf')
      <4>1. CASE wire = <<>>
        BY <1>2, <2>1, <2>2, <2>3, <4>1 DEF Reaches
      <4>2. CASE wire # <<>>
        BY <1>1, <1>2, <2>3, <4>2 DEF Continues
      <4> QED
        BY <4>1, <4>2
    <3>2. ASSUME NEW j \in 1 .. Len(wire') - 1 PROVE wire'[j + 1].from = EndOf(wire'[j])
      <4>1. CASE j < Len(wire)
        BY <1>1, <2>3, <4>1 DEF Continues
      <4>2. CASE j = Len(wire)
        <5>1. wire # <<>> /\ wire'[j] = wire[Len(wire)] /\ wire'[j + 1] = m
          BY <1>1, <2>3, <4>2
        <5> QED
          BY <2>1, <2>2, <5>1 DEF Reaches
      <4> QED
        BY <2>3, <4>1, <4>2
    <3> QED
      BY <3>1, <3>2 DEF Continues, EndOf
  <2>6. Reaches'
    BY <2>1, <2>3 DEF Reaches, EndOf
  <2> QED
    BY <1>2, <2>4, <2>5, <2>6 DEF StreamOK
<1>4. CASE T!Breaks
  <2>1. PICK n \in 0 .. Len(wire) : wire' = SubSeq(wire, 1, n)
    BY <1>4 DEF T!Breaks
  <2>2. /\ wire' \in Seq(T!Messages) /\ Len(wire') = n /\ n \in Nat /\ n <= Len(wire)
        /\ Len(wire) \in Nat /\ \A j \in 1 .. n : wire'[j] = wire[j]
    BY <1>1, <2>1
  <2>3. conn' = "broken" /\ UNCHANGED <<sent, ended, stopped>>
    BY <1>4 DEF T!Breaks
  <2>4. T!StreamType'
    BY <1>1, <1>2, <2>2, <2>3 DEF T!StreamType
  <2>5. Continues'
    <3>1. wire' # <<>> => wire'[1].from = taken' + Len(buf')
      <4>1. wire' # <<>> => 1 \in 1 .. n /\ wire # <<>>
        BY <1>1, <2>2
      <4> QED
        BY <1>1, <1>2, <2>2, <4>1 DEF Continues
    <3>2. \A j \in 1 .. Len(wire') - 1 : wire'[j + 1].from = EndOf(wire'[j])
      BY <1>1, <2>2 DEF Continues
    <3> QED
      BY <3>1, <3>2 DEF Continues, EndOf
  <2> QED
    BY <1>2, <2>3, <2>4, <2>5 DEF StreamOK
<1>5. CASE T!LibraryEnds
  BY <1>1, <1>2, <1>5 DEF T!LibraryEnds, StreamOK, T!StreamType, Continues, Reaches
<1> QED
  BY <1>3, <1>4, <1>5

\* Every step keeps the stream.
LEMMA StreamStep == ASSUME StreamOK, [TNext]_allVars PROVE StreamOK'
<1>1. CASE UNCHANGED stream
  BY <1>1 DEF stream, StreamOK, T!StreamType, T!StreamIntact, Continues, Reaches
<1>2. ASSUME NEW a \in Listeners, Hear(a) PROVE StreamOK'
  <2>1. inbox' \in 0 .. InboxCap /\ UNCHANGED <<conn, wire, sent, buf, taken, inBody, empties, ended, stopped>>
    BY <1>2, LimitAssumption DEF Hear, T!Take, T!TakeError, T!stream, StreamOK, T!StreamType
  <2> QED
    BY <2>1 DEF StreamOK, T!StreamType, T!StreamIntact, Continues, Reaches
<1>3. ASSUME NEW a \in Listeners, Follow(a) PROVE StreamOK'
  BY <1>1, <1>3, StreamNew, NetworkStep DEF Follow
<1>4. CASE Reads
  <2>1. CASE T!ReadBroken
    <3>1. UNCHANGED <<conn, wire, sent, buf, taken, inBody, inbox>>
      BY <2>1 DEF T!ReadBroken
    <3>2. empties' \in Nat /\ ended' \in BOOLEAN /\ stopped' \in BOOLEAN
      <4>1. empties \in Nat /\ ended \in BOOLEAN /\ stopped \in BOOLEAN
        BY DEF StreamOK, T!StreamType
      <4>2. CASE empties + 1 < MaxEmpty
        BY <2>1, <4>1, <4>2 DEF T!ReadBroken
      <4>3. CASE ~(empties + 1 < MaxEmpty)
        BY <2>1, <4>1, <4>3 DEF T!ReadBroken
      <4> QED
        BY <4>2, <4>3
    <3> QED
      BY <3>1, <3>2 DEF StreamOK, T!StreamType, T!StreamIntact, Continues, Reaches
  <2> QED
    BY <1>4, <2>1, ReadStep DEF Reads
<1>5. CASE Network
  BY <1>5, NetworkStep DEF Network
<1>6. CASE UNCHANGED allVars
  BY <1>1, <1>6 DEF allVars
<1> QED
  BY <1>1, <1>2, <1>3, <1>4, <1>5, <1>6 DEF TNext, HearUnfollowed, Forgets

\* Nothing has been sent, read or delivered at the start.
LEMMA StreamInit == ASSUME TInit PROVE StreamOK
<1>1. <<>> \in Seq(T!Messages) /\ <<>> \in Seq(Nat) /\ Len(<<>>) = 0
  OBVIOUS
<1>2. 0 < BufSize /\ 0 \in 0 .. InboxCap
  BY BufSizeAssumption, LimitAssumption
<1>3. T!Init
  BY DEF TInit
<1>4. T!StreamType
  BY <1>1, <1>2, <1>3 DEF T!Init, T!StreamType
<1>5. T!StreamIntact /\ Continues /\ Reaches
  BY <1>1, <1>3 DEF T!Init, T!StreamIntact, Continues, Reaches
<1> QED
  BY <1>4, <1>5 DEF StreamOK

\* The STOMP library parses the server's bytes in their order, none missing and
\* none twice, for every buffer size and all message lengths.
THEOREM StreamIsIntact == TSpec => []StreamIntact
<1>1. StreamOK => StreamIntact
  BY DEF StreamOK, StreamIntact
<1>2. StreamOK /\ [TNext]_allVars => StreamOK'
  BY StreamStep
<1> QED
  BY <1>1, <1>2, StreamInit, PTL DEF TSpec

\* Types of the session and its transport.
THEOREM TypesCorrect == TSpec => []TypesOK
<1>1. TInit => FollowOK /\ IInv /\ StreamOK
  BY FollowInit, IInvInit, StreamInit DEF TInit
<1>2. IInv /\ FollowOK /\ StreamOK /\ [TNext]_allVars => IInv' /\ FollowOK' /\ StreamOK'
  BY FollowStep, StepMaps, IInvStep, StreamStep
<1>3. IInv /\ FollowOK /\ StreamOK => TypesOK
  BY IInvImplies DEF TypesOK, FollowOK, StreamOK
<1> QED
  BY <1>1, <1>2, <1>3, PTL DEF TSpec
-----------------------------------------------------------------------------
\* A process that has panicked does nothing more.
LEMMA Dead == ASSUME panicked, [TNext]_allVars PROVE UNCHANGED allVars
BY DEF TNext, Alive, ServerChanges, Hear, HearUnfollowed, Receive, SessionBreaks, At, Own, Enter,
       LoginOk, Sets, SetupOk, SetupFails, SeeCtxDone, Report, SendPanics, Disconnect, Close,
       Forgets, ReaderGone, Forward, Restart, Reads, Network, Interrupt, Shutdown, CloseRaw,
       CloseErr, MainReturn, MainGoto

\* panicked is a Boolean.
LEMMA PanicType == ASSUME panicked \in BOOLEAN, [TNext]_allVars PROVE panicked' \in BOOLEAN
<1>1. ASSUME NEW a \in Listeners, Own(a) PROVE panicked' \in BOOLEAN
  BY <1>1 DEF Own, Enter, LoginOk, SetupFails, SeeCtxDone, Report, SendPanics, Disconnect, Close
<1> QED
  BY <1>1 DEF TNext, ServerChanges, Hear, HearUnfollowed, Receive, SessionBreaks, Sets, SetupOk,
              SetupFails, Forgets, ReaderGone, Forward, Restart, Reads, T!ReadMessage,
              T!ReadBroken, Network, T!ServerSends, T!Breaks, T!LibraryEnds, Interrupt, Shutdown,
              CloseRaw, CloseErr, MainReturn, MainGoto, allVars, vars

\* What a goroutine of the session or main panics from.
SendsOnClosed ==
    \/ \E a \in Listeners : pc[a] = "forward" /\ RawClosed
    \/ \E a \in Listeners : pc[a] = "report" /\ ErrChanClosed
ShortToken == \E t \in TokenLengths : t < 20

\* Outside the reads, a listener panics sending on a closed channel or over a
\* short token.
LEMMA OthersPanic ==
    ASSUME ~panicked, panicked', [TNext]_allVars, ~Reads
    PROVE  SendsOnClosed' \/ ShortToken
<1>1. ASSUME NEW a \in Listeners, Own(a) PROVE SendsOnClosed' \/ ShortToken
  <2>1. CASE SendPanics(a)
    BY <2>1 DEF SendPanics, At, RawClosed, ErrChanClosed, SendsOnClosed
  <2>2. ASSUME NEW t \in TokenLengths, LoginOk(a, t) PROVE ShortToken
    BY <2>2 DEF LoginOk, TokenTooShort, ShortToken
  <2> QED
    BY <1>1, <2>1, <2>2 DEF Own, Enter, SetupFails, SeeCtxDone, Report, Disconnect, Close
<1> QED
  BY <1>1 DEF TNext, ServerChanges, Hear, HearUnfollowed, Receive, SessionBreaks, Sets, SetupOk,
              SetupFails, Forgets, ReaderGone, Forward, Restart, Network, T!ServerSends, T!Breaks,
              T!LibraryEnds, Interrupt, Shutdown, CloseRaw, CloseErr, MainReturn, MainGoto,
              allVars, vars, At

\* The reading goroutine panics over a message too long for the room it has, or
\* over a connection that broke within a body.
LEMMA ReadsPanic ==
    ASSUME ~panicked, panicked', StreamOK, Reads PROVE (T!Oversized \/ T!DiesInBody)'
<1>1. CASE T!ReadMessage
  <2>1. T!Read(T!Room, Head(wire)).n > T!Room /\ UNCHANGED T!stream /\ wire # <<>>
    BY <1>1 DEF T!ReadMessage
  <2> QED
    BY <2>1 DEF T!Read, T!Room, T!stream, T!Oversized
<1>2. CASE T!ReadBroken
  BY <1>2 DEF T!ReadBroken, T!DiesInBody
<1> QED
  BY <1>1, <1>2 DEF Reads

\* Whatever the server sends, and whenever the connection breaks or is closed
\* between stomp.Connect and the last read after the deferred closes, the
\* process panics from no other cause than the five.
THEOREM PanicsHaveCause == TSpec => []PanicHasCause
<1> DEFINE J == StreamOK /\ panicked \in BOOLEAN /\ PanicHasCause
<1>1. TInit => J
  BY StreamInit DEF TInit, Init, PanicHasCause
<1>2. J /\ [TNext]_allVars => J'
  <2> SUFFICES ASSUME J, [TNext]_allVars PROVE J'
    OBVIOUS
  <2>1. StreamOK'
    BY StreamStep
  <2>2. CASE panicked
    <3>1. UNCHANGED allVars
      BY <2>2, Dead
    <3> QED
      BY <2>1, <3>1 DEF allVars, vars, stream, PanicHasCause, RawClosed, ErrChanClosed,
                        T!Oversized, T!Room, T!DiesInBody
  <2>3. CASE ~panicked
    BY <2>1, <2>3, OthersPanic, ReadsPanic, PanicType DEF PanicHasCause, SendsOnClosed, ShortToken
  <2> QED
    BY <2>2, <2>3
<1> QED
  BY <1>1, <1>2, PTL DEF TSpec
=============================================================================
