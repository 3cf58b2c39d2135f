---------------------------- MODULE StompSession ----------------------------
(***************************************************************************)
(* The session with the ATS server: startMessageListener (main.go:280-327) *)
(* over StompClient (service/establish_service.go), the errChan of         *)
(* capacity one on which a broken session is reported, and main, which     *)
(* answers a report with a new startMessageListener five seconds later.    *)
(*                                                                         *)
(* Every call of startMessageListener runs in a goroutine of its own, and  *)
(* an old one may still be closing its connections when the next one logs  *)
(* in.  The STOMP library reads a connection from stomp.Connect until the  *)
(* read fails, which may be after the goroutine that opened it returned;   *)
(* then that goroutine leaves its name to a later call.  What becomes of a *)
(* message after RawChan is module QuotePipeline.                          *)
(***************************************************************************)
EXTENDS Integers, FiniteSets

CONSTANTS
    Listeners,      \* goroutines that may run startMessageListener at a time
    First,          \* the one main starts (main.go:234)
    TokenLengths    \* lengths of the tokens the server hands out

ASSUME ListenerAssumption == First \in Listeners
ASSUME TokenAssumption == TokenLengths \subseteq Nat

VARIABLES
    pc,         \* what each goroutine is at
    open,       \* the connections it has open: the WebSocket, STOMP over it
    readers,    \* the goroutines whose connection the STOMP library may read
    reports,    \* how many errors are in errChan
    main,       \* where main is
    up,         \* the server can be reached and accepts this client
    panicked    \* a goroutine panicked: the process is gone

vars == <<pc, open, readers, reports, main, up, panicked>>

\* A goroutine: between the go statement and wg.Add, in the four set-up steps,
\* in Subscribe's loop, in the deferred closes, returned.
Setup == {"login", "dial", "connect", "subscribe"}
Loop == {"listen", "forward", "report"}
Closing == {"disconnect", "close"}
States == {"free", "spawned"} \cup Setup \cup Loop \cup Closing
MainStates == {"select", "closeRaw", "closeErr", "wait", "exited"}

ErrChanCap == 1
CtxDone == main # "select"
RawClosed == main \in {"closeErr", "wait", "exited"}
ErrChanClosed == main \in {"wait", "exited"}

Alive == main # "exited" /\ ~panicked
At(a, s) == Alive /\ pc[a] = s
Goto(a, s) == pc' = [pc EXCEPT ![a] = s]
\* Between wg.Add and wg.Done.
WgZero == \A a \in Listeners : pc[a] \in {"free", "spawned"}

Init ==
    /\ pc = [a \in Listeners |-> IF a = First THEN "spawned" ELSE "free"]
    /\ open = [a \in Listeners |-> {}] /\ readers = {}
    /\ reports = 0 /\ main = "select" /\ panicked = FALSE
    /\ up \in BOOLEAN
-----------------------------------------------------------------------------
\* The server, and the network before it.
ServerChanges == Alive /\ up' = ~up /\ UNCHANGED <<pc, open, readers, reports, main, panicked>>

\* wg.Add(1): at once for the first goroutine, for the others after the
\* five-second sleep that the go statement of main.go:253 wraps around it.
Enter(a) == At(a, "spawned") /\ Goto(a, "login") /\ UNCHANGED <<open, readers, reports, main, up, panicked>>

\* client.Token[:20].
\* Variant: off by one.
TokenAtMostShort(t) == t <= 20
TokenTooShort(t) == t < 20

LoginOk(a, t) ==
    /\ At(a, "login") /\ up
    /\ IF TokenTooShort(t)
       THEN panicked' = TRUE /\ UNCHANGED pc
       ELSE Goto(a, "dial") /\ UNCHANGED panicked
    /\ UNCHANGED <<open, readers, reports, main, up>>

\* The next set-up step, the connection it opens, and where the goroutine goes
\* when it fails: to the closes it has deferred by then.
\* Variant: the STOMP connection is left out.
SetupNextWithoutConnect(s) == CASE s = "dial" -> "subscribe" [] s = "connect" -> "subscribe" [] s = "subscribe" -> "listen"
SetupNext(s) == CASE s = "dial" -> "connect" [] s = "connect" -> "subscribe" [] s = "subscribe" -> "listen"
Opens(s) == CASE s = "dial" -> {"ws"} [] s = "connect" -> {"stomp"} [] s = "subscribe" -> {}
\* Variant: the defer of Conn.Close comes after ConnectStomp.
OnErrorDeferLate(s) == CASE s \in {"login", "dial", "connect"} -> "free" [] s = "subscribe" -> "disconnect"
OnError(s) == CASE s \in {"login", "dial"} -> "free" [] s = "connect" -> "close" [] s = "subscribe" -> "disconnect"

SetupOk(a) ==
    /\ Alive /\ up
    /\ pc[a] \in Setup \ {"login"}
    /\ Goto(a, SetupNext(pc[a]))
    /\ open' = [open EXCEPT ![a] = @ \cup Opens(pc[a])]
    /\ readers' = IF pc[a] = "dial" THEN readers \cup {a} ELSE readers
    /\ UNCHANGED <<reports, main, up, panicked>>

\* Logged with logger.Fatal, which does not exit, and told to nobody.  Until
\* stomp.Connect has its answer it reads in the goroutine that called it.
SetupFails(a) ==
    /\ Alive /\ ~up
    /\ pc[a] \in Setup
    /\ Goto(a, OnError(pc[a]))
    /\ readers' = IF pc[a] = "connect" THEN readers \ {a} ELSE readers
    /\ UNCHANGED <<open, reports, main, up, panicked>>
-----------------------------------------------------------------------------
\* Subscribe's select: a message, the end of the session, or ctx.Done.
Receive(a) ==
    /\ At(a, "listen")
    /\ Goto(a, "forward")
    /\ UNCHANGED <<open, readers, reports, main, up, panicked>>

SessionBreaks(a) ==
    /\ At(a, "listen")
    /\ Goto(a, "report")
    /\ UNCHANGED <<open, readers, reports, main, up, panicked>>

SeeCtxDone(a) ==
    /\ At(a, "listen") /\ CtxDone
    /\ Goto(a, "disconnect")
    /\ UNCHANGED <<open, readers, reports, main, up, panicked>>

\* rawChan <- msg.Body: completed when a parse worker makes room.
Forward(a) ==
    /\ At(a, "forward") /\ ~RawClosed
    /\ Goto(a, "listen")
    /\ UNCHANGED <<open, readers, reports, main, up, panicked>>

\* errChan <- msg.Err.
\* Variant: the error is reported and the loop goes on.
ReportAndListen(a) ==
    /\ At(a, "report") /\ ~ErrChanClosed
    /\ reports < ErrChanCap /\ reports' = reports + 1
    /\ Goto(a, "listen")
    /\ UNCHANGED <<open, readers, main, up, panicked>>
Report(a) ==
    /\ At(a, "report") /\ ~ErrChanClosed
    /\ reports < ErrChanCap /\ reports' = reports + 1
    /\ Goto(a, "disconnect")
    /\ UNCHANGED <<open, readers, main, up, panicked>>

\* Either send, on a closed channel.
SendPanics(a) ==
    /\ \/ At(a, "forward") /\ RawClosed
       \/ At(a, "report") /\ ErrChanClosed
    /\ panicked' = TRUE
    /\ UNCHANGED <<pc, open, readers, reports, main, up>>

\* A goroutine that reads a connection panics, in the set-up, in the loop, in
\* the teardown or after it: module SessionTransport says when.
ReaderPanics ==
    /\ Alive /\ readers # {}
    /\ panicked' = TRUE
    /\ UNCHANGED <<pc, open, readers, reports, main, up>>

\* The deferred StompConn.Disconnect, which closes the WebSocket if the server
\* acknowledges it in time, then Conn.Close, then wg.Done.
\* Variant: Disconnect waits for the server's receipt without a timeout.
DisconnectAcked(a) ==
    /\ At(a, "disconnect") /\ up
    /\ open' = [open EXCEPT ![a] = {}]
    /\ Goto(a, "close")
    /\ UNCHANGED <<readers, reports, main, up, panicked>>
Disconnect(a) ==
    /\ At(a, "disconnect")
    /\ \E left \in SUBSET {"ws"} : open' = [open EXCEPT ![a] = left]
    /\ Goto(a, "close")
    /\ UNCHANGED <<readers, reports, main, up, panicked>>

Close(a) ==
    /\ At(a, "close")
    /\ open' = [open EXCEPT ![a] = @ \ {"ws"}]
    /\ Goto(a, "free")
    /\ UNCHANGED <<readers, reports, main, up, panicked>>
\* The last reads of a connection that is closed: they fail, or what they read
\* fills channels that nobody empties any more.
ReaderGone(a) ==
    /\ At(a, "free") /\ a \in readers
    /\ readers' = readers \ {a}
    /\ UNCHANGED <<pc, open, reports, main, up, panicked>>
-----------------------------------------------------------------------------
\* main's select: an error starts the listener again.
Restart(a) ==
    /\ Alive /\ main = "select"
    /\ reports > 0 /\ reports' = reports - 1
    /\ pc[a] = "free" /\ a \notin readers /\ Goto(a, "spawned")
    /\ UNCHANGED <<open, readers, main, up, panicked>>

MainGoto(from, to) ==
    /\ Alive /\ main = from /\ main' = to
    /\ UNCHANGED <<pc, open, readers, reports, up, panicked>>

\* cancel(), close(RawChan) and the two channels after it, close(errChan).
Interrupt == MainGoto("select", "closeRaw")
CloseRaw == MainGoto("closeRaw", "closeErr")
CloseErr == MainGoto("closeErr", "wait")
\* Variant: wg.Wait is left out.
MainReturnAtOnce == MainGoto("wait", "exited")
MainReturn == WgZero /\ MainGoto("wait", "exited")

Terminated == ~Alive /\ UNCHANGED vars

Shutdown == CloseRaw \/ CloseErr \/ MainReturn
\* What a goroutine does without waiting for the server or for room in
\* RawChan; the login request has a timeout of its own.
Own(a) ==
    \/ Enter(a)
    \/ \E t \in TokenLengths : LoginOk(a, t)
    \/ At(a, "login") /\ SetupFails(a)
    \/ SeeCtxDone(a) \/ Report(a) \/ SendPanics(a) \/ Disconnect(a) \/ Close(a)

Next ==
    \/ ServerChanges
    \/ \E a \in Listeners :
         \/ Own(a)
         \/ SetupOk(a) \/ SetupFails(a)
         \/ Receive(a) \/ SessionBreaks(a) \/ Forward(a)
         \/ ReaderGone(a) \/ Restart(a)
    \/ ReaderPanics
    \/ Interrupt \/ Shutdown
    \/ Terminated

Spec == Init /\ [][Next]_vars

\* The scheduler runs every goroutine that can go on, and reading a closed
\* connection comes to its end.  The three set-up steps
\* after the login wait for the server without a timeout, so nothing is owed
\* for them, nor for a message, a broken session or an interrupt.
FairSpec ==
    /\ Spec
    /\ \A a \in Listeners : WF_vars(Own(a)) /\ WF_vars(ReaderGone(a))
    /\ WF_vars(\E a \in Listeners : Restart(a))
    /\ WF_vars(Shutdown)

\* A server that answers every set-up step, one way or the other.
AnsweringSpec ==
    /\ FairSpec
    /\ \A a \in Listeners : WF_vars(SetupOk(a) \/ SetupFails(a))
-----------------------------------------------------------------------------
(* Properties.                                                             *)

\* From the go statement to the error it reports, a goroutine is the session's.
Serving(a) == pc[a] \in {"spawned"} \cup Setup \cup Loop
Listening == \E a \in Listeners : pc[a] \in Loop

\* Types; a goroutine that is in Subscribe's loop has both connections open,
\* the ones the loop's messages and its errors come from (main.go:302-323);
\* and the library reads a connection from stomp.Connect to the end of the
\* loop at least (establish_service.go:257).
TypeOK ==
    /\ pc \in [Listeners -> States]
    /\ open \in [Listeners -> SUBSET {"ws", "stomp"}]
    /\ readers \subseteq Listeners /\ reports \in 0 .. ErrChanCap
    /\ main \in MainStates /\ up \in BOOLEAN /\ panicked \in BOOLEAN
    /\ \A a \in Listeners : pc[a] \in Loop => open[a] = {"ws", "stomp"}
    /\ \A a \in Listeners : pc[a] \in {"connect", "subscribe"} \cup Loop => a \in readers

\* There is one session at a time, however the restarts and the teardowns
\* interleave: no two goroutines log in or forward messages, which would store
\* every quote twice, and none of them while an error waits in errChan.  So
\* errChan, of capacity one, has room whenever an error is reported
\* (establish_service.go:311), and a goroutine never blocks there.
OneSession ==
    /\ \A a, b \in Listeners : Serving(a) /\ Serving(b) => a = b
    /\ \A a \in Listeners : Serving(a) => reports = 0

\* A goroutine returns with its connections closed, whichever step of the
\* set-up or of the session failed (the defers of main.go:309 and 318).
NoLeakedConnection ==
    \A a \in Listeners : pc[a] \in {"free", "spawned"} => open[a] = {}

\* When main returns every session has been closed, not cut off, a restart
\* that was still asleep at the interrupt included (main.go:268, 281-282).
ExitClosesSessions == main = "exited" => \A a \in Listeners : open[a] = {}

\* An interrupt ends the process, unless a set-up step waits for a server that
\* does not answer: neither the dial nor the STOMP connect has a timeout.
ShutdownTerminates ==
    <>[](\A a \in Listeners : pc[a] \notin Setup \ {"login"}) => (CtxDone ~> ~Alive)

\* "Wait for a while, then restart the listening" (main.go:254-255): once the
\* server stays up, a broken session is followed by a new one.  The restart is
\* tried once: when it fails, nobody reports the failure and main waits on.
RestartListens ==
    <>[]up => (reports > 0 ~> Listening \/ CtxDone \/ panicked)
=============================================================================
