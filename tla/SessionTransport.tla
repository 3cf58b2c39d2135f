--------------------------- MODULE SessionTransport ---------------------------
(***************************************************************************)
(* The session of StompSession over the WebSocket of WsNetConn: what the   *)
(* listener hears, how it learns that its connection is gone, and what     *)
(* reading it may do to the process from stomp.Connect to the last read    *)
(* after the deferred closes.                                              *)
(*                                                                         *)
(* One connection is followed byte by byte: any one of those opened while  *)
(* none is, until nobody reads it any more.  The others, at most one of    *)
(* them with a goroutine in the session, do what StompSession lets them    *)
(* do, short of a panic in their reading goroutine: a behaviour that ends  *)
(* with one is that of the model which follows this connection.            *)
(***************************************************************************)
EXTENDS StompSession, Sequences

CONSTANTS BufSize, MaxEmpty, InboxCap, Lengths, MaxWire, MaxBytes

ASSUME BufSizeAssumption == BufSize \in Nat \ {0}
ASSUME LengthAssumption == Lengths \subseteq Nat /\ MaxBytes \in Nat
ASSUME LimitAssumption == MaxEmpty \in Nat \ {0} /\ InboxCap \in Nat \ {0} /\ MaxWire \in Nat

VARIABLES
    followed,   \* the goroutine whose connection is followed, if any
    conn, wire, sent, buf, taken, inBody, empties, inbox, ended, stopped

T == INSTANCE WsNetConn

stream == <<conn, wire, sent, buf, taken, inBody, empties, inbox, ended, stopped>>
allVars == <<vars, followed, stream>>

TInit == Init /\ followed = {} /\ T!Init
-----------------------------------------------------------------------------
\* What a step of a goroutine does to the followed connection: it begins to be
\* read, it is closed by the teardown, or nobody reads it any more.
Begins(a) == a \in readers' \ readers /\ followed = {}
Shuts(a) == a \in followed \cap readers' /\ conn = "up" /\ "ws" \in open[a] \ open'[a]
Leaves(a) == a \in followed \ readers'

Follow(a) ==
    \/ Begins(a) /\ followed' = {a} /\ T!Open
    \/ Shuts(a) /\ UNCHANGED followed /\ T!Breaks
    \/ Leaves(a) /\ followed' = {} /\ T!Drop
    \/ ~Shuts(a) /\ ~Leaves(a) /\ UNCHANGED <<followed, stream>>

\* stomp.Connect succeeds once it has read the server's answer.
Sets(a) ==
    \/ SetupOk(a) /\ ~(a \in followed /\ pc[a] = "connect" /\ stopped)
    \/ SetupFails(a)

\* What the goroutine read last is behind it, or waits for room in a channel.
Forgets(a) ==
    /\ ReaderGone(a)
    /\ a \in followed => stopped \/ ended \/ inbox = InboxCap
    /\ Follow(a)

\* A message of sub.C, forwarded unless its body is empty, or the error.
Hear(a) ==
    /\ a \in followed /\ UNCHANGED followed
    /\ \/ (Receive(a) \/ (At(a, "listen") /\ UNCHANGED vars)) /\ T!Take
       \/ SessionBreaks(a) /\ T!TakeError

HearUnfollowed(a) ==
    /\ a \notin followed /\ UNCHANGED <<followed, stream>>
    /\ Receive(a) \/ SessionBreaks(a)

\* Nothing goes to sub.C before the subscription, nor an error before
\* stomp.Connect has returned: until then it is the one that reads.
Connecting == \E a \in followed : pc[a] = "connect"

Reads ==
    /\ Alive /\ (T!ReadMessage \/ T!ReadBroken)
    /\ Connecting => inbox' = inbox
    /\ UNCHANGED <<pc, open, readers, reports, main, up, followed>>

Network ==
    /\ Alive /\ (T!ServerSends \/ T!Breaks \/ (~Connecting /\ T!LibraryEnds))
    /\ UNCHANGED <<pc, open, readers, reports, main, up, followed>>

TNext ==
    \/ ServerChanges /\ UNCHANGED <<followed, stream>>
    \/ \E a \in Listeners :
         \/ Hear(a) \/ HearUnfollowed(a)
         \/ (Own(a) \/ Sets(a) \/ Forward(a) \/ Restart(a)) /\ Follow(a)
         \/ Forgets(a)
    \/ Reads \/ Network
    \/ (Interrupt \/ Shutdown) /\ UNCHANGED <<followed, stream>>
    \/ ~Alive /\ UNCHANGED allVars

TSpec == TInit /\ [][TNext]_allVars

\* As in StompSession, and the reading goroutine and a listener with something
\* in sub.C go on.
FairTSpec ==
    /\ TSpec
    /\ \A a \in Listeners : WF_vars(Own(a)) /\ WF_allVars(Hear(a)) /\ WF_allVars(Forgets(a))
    /\ WF_vars(\E a \in Listeners : Restart(a))
    /\ WF_vars(Shutdown)
    /\ WF_allVars(Reads)
-----------------------------------------------------------------------------
\* Types; and the connection that is followed is one that may be read.
TypesOK ==
    /\ TypeOK /\ T!StreamType
    /\ followed \subseteq readers /\ \A a, b \in followed : a = b
    /\ conn # "none" <=> followed # {}

\* The bytes the library parses are the server's, in their order.
StreamIntact == T!StreamIntact

\* A panic takes the process down, quotes in the channels included.  It has
\* one of five causes: a listener sends to a channel that main has closed
\* (main.go:262-265, two of them), a token too short to log (main.go:300), or
\* the read of a message longer than the room the library has left for it or
\* of a connection that is broken, or closed by the teardown (main.go:309,
\* 318), within the body of a frame: Read returns the length of what it could
\* not copy, and no error (establish_service.go:370).  Those two may come at
\* any time from stomp.Connect on.
PanicHasCause ==
    panicked => \/ \E a \in Listeners : pc[a] = "forward" /\ RawClosed
                \/ \E a \in Listeners : pc[a] = "report" /\ ErrChanClosed
                \/ \E t \in TokenLengths : t < 20
                \/ T!Oversized
                \/ T!DiesInBody

\* A connection that breaks under a listener, or a session that the library
\* ends, is followed by a new login although Read hides the error, unless the
\* process shuts down or dies (establish_service.go:309-312 and 370,
\* main.go:251-256).  A listener that waits for room in RawChan does not hear
\* of it, so the parse workers must make room again and again.
EndLeadsToLogin ==
    []<>(\A a \in Listeners : pc[a] # "forward") =>
        ((conn = "broken" \/ ended) /\ (\E a \in followed : pc[a] \in Loop) ~>
            (\E a \in Listeners : pc[a] = "login") \/ CtxDone \/ panicked)
=============================================================================
