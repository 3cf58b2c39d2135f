------------------------------- MODULE WsNetConn -------------------------------
(***************************************************************************)
(* WebSocketNetConn (service/establish_service.go:341-371): the adapter    *)
(* through which the STOMP library reads a WebSocket as a stream of bytes, *)
(* from stomp.Connect until a read fails, with what the library does       *)
(* around it: one goroutine that reads line by line through a buffer, and  *)
(* the channel sub.C to which messages go and, last, an error.             *)
(*                                                                         *)
(* A byte is its position in the stream the server sent.  A message of the *)
(* WebSocket holds a run of them, and is left by the parser in one of      *)
(* three ways: at the end of a line, within a line, or within the body of  *)
(* a frame whose length it knows.                                          *)
(***************************************************************************)
EXTENDS Integers, Sequences

CONSTANTS
    BufSize,    \* bytes the library's buffer holds
    MaxEmpty,   \* reads in a row that may return nothing
    InboxCap,   \* capacity of sub.C
    Lengths,    \* lengths of the messages the server sends
    MaxWire,    \* bound: messages under way
    MaxBytes    \* bound: bytes the server sends on one connection

VARIABLES
    conn,       \* the connection, broken also when this side has closed it
    wire,       \* messages that have arrived and are not read
    sent,       \* bytes the server has sent
    buf,        \* bytes read and not yet parsed
    taken,      \* bytes parsed
    inBody,     \* the parser awaits more of a frame's body
    empties,    \* reads in a row that returned nothing
    inbox,      \* messages in sub.C
    ended,      \* the session is over for the library: its error is in sub.C
    stopped,    \* the reading goroutine has returned
    panicked    \* the process is gone

stream == <<conn, wire, sent, buf, taken, inBody, empties, inbox, ended, stopped>>

\* A message: the run of bytes it holds, how many of them begin a line that it
\* does not end, and whether it stops within a body, which leaves no such line.
Messages == [from : Nat, len : Nat, rest : Nat, body : BOOLEAN]
Bytes(m) == [i \in 1 .. m.len |-> m.from + i]

Least(a, b) == IF a <= b THEN a ELSE b

Init ==
    /\ conn = "none" /\ wire = <<>> /\ sent = 0
    /\ buf = <<>> /\ taken = 0 /\ inBody = FALSE
    /\ empties = 0 /\ inbox = 0 /\ ended = FALSE /\ stopped = FALSE

\* A new connection, and none, when nobody reads the old one any more.
Renew(c) ==
    /\ conn' = c /\ wire' = <<>> /\ sent' = 0
    /\ buf' = <<>> /\ taken' = 0 /\ inBody' = FALSE
    /\ empties' = 0 /\ inbox' = 0 /\ ended' = FALSE /\ stopped' = FALSE
Open == conn = "none" /\ Renew("up")
Drop == Renew("none")
-----------------------------------------------------------------------------
(* The server and the network.                                             *)

ServerSends ==
    /\ conn = "up" /\ Len(wire) < MaxWire
    /\ \E len \in Lengths, body \in BOOLEAN : \E rest \in 0 .. (IF body THEN 0 ELSE len) :
         /\ sent + len <= MaxBytes
         /\ sent' = sent + len
         /\ wire' = Append(wire, [from |-> sent, len |-> len, rest |-> rest, body |-> body])
    /\ UNCHANGED <<conn, buf, taken, inBody, empties, inbox, ended, stopped, panicked>>

\* The connection breaks, or this side closes it: what had arrived may be lost.
Breaks ==
    /\ conn = "up" /\ conn' = "broken"
    /\ \E n \in 0 .. Len(wire) : wire' = SubSeq(wire, 1, n)
    /\ UNCHANGED <<sent, buf, taken, inBody, empties, inbox, ended, stopped, panicked>>

\* An ERROR frame, a frame that is none, or 120 seconds without a byte: the
\* goroutine that reads goes on, unless it is the one that stumbled.
LibraryEnds ==
    /\ conn # "none" /\ ~ended /\ ended' = TRUE
    /\ stopped' \in {stopped, TRUE}
    /\ UNCHANGED <<conn, wire, sent, buf, taken, inBody, empties, inbox, panicked>>
-----------------------------------------------------------------------------
(* The reading goroutine.                                                  *)

Reading == conn # "none" /\ ~stopped /\ inbox < InboxCap

\* How much Read is asked for: the buffer behind the line begun in it.  (The
\* rest of a body that is longer than the whole buffer is read to its place
\* instead; the model gives it the buffer.)
Room == BufSize - Len(buf)

\* Read(p) for a message and for a connection that fails: the bytes it leaves
\* in p and the count it returns, the message's whatever was copied; its error
\* is always nil.
\* Variant: the count is what was copied, and the rest of the message is lost.
ReadWhatFits(room, m) == [p |-> SubSeq(Bytes(m), 1, Least(room, m.len)), n |-> Least(room, m.len)]
Read(room, m) == [p |-> SubSeq(Bytes(m), 1, Least(room, m.len)), n |-> m.len]

\* The parser takes every line that is complete, all there is of a body, and a
\* part of a line that fills the buffer; a message to sub.C may be complete,
\* and is dropped when the error has gone there.
Parse(b, m) ==
    LET begun == IF m.rest < m.len THEN Least(m.rest, Len(b)) ELSE Len(b)
        left == IF m.body \/ begun = BufSize THEN 0 ELSE begun
    IN  /\ taken' = taken + Len(b) - left
        /\ buf' = SubSeq(b, Len(b) - left + 1, Len(b))
        /\ inBody' = m.body
        /\ inbox' \in {inbox} \cup (IF m.rest < m.len /\ ~m.body /\ ~ended THEN {inbox + 1} ELSE {})

\* A message that the buffer has no room for makes the library slice its buffer
\* beyond its end.
ReadMessage ==
    /\ Reading /\ wire # <<>>
    /\ LET m == Head(wire)
           got == Read(Room, m)
       IN  IF got.n > Room
           THEN panicked' = TRUE /\ UNCHANGED stream
           ELSE /\ Parse(buf \o SubSeq(got.p, 1, got.n), m)
                /\ wire' = Tail(wire) /\ empties' = 0
                /\ UNCHANGED <<conn, sent, ended, stopped, panicked>>

\* A broken connection is a read of nothing without an error, again and again.
\* Reading a line the buffer gives up after some of them; reading a body it
\* does not, and the WebSocket library panics.
\* Variant: Read waits for a connection that works.
ReadWaits == FALSE /\ UNCHANGED <<stream, panicked>>
ReadBroken ==
    /\ Reading /\ conn = "broken" /\ wire = <<>>
    /\ IF empties + 1 < MaxEmpty
       THEN empties' = empties + 1 /\ UNCHANGED <<ended, stopped, panicked>>
       ELSE /\ UNCHANGED empties
            /\ IF inBody THEN panicked' = TRUE /\ UNCHANGED <<ended, stopped>>
                         ELSE ended' = TRUE /\ stopped' = TRUE /\ UNCHANGED panicked
    /\ UNCHANGED <<conn, wire, sent, buf, taken, inBody, inbox>>
-----------------------------------------------------------------------------
(* sub.C, as Subscribe's select reads it: the error comes last.            *)

Take ==
    /\ inbox > 0 /\ inbox' = inbox - 1
    /\ UNCHANGED <<conn, wire, sent, buf, taken, inBody, empties, ended, stopped>>

TakeError == inbox = 0 /\ ended /\ UNCHANGED stream
-----------------------------------------------------------------------------
StreamType ==
    /\ conn \in {"none", "up", "broken"}
    /\ wire \in Seq(Messages) /\ sent \in Nat
    /\ buf \in Seq(Nat) /\ Len(buf) < BufSize /\ taken \in Nat
    /\ inBody \in BOOLEAN /\ ended \in BOOLEAN /\ stopped \in BOOLEAN
    /\ empties \in Nat /\ inbox \in 0 .. InboxCap

\* The STOMP library parses the bytes the server sent: whatever the lengths of
\* the messages and of the room Read is given, none is lost, read twice or out
\* of its place, although Read keeps nothing of a message that does not fit
\* (establish_service.go:369-370).
StreamIntact == \A i \in DOMAIN buf : buf[i] = taken + i

\* The message to read next is longer than the room there is for it.
Oversized == wire # <<>> /\ Head(wire).len > Room
DiesInBody == conn = "broken" /\ inBody
=============================================================================
