----------------------------- MODULE ParserPool -----------------------------
(***************************************************************************)
(* ParseBondQuote (service/bond_quote_service.go:17-118) in the hands of   *)
(* several parse workers: two sync.Pools of decode targets that are never  *)
(* reset, encoding/json filling a target in place, and a ParsedQuote that  *)
(* copies the two structs, so that its price slice keeps pointing at the   *)
(* array of the pooled target.                                             *)
(*                                                                         *)
(* The content of a field is the message it was decoded from, or None for  *)
(* its zero value: what matters is whose data a quote carries.  One price  *)
(* list stands for askPrices and bidPrices, which are decoded alike, and a *)
(* price has two fields, one that every list gives and one it may omit.    *)
(***************************************************************************)
EXTENDS Integers, Sequences, FiniteSets, Functions

CONSTANTS
    Workers,    \* parse workers
    Raws,       \* the raw messages
    Objs,       \* decode targets, of both kinds
    HasMeta,    \* messages with the outer fields messageId, sendTime, ...
    HasData,    \* messages with the outer field data, the inner JSON
    HasIsin,    \* messages whose inner JSON has a securityId
    HasPrices,  \* messages whose inner JSON has the price list
    Prices,     \* the length of that list
    MaxPrices,  \* a bound on it
    Sparse,     \* messages whose prices lack some field of a price
    Mistyped,   \* messages with an outer field of the wrong JSON type
    BadInner,   \* messages whose inner JSON is refused: a field of it has the
                \* wrong type or, when it has no field, it is no JSON
    None        \* the zero value of a field, and a nil slice's array

\* The array allocated when message m's i-th price outgrew the slice.
Arrays == Raws \X (1 .. MaxPrices)

ASSUME RawAssumption ==
    /\ HasMeta \subseteq Raws /\ HasData \subseteq Raws /\ HasIsin \subseteq Raws
    /\ HasPrices \subseteq Raws /\ Mistyped \subseteq Raws /\ BadInner \subseteq Raws
    /\ MaxPrices \in Nat /\ Prices \in [Raws -> 0 .. MaxPrices]
    /\ Sparse \subseteq HasPrices
    /\ None \notin Raws \cup Arrays

\* Messages that say everything a quote needs, in fields of the right types.
Complete == (HasMeta \cap HasData \cap HasIsin \cap HasPrices)
            \ (Sparse \cup Mistyped \cup BadInner)

VARIABLES
    input,              \* raw messages still in RawChan
    msgPool, qpdPool,   \* what is in the pools
    msgMade, qpdMade,   \* targets New has made
    msgObj,             \* BondQuoteMessage targets: meta and data fields
    qpdObj,             \* QuotePriceData targets: securityId and the slice
    heap,               \* the arrays of prices; an array's length is the
                        \* capacity of the slices on it
    pc, raw, msg, qpd,  \* of each worker: its statement and its locals
    n,                  \* prices decoded so far
    parsed              \* ParsedQuotes on their way to InsertBatch

poolVars == <<msgPool, qpdPool, msgMade, qpdMade>>
vars == <<input, poolVars, msgObj, qpdObj, heap, pc, raw, msg, qpd, n, parsed>>

NilSlice == [arr |-> None, len |-> 0]
Elements(slice) == [i \in 1 .. slice.len |-> heap[slice.arr][i]]

Init ==
    /\ input = Raws
    /\ msgPool = {} /\ qpdPool = {} /\ msgMade = {} /\ qpdMade = {}
    /\ msgObj = [o \in Objs |-> [meta |-> None, data |-> None]]
    /\ qpdObj = [o \in Objs |-> [isin |-> None, prices |-> NilSlice]]
    /\ heap = [a \in Arrays |-> <<>>]
    /\ pc = [w \in Workers |-> "idle"]
    /\ raw = [w \in Workers |-> None] /\ n = [w \in Workers |-> 0]
    /\ msg = [w \in Workers |-> None] /\ qpd = [w \in Workers |-> None]
    /\ parsed = {}

\* sync.Pool.Get: any target of the pool, or one New makes.
GetMsg(o) ==
    \/ o \in msgPool /\ msgPool' = msgPool \ {o} /\ UNCHANGED msgMade
    \/ o \notin msgMade /\ msgMade' = msgMade \cup {o} /\ UNCHANGED msgPool
GetQpd(o) ==
    \/ o \in qpdPool /\ qpdPool' = qpdPool \ {o} /\ UNCHANGED qpdMade
    \/ o \notin qpdMade /\ qpdMade' = qpdMade \cup {o} /\ UNCHANGED qpdPool

\* Variant: the message target is put back where it is taken from the pool.
TakePutEarly(w, m, o) ==
    /\ pc[w] = "idle" /\ m \in input
    /\ o \in msgPool \/ o \notin msgMade
    /\ msgPool' = msgPool \cup {o} /\ msgMade' = msgMade \cup {o}
    /\ input' = input \ {m}
    /\ raw' = [raw EXCEPT ![w] = m] /\ msg' = [msg EXCEPT ![w] = o]
    /\ pc' = [pc EXCEPT ![w] = "outer"]
    /\ UNCHANGED <<qpdPool, qpdMade, msgObj, qpdObj, heap, qpd, n, parsed>>

\* The worker receives m and takes a message target.
Take(w, m, o) ==
    /\ pc[w] = "idle" /\ m \in input
    /\ GetMsg(o)
    /\ input' = input \ {m}
    /\ raw' = [raw EXCEPT ![w] = m] /\ msg' = [msg EXCEPT ![w] = o]
    /\ pc' = [pc EXCEPT ![w] = "outer"]
    /\ UNCHANGED <<qpdPool, qpdMade, msgObj, qpdObj, heap, qpd, n, parsed>>

\* The deferred Puts as the call returns: every path out of ParseBondQuote.
\* Its locals end with it.
PutMsg(w) ==
    /\ msgPool' = msgPool \cup {msg[w]}
    /\ pc' = [pc EXCEPT ![w] = "idle"]
    /\ raw' = [raw EXCEPT ![w] = None] /\ n' = [n EXCEPT ![w] = 0]
    /\ msg' = [msg EXCEPT ![w] = None] /\ qpd' = [qpd EXCEPT ![w] = None]
PutBoth(w) ==
    /\ PutMsg(w)
    /\ qpdPool' = qpdPool \cup {qpd[w]}

\* json.Unmarshal(raw, msg): a field the JSON lacks keeps what the target
\* held.  A field of the wrong type is an error, after the others are set.
UnmarshalMsg(w) ==
    LET m == raw[w]
    IN  /\ pc[w] = "outer"
        /\ msgObj' = [msgObj EXCEPT ![msg[w]] =
                        [meta |-> IF m \in HasMeta THEN m ELSE @.meta,
                         data |-> IF m \in HasData THEN m ELSE @.data]]
        /\ IF m \in Mistyped
           THEN PutMsg(w)
           ELSE pc' = [pc EXCEPT ![w] = "getQpd"] /\ UNCHANGED <<msgPool, raw, msg, qpd, n>>
        /\ UNCHANGED <<input, qpdPool, msgMade, qpdMade, qpdObj, heap, parsed>>

\* Variant: the inner target is put back where it is taken from the pool
\* and not when the call returns.
TakeQpdPutEarly(w, o) ==
    /\ pc[w] = "getQpd"
    /\ o \in qpdPool \/ o \notin qpdMade
    /\ qpdPool' = qpdPool \cup {o} /\ qpdMade' = qpdMade \cup {o}
    /\ qpd' = [qpd EXCEPT ![w] = o] /\ n' = [n EXCEPT ![w] = 0]
    /\ pc' = [pc EXCEPT ![w] = "inner"]
    /\ UNCHANGED <<input, msgPool, msgMade, msgObj, qpdObj, heap, raw, msg, parsed>>

TakeQpd(w, o) ==
    /\ pc[w] = "getQpd"
    /\ GetQpd(o)
    /\ qpd' = [qpd EXCEPT ![w] = o] /\ n' = [n EXCEPT ![w] = 0]
    /\ pc' = [pc EXCEPT ![w] = "inner"]
    /\ UNCHANGED <<input, msgPool, msgMade, msgObj, qpdObj, heap, raw, msg, parsed>>

\* The inner JSON the message target holds.
Inner(w) == msgObj[msg[w]].data

\* The inner JSON is empty, for no message has filled the target's data field.
InnerError(w) ==
    /\ pc[w] = "inner" /\ Inner(w) = None
    /\ PutBoth(w)
    /\ UNCHANGED <<input, msgMade, qpdMade, msgObj, qpdObj, heap, parsed>>

\* A price decoded over the element e: a field it lacks keeps what e held, and
\* one of the wrong type may be any.
Zero == [given |-> None, rest |-> None]
Over(e, d) == [given |-> d, rest |-> IF d \in Sparse THEN e.rest ELSE d]
PricesOver(e, d) == {Over(e, d)} \cup (IF d \in BadInner THEN {e} ELSE {})

\* The array old grown to the capacity c, with p after its elements.
Grown(old, p, c) ==
    [k \in 1 .. c |-> IF k <= Len(old) THEN old[k]
                      ELSE IF k = Len(old) + 1 THEN p ELSE Zero]

\* One element of the price list: over the old element when the slice has the
\* capacity, into a grown copy of the array when it has not.
DecodePrice(w) ==
    LET d == Inner(w)
        s == qpdObj[qpd[w]].prices
        i == n[w] + 1
        old == IF s.arr = None THEN <<>> ELSE heap[s.arr]
    IN  /\ pc[w] = "inner"
        /\ d \in HasPrices /\ n[w] < Prices[d]
        /\ n' = [n EXCEPT ![w] = i]
        /\ \/ /\ i <= Len(old)
              /\ \E p \in PricesOver(old[i], d) : heap' = [heap EXCEPT ![s.arr][i] = p]
              /\ UNCHANGED qpdObj
           \/ /\ i > Len(old)
              /\ \E p \in PricesOver(Zero, d), c \in i .. MaxPrices :
                    heap' = [heap EXCEPT ![<<raw[w], i>>] = Grown(old, p, c)]
              /\ qpdObj' = [qpdObj EXCEPT ![qpd[w]].prices.arr = <<raw[w], i>>]
        /\ UNCHANGED <<input, poolVars, msgObj, pc, raw, msg, qpd, parsed>>

\* The inner JSON is decoded: the call goes on, or returns the error of a
\* field of the wrong type after all the others are set.
EndDecoding(w) ==
    IF Inner(w) \in BadInner
    THEN PutBoth(w)
    ELSE pc' = [pc EXCEPT ![w] = "check"] /\ UNCHANGED <<msgPool, qpdPool, raw, msg, qpd, n>>

\* Variant: a shorter list leaves the length of the slice as it was.
DecodeRestKeepingLength(w) ==
    LET d == Inner(w)
        kept(s) == [s EXCEPT !.len = IF n[w] > @ THEN n[w] ELSE @]
    IN  /\ pc[w] = "inner" /\ d # None
        /\ d \in HasPrices => n[w] = Prices[d]
        /\ qpdObj' = [qpdObj EXCEPT ![qpd[w]] =
                        [isin |-> IF d \in HasIsin THEN d ELSE @.isin,
                         prices |-> IF d \in HasPrices THEN kept(@.prices) ELSE @.prices]]
        /\ EndDecoding(w)
        /\ UNCHANGED <<input, msgMade, qpdMade, msgObj, heap, parsed>>

\* The rest of the inner JSON.  An empty list makes a fresh empty slice, a
\* list that is absent leaves the slice of the target alone.
DecodeRest(w) ==
    LET d == Inner(w)
    IN  /\ pc[w] = "inner" /\ d # None
        /\ d \in HasPrices => n[w] = Prices[d]
        /\ qpdObj' = [qpdObj EXCEPT ![qpd[w]] =
                        [isin |-> IF d \in HasIsin THEN d ELSE @.isin,
                         prices |-> IF d \notin HasPrices THEN @.prices
                                    ELSE IF n[w] = 0 THEN NilSlice
                                    ELSE [@.prices EXCEPT !.len = n[w]]]]
        /\ EndDecoding(w)
        /\ UNCHANGED <<input, msgMade, qpdMade, msgObj, heap, parsed>>

\* The quote: copies of both structs, the slice still on the target's array.
Quote(w) == [of |-> raw[w], meta |-> msgObj[msg[w]].meta, data |-> Inner(w),
             isin |-> qpdObj[qpd[w]].isin, prices |-> qpdObj[qpd[w]].prices]

\* Variant: the check on SecurityID is missing.
ReturnUnchecked(w) ==
    /\ pc[w] = "check"
    /\ parsed' = parsed \cup {Quote(w)}
    /\ PutBoth(w)
    /\ UNCHANGED <<input, msgMade, qpdMade, msgObj, qpdObj, heap>>

\* SecurityID must not be empty; the quote is returned and the targets are put
\* back.
Return(w) ==
    /\ pc[w] = "check"
    /\ parsed' = IF qpdObj[qpd[w]].isin = None THEN parsed ELSE parsed \cup {Quote(w)}
    /\ PutBoth(w)
    /\ UNCHANGED <<input, msgMade, qpdMade, msgObj, qpdObj, heap>>

\* InsertBatch reads a quote, after the channels and the batch.
Insert(q) ==
    /\ q \in parsed
    /\ parsed' = parsed \ {q}
    /\ UNCHANGED <<input, poolVars, msgObj, qpdObj, heap, pc, raw, msg, qpd, n>>

Done == /\ input = {} /\ parsed = {} /\ \A w \in Workers : pc[w] = "idle"
        /\ UNCHANGED vars

Next ==
    \/ \E w \in Workers, m \in Raws, o \in Objs : Take(w, m, o)
    \/ \E w \in Workers : UnmarshalMsg(w)
    \/ \E w \in Workers, o \in Objs : TakeQpd(w, o)
    \/ \E w \in Workers : InnerError(w)
    \/ \E w \in Workers : DecodePrice(w)
    \/ \E w \in Workers : DecodeRest(w)
    \/ \E w \in Workers : Return(w)
    \/ \E q \in parsed : Insert(q)
    \/ Done

Spec == Init /\ [][Next]_vars
-----------------------------------------------------------------------------
(* Properties.                                                             *)

Active(w) == pc[w] # "idle"
HoldsQpd(w) == pc[w] \in {"inner", "check"}
Slices == [arr : Arrays \cup {None}, len : 0 .. MaxPrices]
PriceElements == [given : Raws \cup {None}, rest : Raws \cup {None}]

\* Types.  A quote has an ISIN, a slice never outgrows its array, and the
\* locals of a worker hold targets while the call runs (lines 96-118).
TypeOK ==
    /\ input \subseteq Raws
    /\ msgPool \subseteq msgMade /\ msgMade \subseteq Objs
    /\ qpdPool \subseteq qpdMade /\ qpdMade \subseteq Objs
    /\ msgObj \in [Objs -> [meta : Raws \cup {None}, data : Raws \cup {None}]]
    /\ qpdObj \in [Objs -> [isin : Raws \cup {None}, prices : Slices]]
    /\ heap \in [Arrays -> Seq(PriceElements)]
    /\ \A o \in Objs : LET s == qpdObj[o].prices
                       IN  IF s.arr = None THEN s.len = 0 ELSE s.len <= Len(heap[s.arr])
    /\ \A w \in Workers : /\ pc[w] \in {"idle", "outer", "getQpd", "inner", "check"}
                          /\ Active(w) => raw[w] \in Raws /\ msg[w] \in msgMade
                          /\ HoldsQpd(w) => qpd[w] \in qpdMade
    /\ \A q \in parsed : q.of \in Raws /\ q.isin \in Raws

\* While a call of ParseBondQuote runs, its targets are out of the pools and no
\* other worker decodes into them, whatever path the calls before it returned
\* by (lines 97-98 and 103-104).
TargetsHeldOnce ==
    \A w \in Workers :
        /\ Active(w) => /\ msg[w] \notin msgPool
                        /\ \A v \in Workers \ {w} : Active(v) => msg[v] # msg[w]
        /\ HoldsQpd(w) => /\ qpd[w] \notin qpdPool
                          /\ \A v \in Workers \ {w} : HoldsQpd(v) => qpd[v] # qpd[w]

\* Every field that a message or its inner JSON has is in its quote, although
\* the targets come from the pool with another message's values in them and
\* other workers decode at the same time; a field it lacks is what a message
\* taken before left in the target, one that was refused for the type of
\* another field included.  So a message without a securityId passes the check
\* at line 109 only with the ISIN of another one (lines 97-117).
FieldsOwnOrLeft ==
    \A q \in parsed :
        /\ q.of \in HasMeta => q.meta = q.of
        /\ q.of \in HasData => q.data = q.of
        /\ q.data \in HasIsin => q.isin = q.data
        /\ {q.of, q.data, q.isin} \cap input = {} /\ q.isin \in HasIsin

\* A price says what message d gave; a field that d omits may say anything.
Own(p, d) == p.given = d /\ (d \notin Sparse => p.rest = d)

\* When ParseBondQuote returns a quote, it has as many prices as the list of its
\* inner JSON, and every field which that list gives: decoded over a longer list
\* of another message, or over what a refused one left in the array, it shows
\* none of it but in the fields its own prices omit (lines 105, 114-117).
PricesOwnAtReturn ==
    [][\A q \in parsed' \ parsed :
         q.data \in HasPrices =>
            LET s == Elements(q.prices)'
            IN  Len(s) = Prices[q.data] /\ \A i \in 1 .. Len(s) : Own(s[i], q.data)]_vars

\* A ParsedQuote is what its raw message says, metadata and prices
\* (bond_quote_service.go:89-95): what InsertBatch reads of a complete message is
\* that message's ISIN and prices.  The code copies the slice header only (lines
\* 114-117), so a later call that reuses the target overwrites them.
PricesStayOwn ==
    [][\A q \in parsed \ parsed' :
         q.of \in Complete =>
            /\ q.isin = q.of
            /\ Elements(q.prices) = [i \in 1 .. Prices[q.of] |-> [given |-> q.of, rest |-> q.of]]]_vars
=============================================================================
