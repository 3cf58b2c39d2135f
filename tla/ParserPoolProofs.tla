-------------------------- MODULE ParserPoolProofs --------------------------
(***************************************************************************)
(* The properties of ParserPool for any number of workers, messages and    *)
(* targets.  The invariant behind them says who owns what: a message has   *)
(* one worker, a target has one worker while a call runs, and an array of  *)
(* prices has one target, for it was made by the call of one message.      *)
(***************************************************************************)
EXTENDS ParserPool, SequenceTheorems, TLAPS

Statements == {"idle", "outer", "getQpd", "inner", "check"}
Slice(o) == qpdObj[o].prices

Types ==
    /\ input \subseteq Raws
    /\ msgPool \subseteq msgMade /\ msgMade \subseteq Objs
    /\ qpdPool \subseteq qpdMade /\ qpdMade \subseteq Objs
    /\ msgObj \in [Objs -> [meta : Raws \cup {None}, data : Raws \cup {None}]]
    /\ qpdObj \in [Objs -> [isin : Raws \cup {None}, prices : Slices]]
    /\ heap \in [Arrays -> Seq(PriceElements)]
    /\ pc \in [Workers -> Statements]
    /\ raw \in [Workers -> Raws \cup {None}]
    /\ msg \in [Workers -> Objs \cup {None}] /\ qpd \in [Workers -> Objs \cup {None}]
    /\ n \in [Workers -> 0 .. MaxPrices]
Locals ==
    \A w \in Workers : /\ Active(w) => raw[w] \in Raws /\ msg[w] \in msgMade
                       /\ HoldsQpd(w) => qpd[w] \in qpdMade

\* A message is in RawChan or with one worker, once.
OneWorker ==
    \A w \in Workers : Active(w) =>
        raw[w] \notin input /\ \A v \in Workers \ {w} : Active(v) => raw[v] # raw[w]
\* The array in a target was made by a call for a message taken before; the
\* call that still runs has made those up to its last price.
MadeBy ==
    \A o \in Objs : Slice(o).arr # None =>
        /\ Slice(o).arr[1] \notin input
        /\ \A w \in Workers : Active(w) /\ raw[w] = Slice(o).arr[1] =>
              HoldsQpd(w) /\ Slice(o).arr[2] <= n[w]
\* No two targets share an array.
Apart ==
    \A o, p \in Objs : o # p /\ Slice(o).arr # None => Slice(o).arr # Slice(p).arr
Fits ==
    \A o \in Objs : IF Slice(o).arr = None THEN Slice(o).len = 0
                    ELSE Slice(o).len <= Len(heap[Slice(o).arr])

\* The target's array begins with k prices of the inner JSON: its own, unless a
\* field of that JSON has the wrong type.
OwnFrom(t, k, d) == k <= Len(t) /\ (d \notin BadInner => \A i \in 1 .. k : Own(t[i], d))
Begins(w, k) ==
    Slice(qpd[w]).arr # None /\ OwnFrom(heap[Slice(qpd[w]).arr], k, Inner(w))
Decoded ==
    \A w \in Workers : pc[w] = "inner" /\ n[w] > 0 =>
        Inner(w) \in HasPrices /\ n[w] <= Prices[Inner(w)] /\ Begins(w, n[w])
Checked ==
    \A w \in Workers : pc[w] = "check" =>
        /\ Inner(w) \notin BadInner \cup {None}
        /\ Inner(w) \in HasIsin => qpdObj[qpd[w]].isin = Inner(w)
        /\ Inner(w) \in HasPrices =>
             /\ Slice(qpd[w]).len = Prices[Inner(w)]
             /\ Prices[Inner(w)] > 0 => Begins(w, Prices[Inner(w)])
Outer ==
    \A w \in Workers : pc[w] \in {"getQpd", "inner", "check"} =>
        /\ raw[w] \in HasMeta => msgObj[msg[w]].meta = raw[w]
        /\ raw[w] \in HasData => Inner(w) = raw[w]

\* What is in a target comes from a message that was taken.
Seen ==
    \A o \in Objs :
        /\ {msgObj[o].meta, msgObj[o].data, qpdObj[o].isin} \cap input = {}
        /\ qpdObj[o].isin \in HasIsin \cup {None}
Quotes == \A q \in parsed : q.of \in Raws /\ q.isin \in Raws

IInv ==
    /\ Types /\ Locals /\ TargetsHeldOnce /\ OneWorker
    /\ MadeBy /\ Apart /\ Fits
    /\ Decoded /\ Checked /\ Outer
    /\ Seen /\ Quotes /\ FieldsOwnOrLeft

\* A worker takes a message of rawChan and a target from the pool.
LEMMA TakeStep == ASSUME IInv, NEW w \in Workers, NEW m \in Raws, NEW o \in Objs, Take(w, m, o) PROVE IInv'
<1> USE DEF IInv
<1>1. Types'
  BY DEF Types, Locals, Take, GetMsg, Slices, Statements, Active, HoldsQpd
<1>2. Locals'
  BY DEF Types, Locals, Take, GetMsg, Active, HoldsQpd
<1>3. TargetsHeldOnce'
  BY DEF Types, Locals, Take, GetMsg, TargetsHeldOnce, Active, HoldsQpd
<1>4. OneWorker'
  BY DEF Types, Locals, Take, GetMsg, OneWorker, Active
<1>5. MadeBy'
  BY DEF Types, Locals, Take, GetMsg, MadeBy, Active, HoldsQpd, Slice
<1>6. Apart'
  BY DEF Types, Locals, Take, GetMsg, Apart, Slice, Active, HoldsQpd
<1>7. Fits'
  BY DEF Types, Locals, Take, GetMsg, Fits, Slice, Active, HoldsQpd
<1>8. Decoded'
  BY DEF Types, Locals, Take, GetMsg, Decoded, Begins, Inner, Slice, Active, HoldsQpd
<1>9. Checked'
  BY DEF Types, Locals, Take, GetMsg, Checked, Begins, Inner, Slice, Active, HoldsQpd
<1>10. Outer'
  BY DEF Types, Locals, Take, GetMsg, Outer, Inner, Active, HoldsQpd
<1>11. Seen'
  BY DEF Types, Locals, Take, GetMsg, Seen, Active, HoldsQpd
<1>12. Quotes'
  BY DEF Types, Locals, Take, GetMsg, Quotes, Active, HoldsQpd
<1>13. FieldsOwnOrLeft'
  BY DEF Types, Locals, Take, GetMsg, FieldsOwnOrLeft, Active, HoldsQpd
<1> QED
  BY <1>1, <1>2, <1>3, <1>4, <1>5, <1>6, <1>7, <1>8, <1>9, <1>10, <1>11, <1>12, <1>13

\* The call of worker w returns: its locals end.
Returns(w) ==
    /\ pc' = [pc EXCEPT ![w] = "idle"]
    /\ raw' = [raw EXCEPT ![w] = None] /\ n' = [n EXCEPT ![w] = 0]
    /\ msg' = [msg EXCEPT ![w] = None] /\ qpd' = [qpd EXCEPT ![w] = None]
\* The call of worker w goes on at statement st.
GoesOn(w, st) == pc' = [pc EXCEPT ![w] = st] /\ UNCHANGED <<raw, msg, qpd, n>>

\* Either way the locals have their types, and those of the others stay.
LEMMA LocalsAfter ==
    ASSUME Types, NEW w \in Workers, NEW st \in Statements, Returns(w) \/ GoesOn(w, st)
    PROVE  /\ pc' \in [Workers -> Statements]
           /\ raw' \in [Workers -> Raws \cup {None}] /\ n' \in [Workers -> 0 .. MaxPrices]
           /\ msg' \in [Workers -> Objs \cup {None}] /\ qpd' \in [Workers -> Objs \cup {None}]
           /\ \A v \in Workers \ {w} : /\ pc'[v] = pc[v] /\ raw'[v] = raw[v] /\ msg'[v] = msg[v]
                                       /\ qpd'[v] = qpd[v] /\ n'[v] = n[v]
           /\ \/ pc'[w] = "idle"
              \/ GoesOn(w, st) /\ pc'[w] = st
<1>1. CASE Returns(w)
  <2>1. "idle" \in Statements /\ 0 \in 0 .. MaxPrices
    BY RawAssumption DEF Statements
  <2> QED
    BY <1>1, <2>1 DEF Types, Returns
<1>2. CASE GoesOn(w, st)
  BY <1>2 DEF Types, GoesOn
<1> QED
  BY <1>1, <1>2

\* The message is decoded over what its target holds, or fails.
LEMMA UnmarshalMsgStep == ASSUME IInv, NEW w \in Workers, UnmarshalMsg(w) PROVE IInv'
<1> USE DEF IInv
<1>a. /\ msgObj' = [msgObj EXCEPT ![msg[w]] = msgObj'[msg[w]]] /\ msg[w] \in Objs /\ raw[w] \in Raws
      /\ msgObj'[msg[w]].meta = IF raw[w] \in HasMeta THEN raw[w] ELSE msgObj[msg[w]].meta
      /\ msgObj'[msg[w]].data = IF raw[w] \in HasData THEN raw[w] ELSE msgObj[msg[w]].data
      /\ pc[w] = "outer" /\ UNCHANGED <<input, heap, qpdObj, parsed>>
  BY DEF Types, Locals, UnmarshalMsg, Active
<1>s. "getQpd" \in Statements /\ (Returns(w) \/ GoesOn(w, "getQpd"))
  BY DEF UnmarshalMsg, PutMsg, Returns, GoesOn, Statements
<1>r. /\ pc' \in [Workers -> Statements]
      /\ raw' \in [Workers -> Raws \cup {None}] /\ n' \in [Workers -> 0 .. MaxPrices]
      /\ msg' \in [Workers -> Objs \cup {None}] /\ qpd' \in [Workers -> Objs \cup {None}]
      /\ \A v \in Workers \ {w} : /\ pc'[v] = pc[v] /\ raw'[v] = raw[v] /\ msg'[v] = msg[v]
                                  /\ qpd'[v] = qpd[v] /\ n'[v] = n[v]
      /\ \/ pc'[w] = "idle"
         \/ pc'[w] = "getQpd" /\ UNCHANGED <<raw, msg, qpd, n>>
  BY <1>s, LocalsAfter DEF GoesOn
<1>b. \A v \in Workers \ {w} : Active(v) =>
        pc'[v] = pc[v] /\ msgObj'[msg[v]] = msgObj[msg[v]] /\ Inner(v)' = Inner(v)
  BY <1>a, <1>r DEF Types, Locals, TargetsHeldOnce, Active, Inner
<1>1. Types'
  <2>1. msgObj'[msg[w]] \in [meta : Raws \cup {None}, data : Raws \cup {None}]
    BY DEF Types, Locals, UnmarshalMsg, Active
  <2>2. msgObj' \in [Objs -> [meta : Raws \cup {None}, data : Raws \cup {None}]]
    BY <1>a, <2>1 DEF Types
  <2>3. msgPool' \subseteq msgMade /\ UNCHANGED <<qpdPool, msgMade, qpdMade>>
    BY <1>a DEF Types, Locals, UnmarshalMsg, PutMsg, Active
  <2> QED
    BY <1>a, <1>r, <2>2, <2>3 DEF Types, Slices
<1>2. Locals'
  BY DEF Types, Locals, UnmarshalMsg, PutMsg, Active, HoldsQpd
<1>3. TargetsHeldOnce'
  <2>1. msgPool' \subseteq msgPool \cup {msg[w]} /\ (pc'[w] # "idle" => msgPool' = msgPool)
    BY <1>r DEF UnmarshalMsg, PutMsg
  <2>2. qpdPool' = qpdPool
    BY DEF UnmarshalMsg
  <2> QED
    BY <1>a, <1>r, <2>1, <2>2 DEF TargetsHeldOnce, Active, HoldsQpd
<1>4. OneWorker'
  BY <1>a, <1>r DEF OneWorker, Active
<1>5. MadeBy'
  BY <1>a, <1>r DEF MadeBy, Active, HoldsQpd, Slice
<1>6. Apart'
  BY DEF Types, Locals, UnmarshalMsg, PutMsg, Apart, Slice, Active, HoldsQpd
<1>7. Fits'
  BY DEF Types, Locals, UnmarshalMsg, PutMsg, Fits, Slice, Active, HoldsQpd
<1>8. Decoded'
  BY <1>a, <1>b, <1>r DEF Decoded, Begins, Slice, Active
<1>9. Checked'
  BY <1>a, <1>b, <1>r DEF Checked, Begins, Slice, Active
<1>10. Outer'
  <2>1. ASSUME NEW v \in Workers \ {w}, pc'[v] \in {"getQpd", "inner", "check"}
        PROVE  /\ raw'[v] \in HasMeta => msgObj'[msg'[v]].meta = raw'[v]
               /\ raw'[v] \in HasData => Inner(v)' = raw'[v]
    <3>1. pc[v] = pc'[v] /\ Active(v)
      BY <1>r, <2>1 DEF Active
    <3> QED
      BY <1>r, <1>b, <2>1, <3>1 DEF Outer
  <2>2. ASSUME pc'[w] = "getQpd"
        PROVE  /\ raw'[w] \in HasMeta => msgObj'[msg'[w]].meta = raw'[w]
               /\ raw'[w] \in HasData => Inner(w)' = raw'[w]
    BY <1>a, <1>r, <2>2 DEF Inner
  <2> QED
    BY <1>r, <2>1, <2>2 DEF Outer
<1>11. Seen'
  <2>1. raw[w] \notin input
    BY <1>a DEF OneWorker, Active
  <2>2. \A o \in Objs : /\ msgObj'[o].meta \in {raw[w], msgObj[o].meta}
                        /\ msgObj'[o].data \in {raw[w], msgObj[o].data}
    BY <1>a DEF Types
  <2> QED
    BY <1>a, <2>1, <2>2 DEF Seen
<1>12. Quotes'
  BY DEF Types, Locals, UnmarshalMsg, PutMsg, Quotes, Active, HoldsQpd
<1>13. FieldsOwnOrLeft'
  BY DEF Types, Locals, UnmarshalMsg, PutMsg, FieldsOwnOrLeft, Active, HoldsQpd
<1> QED
  BY <1>1, <1>2, <1>3, <1>4, <1>5, <1>6, <1>7, <1>8, <1>9, <1>10, <1>11, <1>12, <1>13

\* The worker takes a target for the inner message.
LEMMA TakeQpdStep == ASSUME IInv, NEW w \in Workers, NEW o \in Objs, TakeQpd(w, o) PROVE IInv'
<1> USE DEF IInv
<1>1. Types'
  BY RawAssumption DEF Types, Locals, TakeQpd, GetQpd, Slices, Statements, Active, HoldsQpd
<1>2. Locals'
  BY DEF Types, Locals, TakeQpd, GetQpd, Active, HoldsQpd
<1>3. TargetsHeldOnce'
  BY DEF Types, Locals, TakeQpd, GetQpd, TargetsHeldOnce, Active, HoldsQpd
<1>4. OneWorker'
  BY DEF Types, Locals, TakeQpd, GetQpd, OneWorker, Active
<1>5. MadeBy'
  BY DEF Types, Locals, TakeQpd, GetQpd, MadeBy, Active, HoldsQpd, Slice
<1>6. Apart'
  BY DEF Types, Locals, TakeQpd, GetQpd, Apart, Slice, Active, HoldsQpd
<1>7. Fits'
  BY DEF Types, Locals, TakeQpd, GetQpd, Fits, Slice, Active, HoldsQpd
<1>8. Decoded'
  BY DEF Types, Locals, TakeQpd, GetQpd, Decoded, Begins, Inner, Slice, Active, HoldsQpd
<1>9. Checked'
  BY DEF Types, Locals, TakeQpd, GetQpd, Checked, Begins, Inner, Slice, Active, HoldsQpd
<1>10. Outer'
  BY DEF Types, Locals, TakeQpd, GetQpd, Outer, Inner, Active, HoldsQpd
<1>11. Seen'
  BY DEF Types, Locals, TakeQpd, GetQpd, Seen, Active, HoldsQpd
<1>12. Quotes'
  BY DEF Types, Locals, TakeQpd, GetQpd, Quotes, Active, HoldsQpd
<1>13. FieldsOwnOrLeft'
  BY DEF Types, Locals, TakeQpd, GetQpd, FieldsOwnOrLeft, Active, HoldsQpd
<1> QED
  BY <1>1, <1>2, <1>3, <1>4, <1>5, <1>6, <1>7, <1>8, <1>9, <1>10, <1>11, <1>12, <1>13

\* The inner message cannot be decoded; both targets go back.
LEMMA InnerErrorStep == ASSUME IInv, NEW w \in Workers, InnerError(w) PROVE IInv'
<1> USE DEF IInv
<1>1. Types'
  BY RawAssumption DEF Types, Locals, InnerError, PutBoth, PutMsg, Slices, Statements, Active, HoldsQpd
<1>2. Locals'
  BY DEF Types, Locals, InnerError, PutBoth, PutMsg, Active, HoldsQpd
<1>3. TargetsHeldOnce'
  BY DEF Types, Locals, InnerError, PutBoth, PutMsg, TargetsHeldOnce, Active, HoldsQpd
<1>4. OneWorker'
  BY DEF Types, Locals, InnerError, PutBoth, PutMsg, OneWorker, Active
<1>5. MadeBy'
  BY DEF Types, Locals, InnerError, PutBoth, PutMsg, MadeBy, Active, HoldsQpd, Slice
<1>6. Apart'
  BY DEF Types, Locals, InnerError, PutBoth, PutMsg, Apart, Slice, Active, HoldsQpd
<1>7. Fits'
  BY DEF Types, Locals, InnerError, PutBoth, PutMsg, Fits, Slice, Active, HoldsQpd
<1>8. Decoded'
  BY DEF Types, Locals, InnerError, PutBoth, PutMsg, Decoded, Begins, Inner, Slice, Active, HoldsQpd
<1>9. Checked'
  BY DEF Types, Locals, InnerError, PutBoth, PutMsg, Checked, Begins, Inner, Slice, Active, HoldsQpd
<1>10. Outer'
  BY DEF Types, Locals, InnerError, PutBoth, PutMsg, Outer, Inner, Active, HoldsQpd
<1>11. Seen'
  BY DEF Types, Locals, InnerError, PutBoth, PutMsg, Seen, Active, HoldsQpd
<1>12. Quotes'
  BY DEF Types, Locals, InnerError, PutBoth, PutMsg, Quotes, Active, HoldsQpd
<1>13. FieldsOwnOrLeft'
  BY DEF Types, Locals, InnerError, PutBoth, PutMsg, FieldsOwnOrLeft, Active, HoldsQpd
<1> QED
  BY <1>1, <1>2, <1>3, <1>4, <1>5, <1>6, <1>7, <1>8, <1>9, <1>10, <1>11, <1>12, <1>13

\* While the inner JSON is decoded the locals are what they should be.
LEMMA InDecoding ==
    ASSUME IInv, NEW w \in Workers, pc[w] = "inner"
    PROVE  n[w] \in Nat /\ raw[w] \in Raws /\ qpd[w] \in Objs
<1>1. Types /\ Locals /\ Active(w) /\ HoldsQpd(w)
  BY DEF IInv, Active, HoldsQpd
<1>2. raw[w] \in Raws /\ qpd[w] \in qpdMade
  BY <1>1 DEF Locals
<1> QED
  BY <1>1, <1>2, RawAssumption DEF Types

\* A price decoded over any element has the types of a price, and is the inner
\* JSON's own unless that is refused.
LEMMA PriceDecoded ==
    ASSUME NEW e \in PriceElements, NEW d \in Raws, NEW p \in PricesOver(e, d)
    PROVE  p \in PriceElements /\ (d \notin BadInner => Own(p, d))
BY DEF PriceElements, PricesOver, Over, Own

\* A grown array keeps the old elements and has the new one after them.
LEMMA GrownArray ==
    ASSUME NEW old \in Seq(PriceElements), NEW p \in PriceElements,
           NEW c \in Nat, Len(old) < c
    PROVE  /\ Grown(old, p, c) \in Seq(PriceElements) /\ Len(Grown(old, p, c)) = c
           /\ \A k \in 1 .. Len(old) : Grown(old, p, c)[k] = old[k]
           /\ Grown(old, p, c)[Len(old) + 1] = p
<1>1. Zero \in PriceElements /\ Len(old) \in Nat
  BY DEF Zero, PriceElements
<1>2. \A k \in 1 .. c : (IF k <= Len(old) THEN old[k]
                        ELSE IF k = Len(old) + 1 THEN p ELSE Zero) \in PriceElements
  BY <1>1
<1>3. Grown(old, p, c) \in [1 .. c -> PriceElements]
  BY <1>2 DEF Grown
<1>4. Grown(old, p, c) \in Seq(PriceElements) /\ Len(Grown(old, p, c)) = c
  BY <1>3, SeqDef
<1> QED
  BY <1>1, <1>4 DEF Grown

\* The effect of one price: the target's array, the one it had or a new one,
\* begins with one price more.
LEMMA PriceEffect ==
    ASSUME IInv, NEW w \in Workers, DecodePrice(w)
    PROVE  \E b \in Arrays, t \in Seq(PriceElements) :
             /\ qpdObj' = [qpdObj EXCEPT ![qpd[w]].prices.arr = b]
             /\ heap' = [heap EXCEPT ![b] = t]
             /\ b = Slice(qpd[w]).arr \/ b = <<raw[w], n[w] + 1>>
             /\ OwnFrom(t, n[w] + 1, Inner(w))
             /\ Slice(qpd[w]).arr # None => Len(heap[Slice(qpd[w]).arr]) <= Len(t)
<1> USE DEF IInv
<1> DEFINE d == Inner(w)
           a == Slice(qpd[w]).arr
           i == n[w] + 1
           old == IF a = None THEN <<>> ELSE heap[a]
           Effect(b, t) == /\ qpdObj' = [qpdObj EXCEPT ![qpd[w]].prices.arr = b]
                           /\ heap' = [heap EXCEPT ![b] = t]
                           /\ b = a \/ b = <<raw[w], i>>
                           /\ OwnFrom(t, i, d)
                           /\ a # None => Len(heap[a]) <= Len(t)
<1>1. /\ pc[w] = "inner" /\ d \in HasPrices /\ n[w] < Prices[d] /\ n[w] \in Nat
      /\ d \in Raws /\ i \in 1 .. MaxPrices /\ raw[w] \in Raws /\ qpd[w] \in Objs
  <2>1. pc[w] = "inner" /\ d \in HasPrices /\ n[w] < Prices[d]
    BY DEF DecodePrice
  <2>2. n[w] \in Nat /\ raw[w] \in Raws /\ qpd[w] \in Objs
    BY <2>1, InDecoding
  <2>3. d \in Raws /\ Prices[d] \in 0 .. MaxPrices /\ MaxPrices \in Nat
    BY <2>1, RawAssumption
  <2> QED
    BY <2>1, <2>2, <2>3
<1>2. \/ /\ i <= Len(old) /\ qpdObj' = qpdObj
         /\ \E p \in PricesOver(old[i], d) : heap' = [heap EXCEPT ![a][i] = p]
      \/ /\ i > Len(old) /\ qpdObj' = [qpdObj EXCEPT ![qpd[w]].prices.arr = <<raw[w], i>>]
         /\ \E p \in PricesOver(Zero, d), c \in i .. MaxPrices :
              heap' = [heap EXCEPT ![<<raw[w], i>>] = Grown(old, p, c)]
  BY DEF DecodePrice, Slice
<1>3. (a = None \/ a \in Arrays) /\ old \in Seq(PriceElements) /\ Len(old) \in Nat
  BY <1>1 DEF Types, Slices, Slice
<1>4. n[w] <= Len(old) /\ (d \notin BadInner => \A k \in 1 .. n[w] : Own(old[k], d))
  BY <1>1, <1>3 DEF Decoded, Begins, OwnFrom
<1> SUFFICES \E b \in Arrays, t \in Seq(PriceElements) : Effect(b, t)
  BY Zenon
<1> HIDE DEF d, a, i, old
<1>5. CASE i <= Len(old)
  <2>1. a \in Arrays /\ old = heap[a] /\ old[i] \in PriceElements /\ i \in 1 .. Len(old)
    BY <1>1, <1>3, <1>5 DEF old, i
  <2>2. PICK p \in PricesOver(old[i], d) : heap' = [heap EXCEPT ![a][i] = p]
    BY <1>2, <1>3, <1>5, <1>1
  <2>3. qpdObj' = qpdObj
    BY <1>1, <1>2, <1>3, <1>5
  <2>4. p \in PriceElements /\ (d \notin BadInner => Own(p, d))
    BY <1>1, <2>1, <2>2, PriceDecoded
  <2> DEFINE t == [old EXCEPT ![i] = p]
  <2>5. t \in Seq(PriceElements) /\ Len(t) = Len(old) /\ t[i] = p /\ \A k \in 1 .. n[w] : t[k] = old[k]
    BY <1>1, <1>3, <1>4, <2>1, <2>4, ExceptSeq DEF i
  <2>6. heap' = [heap EXCEPT ![a] = t]
    BY <2>1, <2>2
  <2>7. qpdObj' = [qpdObj EXCEPT ![qpd[w]].prices.arr = a]
    BY <1>1, <2>3 DEF a, Slice, Types, Slices
  <2> HIDE DEF t
  <2>8. OwnFrom(t, i, d)
    <3>1. ASSUME d \notin BadInner, NEW k \in 1 .. i PROVE Own(t[k], d)
      <4>1. k = i \/ k \in 1 .. n[w]
        BY <1>1 DEF i
      <4> QED
        BY <1>4, <2>4, <2>5, <3>1, <4>1
    <3> QED
      BY <1>5, <2>5, <3>1 DEF OwnFrom
  <2>9. a # None => Len(heap[a]) <= Len(t)
    BY <1>3, <2>1, <2>5
  <2>10. Effect(a, t)
    BY <2>6, <2>7, <2>8, <2>9
  <2> HIDE DEF Effect
  <2> QED
    BY <2>1, <2>5, <2>10
<1>6. CASE i > Len(old)
  <2>1. PICK p \in PricesOver(Zero, d), c \in i .. MaxPrices :
          heap' = [heap EXCEPT ![<<raw[w], i>>] = Grown(old, p, c)]
    BY <1>1, <1>2, <1>3, <1>6
  <2>2. qpdObj' = [qpdObj EXCEPT ![qpd[w]].prices.arr = <<raw[w], i>>]
    BY <1>1, <1>2, <1>3, <1>6
  <2>3. p \in PriceElements /\ (d \notin BadInner => Own(p, d))
    <3>1. Zero \in PriceElements
      BY DEF Zero, PriceElements
    <3> QED
      BY <1>1, <3>1, PriceDecoded
  <2> DEFINE t == Grown(old, p, c)
             b == <<raw[w], i>>
  <2>4. Len(old) = n[w] /\ b \in Arrays /\ c \in Nat /\ Len(old) < c /\ i <= c
    BY <1>1, <1>3, <1>4, <1>6, RawAssumption DEF i, Arrays
  <2>5. /\ t \in Seq(PriceElements) /\ Len(t) = c
        /\ \A k \in 1 .. n[w] : t[k] = old[k]
        /\ t[n[w] + 1] = p
    <3>1. /\ Grown(old, p, c) \in Seq(PriceElements) /\ Len(Grown(old, p, c)) = c
          /\ \A k \in 1 .. Len(old) : Grown(old, p, c)[k] = old[k]
          /\ Grown(old, p, c)[Len(old) + 1] = p
      BY <1>3, <2>3, <2>4, GrownArray
    <3> QED
      BY <2>4, <3>1
  <2> HIDE DEF t, b
  <2>6. OwnFrom(t, i, d)
    <3>1. ASSUME d \notin BadInner, NEW k \in 1 .. i PROVE Own(t[k], d)
      <4>1. k = n[w] + 1 \/ k \in 1 .. n[w]
        BY <1>1 DEF i
      <4> QED
        BY <1>4, <2>3, <2>5, <3>1, <4>1
    <3> QED
      BY <2>4, <2>5, <3>1 DEF OwnFrom
  <2>7. a # None => Len(heap[a]) <= Len(t)
    BY <1>3, <2>4, <2>5 DEF old
  <2>8. Effect(b, t)
    BY <2>1, <2>2, <2>6, <2>7 DEF b, t
  <2> HIDE DEF Effect
  <2> QED
    BY <2>4, <2>5, <2>8
<1>7. i \in Int
  BY <1>1
<1> HIDE DEF Effect
<1> QED
  BY <1>3, <1>5, <1>6, <1>7

\* One more price goes into the slice, in its array or in a larger one.
LEMMA DecodePriceStep == ASSUME IInv, NEW w \in Workers, DecodePrice(w) PROVE IInv'
<1> USE DEF IInv
<1>a. PICK b \in Arrays, t \in Seq(PriceElements) :
        /\ qpdObj' = [qpdObj EXCEPT ![qpd[w]].prices.arr = b]
        /\ heap' = [heap EXCEPT ![b] = t]
        /\ b = Slice(qpd[w]).arr \/ b = <<raw[w], n[w] + 1>>
        /\ OwnFrom(t, n[w] + 1, Inner(w))
        /\ Slice(qpd[w]).arr # None => Len(heap[Slice(qpd[w]).arr]) <= Len(t)
  BY PriceEffect
<1>b. /\ pc[w] = "inner" /\ Inner(w) \in HasPrices /\ n[w] < Prices[Inner(w)] /\ Prices[Inner(w)] \in 0 .. MaxPrices
      /\ n' = [n EXCEPT ![w] = n[w] + 1] /\ n[w] \in Nat /\ raw[w] \in Raws /\ qpd[w] \in Objs
      /\ UNCHANGED <<input, poolVars, msgObj, pc, raw, msg, qpd, parsed>>
  <2>1. /\ pc[w] = "inner" /\ Inner(w) \in HasPrices /\ n[w] < Prices[Inner(w)]
        /\ n' = [n EXCEPT ![w] = n[w] + 1]
        /\ UNCHANGED <<input, poolVars, msgObj, pc, raw, msg, qpd, parsed>>
    BY DEF DecodePrice
  <2> QED
    BY <2>1, InDecoding, RawAssumption
<1>c. /\ \A o \in Objs : /\ Slice(o)'.arr = IF o = qpd[w] THEN b ELSE Slice(o).arr
                        /\ Slice(o)'.len = Slice(o).len /\ qpdObj'[o].isin = qpdObj[o].isin
      /\ \A a \in Arrays \ {b} : heap'[a] = heap[a]
      /\ heap'[b] = t /\ b # None
      /\ \A o \in Objs : Slice(o).arr \in Arrays \cup {None} /\ Slice(o).len \in Nat
  <2>1. \A o \in Objs : Slice(o).arr \in Arrays \cup {None} /\ Slice(o).len \in Nat
    <3>1. \A o \in Objs : Slice(o) \in Slices
      BY DEF Slice, Types
    <3> QED
      BY <3>1, RawAssumption DEF Slices
  <2>2. \A o \in Objs : /\ Slice(o)'.arr = IF o = qpd[w] THEN b ELSE Slice(o).arr
                        /\ Slice(o)'.len = Slice(o).len /\ qpdObj'[o].isin = qpdObj[o].isin
    BY <1>a, <1>b DEF Slice, Types, Slices
  <2>3. heap'[b] = t /\ \A a \in Arrays \ {b} : heap'[a] = heap[a]
    BY <1>a DEF Types
  <2> QED
    BY <2>1, <2>2, <2>3, RawAssumption
<1>d. \A o \in Objs \ {qpd[w]} : Slice(o).arr # b
  <2>1. CASE b = Slice(qpd[w]).arr
    BY <1>b, <1>c, <2>1 DEF Apart
  <2>2. CASE b = <<raw[w], n[w] + 1>>
    <3> SUFFICES ASSUME NEW o \in Objs \ {qpd[w]}, Slice(o).arr = b PROVE FALSE
      OBVIOUS
    <3>1. b[1] = raw[w] /\ b[2] = n[w] + 1 /\ Slice(o).arr # None /\ Active(w)
      BY <1>b, <1>c, <2>2 DEF Active
    <3>2. b[2] <= n[w]
      BY <3>1 DEF MadeBy
    <3> QED
      BY <1>b, <3>1, <3>2
  <2> QED
    BY <1>a, <2>1, <2>2
<1>e. \A v \in Workers : Inner(v)' = Inner(v) /\ (v # w /\ HoldsQpd(v) => qpd[v] \in Objs \ {qpd[w]})
  BY <1>b DEF Inner, TargetsHeldOnce, HoldsQpd, Types, Locals
<1>1. Types'
  <2>1. heap' \in [Arrays -> Seq(PriceElements)]
    BY <1>a DEF Types
  <2>2. qpdObj' \in [Objs -> [isin : Raws \cup {None}, prices : Slices]]
    <3>1. qpdObj[qpd[w]] \in [isin : Raws \cup {None}, prices : Slices]
      BY <1>b DEF Types
    <3>2. [qpdObj[qpd[w]].prices EXCEPT !.arr = b] \in Slices
      BY <1>a, <3>1 DEF Slices
    <3>3. [qpdObj[qpd[w]] EXCEPT !.prices.arr = b] \in [isin : Raws \cup {None}, prices : Slices]
      BY <3>1, <3>2
    <3> QED
      BY <1>a, <3>3 DEF Types
  <2>3. n' \in [Workers -> 0 .. MaxPrices]
    BY <1>b, RawAssumption DEF Types
  <2> QED
    BY <1>b, <2>1, <2>2, <2>3 DEF Types, poolVars
<1>2. Locals'
  BY DEF Types, Locals, DecodePrice, poolVars, Active, HoldsQpd
<1>3. TargetsHeldOnce'
  BY DEF Types, Locals, DecodePrice, poolVars, TargetsHeldOnce, Active, HoldsQpd
<1>4. OneWorker'
  BY DEF Types, Locals, DecodePrice, poolVars, OneWorker, Active
<1>5. MadeBy'
  <2> SUFFICES ASSUME NEW o \in Objs, Slice(o)'.arr # None
               PROVE  /\ Slice(o)'.arr[1] \notin input
                      /\ \A v \in Workers : Active(v) /\ raw[v] = Slice(o)'.arr[1] =>
                            HoldsQpd(v) /\ Slice(o)'.arr[2] <= n'[v]
    BY <1>b DEF MadeBy, Active, HoldsQpd
  <2>1. \A v \in Workers : n[v] \in Nat /\ n'[v] \in Nat /\ n[v] <= n'[v]
    BY <1>b DEF Types
  <2>2. CASE Slice(o)'.arr = Slice(o).arr
    <3>1. Slice(o).arr \in Arrays /\ Slice(o).arr[2] \in Nat
      BY <1>c, <2>2 DEF Arrays
    <3> QED
      BY <2>1, <2>2, <3>1 DEF MadeBy
  <2>3. CASE Slice(o)'.arr = <<raw[w], n[w] + 1>>
    BY <1>b, <2>3 DEF OneWorker, Active, HoldsQpd, Types
  <2> QED
    BY <1>a, <1>c, <2>2, <2>3
<1>6. Apart'
  BY <1>b, <1>c, <1>d DEF Apart
<1>7. Fits'
  <2> SUFFICES ASSUME NEW o \in Objs
               PROVE  IF Slice(o)'.arr = None THEN Slice(o)'.len = 0 ELSE Slice(o)'.len <= Len(heap'[Slice(o)'.arr])
    BY DEF Fits
  <2>1. CASE o = qpd[w]
    <3>1. Len(t) \in Nat /\ (Slice(o).arr # None => Len(heap[Slice(o).arr]) \in Nat)
      BY <1>c DEF Types
    <3> QED
      BY <1>a, <1>c, <2>1, <3>1 DEF Fits
  <2>2. CASE o # qpd[w]
    BY <1>c, <1>d, <2>2 DEF Fits
  <2> QED
    BY <2>1, <2>2
<1>8. Decoded'
  <2> SUFFICES ASSUME NEW v \in Workers, pc[v] = "inner", n'[v] > 0
               PROVE  Inner(v) \in HasPrices /\ n'[v] <= Prices[Inner(v)] /\ Begins(v, n[v])'
    BY <1>b, <1>e DEF Decoded
  <2>1. CASE v = w
    BY <1>a, <1>b, <1>c, <1>e, <2>1 DEF Begins, Types
  <2>2. CASE v # w
    <3>1. n'[v] = n[v] /\ qpd[v] \in Objs \ {qpd[w]}
      BY <1>b, <1>e, <2>2 DEF HoldsQpd, Types
    <3>2. Inner(v) \in HasPrices /\ n[v] <= Prices[Inner(v)] /\ Begins(v, n[v])
      BY <3>1 DEF Decoded
    <3>3. Slice(qpd[v])'.arr = Slice(qpd[v]).arr /\ Slice(qpd[v]).arr \in Arrays \ {b}
      BY <1>b, <1>c, <1>d, <3>1, <3>2 DEF Begins, Slice
    <3> QED
      BY <1>b, <1>c, <1>e, <3>1, <3>2, <3>3 DEF Begins
  <2> QED
    BY <2>1, <2>2
<1>9. Checked'
  <2> SUFFICES ASSUME NEW v \in Workers, pc[v] = "check"
               PROVE  /\ Inner(v) \notin BadInner \cup {None}
                      /\ Inner(v) \in HasIsin => qpdObj'[qpd[v]].isin = Inner(v)
                      /\ Inner(v) \in HasPrices =>
                           /\ Slice(qpd[v])'.len = Prices[Inner(v)]
                           /\ Prices[Inner(v)] > 0 => Begins(v, Prices[Inner(v)])'
    BY <1>b, <1>e DEF Checked, Slice
  <2>1. qpd[v] \in Objs \ {qpd[w]}
    BY <1>b, <1>e DEF HoldsQpd
  <2> QED
    BY <1>b, <1>c, <1>d, <1>e, <2>1 DEF Checked, Begins, Slice
<1>10. Outer'
  BY DEF Types, Locals, DecodePrice, poolVars, Outer, Inner, Active, HoldsQpd
<1>11. Seen'
  BY <1>b, <1>c DEF Seen
<1>12. Quotes'
  BY DEF Types, Locals, DecodePrice, poolVars, Quotes, Active, HoldsQpd
<1>13. FieldsOwnOrLeft'
  BY DEF Types, Locals, DecodePrice, poolVars, FieldsOwnOrLeft, Active, HoldsQpd
<1> QED
  BY <1>1, <1>2, <1>3, <1>4, <1>5, <1>6, <1>7, <1>8, <1>9, <1>10, <1>11, <1>12, <1>13

\* The fields after the prices are decoded over what the target holds.
LEMMA DecodeRestStep == ASSUME IInv, NEW w \in Workers, DecodeRest(w) PROVE IInv'
<1> USE DEF IInv
<1>0. pc[w] = "inner" /\ Inner(w) # None /\ Inner(w) \in Raws /\ qpd[w] \in Objs
  BY DEF DecodeRest, Types, Locals, Active, HoldsQpd, Inner
<1>d0. PICK d \in Raws : d = Inner(w)
  BY <1>0
<1>o0. PICK o \in Objs : o = qpd[w]
  BY <1>0
<1>a. /\ pc[w] = "inner" /\ d # None /\ d \in Raws /\ o \in Objs
      /\ d \in HasPrices => n[w] = Prices[d]
      /\ qpdObj' = [qpdObj EXCEPT ![o] = qpdObj'[o]]
      /\ qpdObj'[o] = [isin |-> IF d \in HasIsin THEN d ELSE qpdObj[o].isin,
                       prices |-> IF d \notin HasPrices THEN Slice(o)
                                  ELSE IF n[w] = 0 THEN NilSlice
                                  ELSE [Slice(o) EXCEPT !.len = n[w]]]
      /\ UNCHANGED <<input, msgObj, heap, parsed>>
  BY <1>0, <1>d0, <1>o0 DEF DecodeRest, Types, Slice
<1>s. "check" \in Statements /\ (Returns(w) \/ (d \notin BadInner /\ GoesOn(w, "check")))
  BY <1>d0 DEF DecodeRest, EndDecoding, PutBoth, PutMsg, Returns, GoesOn, Statements
<1>r. /\ pc' \in [Workers -> Statements]
      /\ raw' \in [Workers -> Raws \cup {None}] /\ n' \in [Workers -> 0 .. MaxPrices]
      /\ msg' \in [Workers -> Objs \cup {None}] /\ qpd' \in [Workers -> Objs \cup {None}]
      /\ \A v \in Workers \ {w} : /\ pc'[v] = pc[v] /\ raw'[v] = raw[v] /\ msg'[v] = msg[v]
                                  /\ qpd'[v] = qpd[v] /\ n'[v] = n[v]
      /\ \/ pc'[w] = "idle"
         \/ /\ pc'[w] = "check" /\ d \notin BadInner
            /\ UNCHANGED <<raw, msg, qpd, n>>
  <2>1. Returns(w) => pc'[w] = "idle"
    BY DEF Returns, Types
  <2> QED
    BY <1>s, <2>1, LocalsAfter DEF GoesOn
<1>b. /\ n[w] \in 0 .. MaxPrices /\ Slice(o) \in Slices
      /\ d \in HasPrices /\ n[w] > 0 => Begins(w, n[w])
  BY <1>a, <1>d0 DEF Types, Slice, Decoded
<1>c. /\ \A p \in Objs \ {o} : qpdObj'[p] = qpdObj[p] /\ Slice(p)' = Slice(p)
      /\ Slice(o)' = IF d \notin HasPrices THEN Slice(o)
                     ELSE IF n[w] = 0 THEN NilSlice
                     ELSE [arr |-> Slice(o).arr, len |-> n[w]]
      /\ qpdObj'[o].isin = IF d \in HasIsin THEN d ELSE qpdObj[o].isin
  <2>1. \A p \in Objs \ {o} : qpdObj'[p] = qpdObj[p] /\ Slice(p)' = Slice(p)
    BY <1>a DEF Slice, Types
  <2>2. [Slice(o) EXCEPT !.len = n[w]] = [arr |-> Slice(o).arr, len |-> n[w]]
    BY <1>b DEF Slices
  <2>3. Slice(o)' = qpdObj'[o].prices
    BY DEF Slice
  <2> QED
    BY <1>a, <2>1, <2>2, <2>3
<1>d. Slice(o)'.arr \in {None, Slice(o).arr}
  BY <1>b, <1>c DEF NilSlice, Slices
<1>e. /\ \A v \in Workers \ {w} : Inner(v)' = Inner(v) /\ (HoldsQpd(v) => qpd[v] \in Objs \ {o})
      /\ pc'[w] = "check" => Inner(w)' = Inner(w)
  BY <1>a, <1>r, <1>o0 DEF Inner, TargetsHeldOnce, HoldsQpd, Types, Locals
<1>1. Types'
  <2>1. qpdObj'[o] \in [isin : Raws \cup {None}, prices : Slices]
    <3>1. NilSlice \in Slices /\ [Slice(o) EXCEPT !.len = n[w]] \in Slices
      BY <1>b, RawAssumption DEF NilSlice, Slices
    <3>2. qpdObj[o].isin \in Raws \cup {None}
      BY <1>a DEF Types
    <3> QED
      BY <1>a, <1>b, <3>1, <3>2
  <2>2. qpdObj' \in [Objs -> [isin : Raws \cup {None}, prices : Slices]]
    BY <1>a, <2>1 DEF Types
  <2>3. /\ msgPool' \subseteq msgMade /\ qpdPool' \subseteq qpdMade
        /\ UNCHANGED <<msgMade, qpdMade>>
    BY <1>a DEF Types, Locals, DecodeRest, EndDecoding, PutBoth, PutMsg, Active, HoldsQpd
  <2> QED
    BY <1>a, <1>r, <2>2, <2>3 DEF Types
<1>2. Locals'
  BY <1>r DEF Types, Locals, DecodeRest, Active, HoldsQpd
<1>3. TargetsHeldOnce'
  <2>1. /\ msgPool' \subseteq msgPool \cup {msg[w]} /\ qpdPool' \subseteq qpdPool \cup {qpd[w]}
        /\ pc'[w] # "idle" => msgPool' = msgPool /\ qpdPool' = qpdPool
    BY <1>r DEF DecodeRest, EndDecoding, PutBoth, PutMsg
  <2> QED
    BY <1>a, <1>r, <2>1 DEF TargetsHeldOnce, Active, HoldsQpd
<1>4. OneWorker'
  BY <1>a, <1>r DEF OneWorker, Active
<1>5. MadeBy'
  <2>1. \A p \in Objs : Slice(p)'.arr \in {None, Slice(p).arr}
    BY <1>c, <1>d
  <2>2. \A v \in Workers : Active(v)' =>
          Active(v) /\ raw'[v] = raw[v] /\ n'[v] = n[v] /\ (HoldsQpd(v) => HoldsQpd(v)')
    BY <1>a, <1>r DEF Active, HoldsQpd, Types
  <2> QED
    BY <1>a, <2>1, <2>2 DEF MadeBy
<1>6. Apart'
  <2>1. \A p \in Objs : Slice(p)'.arr \in {None, Slice(p).arr}
    BY <1>c, <1>d
  <2> QED
    BY <2>1 DEF Apart
<1>7. Fits'
  <2>1. IF Slice(o)'.arr = None THEN Slice(o)'.len = 0 ELSE Slice(o)'.len <= Len(heap[Slice(o)'.arr])
    <3>1. CASE d \notin HasPrices
      BY <1>a, <1>c, <3>1 DEF Fits
    <3>2. CASE d \in HasPrices /\ n[w] = 0
      BY <1>c, <3>2 DEF NilSlice
    <3>3. CASE d \in HasPrices /\ n[w] > 0
      BY <1>b, <1>c, <1>o0, <3>3 DEF Begins, OwnFrom
    <3> QED
      BY <1>b, <3>1, <3>2, <3>3
  <2> QED
    BY <1>a, <1>c, <2>1 DEF Fits
<1>8. Decoded'
  <2> SUFFICES ASSUME NEW v \in Workers \ {w}, pc[v] = "inner", n[v] > 0
               PROVE  (Inner(v) \in HasPrices /\ n[v] <= Prices[Inner(v)] /\ Begins(v, n[v]))'
    BY <1>a, <1>r DEF Decoded
  <2>1. Slice(qpd[v])' = Slice(qpd[v]) /\ Inner(v)' = Inner(v) /\ n'[v] = n[v] /\ qpd'[v] = qpd[v]
    BY <1>a, <1>c, <1>e, <1>r DEF HoldsQpd, Slice
  <2>2. Begins(v, n[v])' <=> Begins(v, n[v])
    BY <1>a, <2>1 DEF Begins, Slice
  <2> QED
    BY <2>1, <2>2 DEF Decoded
<1>9. Checked'
  <2> SUFFICES ASSUME NEW v \in Workers, pc'[v] = "check"
               PROVE  /\ Inner(v) \notin BadInner \cup {None}
                      /\ Inner(v) \in HasIsin => qpdObj'[qpd[v]].isin = Inner(v)
                      /\ Inner(v) \in HasPrices =>
                           /\ Slice(qpd[v])'.len = Prices[Inner(v)]
                           /\ Prices[Inner(v)] > 0 => Begins(v, Prices[Inner(v)])'
    BY <1>a, <1>e, <1>r DEF Checked, Types, Slice
  <2>1. CASE v = w
    <3>1. Inner(v) = d /\ qpd[v] = o /\ d \notin BadInner /\ qpd' = qpd
      BY <2>1, <1>d0, <1>o0, <1>r
    <3>2. d \in HasPrices => Slice(o)'.len = Prices[d]
      BY <1>a, <1>b, <1>c DEF NilSlice
    <3>3. ASSUME d \in HasPrices, Prices[d] > 0 PROVE Begins(w, Prices[d])'
      <4>1. Slice(o)'.arr = Slice(o).arr /\ n[w] = Prices[d] /\ n[w] > 0
        BY <1>a, <1>c, <3>3
      <4> QED
        BY <1>a, <1>b, <1>e, <1>o0, <2>1, <3>1, <4>1, <3>3 DEF Begins
    <3>4. Slice(qpd[v])' = Slice(o)' /\ Inner(v)' = d /\ v = w
      BY <1>a, <1>e, <2>1, <3>1 DEF Slice
    <3>5. Begins(v, Prices[Inner(v)])' <=> Begins(w, Prices[d])'
      BY <3>4 DEF Begins
    <3> QED
      BY <1>a, <1>c, <3>1, <3>2, <3>3, <3>4, <3>5
  <2>2. CASE v # w
    <3>1. pc[v] = "check" /\ qpd[v] \in Objs \ {o} /\ qpd'[v] = qpd[v] /\ Inner(v)' = Inner(v)
      BY <1>e, <1>r, <2>2 DEF HoldsQpd, Types
    <3>2. Slice(qpd[v])' = Slice(qpd[v]) /\ qpdObj'[qpd[v]] = qpdObj[qpd[v]]
      BY <1>a, <1>c, <3>1 DEF Slice
    <3> QED
      BY <1>a, <3>1, <3>2 DEF Checked, Begins
  <2> QED
    BY <2>1, <2>2
<1>10. Outer'
  BY <1>a, <1>e, <1>r DEF Outer
<1>11. Seen'
  <2>1. \A p \in Objs : qpdObj'[p].isin \in {qpdObj[p].isin, d} /\ (d \notin HasIsin => qpdObj'[p].isin = qpdObj[p].isin)
    BY <1>c
  <2>2. d \notin input
    BY <1>a, <1>d0 DEF Seen, Inner, Types, Locals, Active
  <2> QED
    BY <1>a, <1>c, <2>1, <2>2 DEF Seen
<1>12. Quotes'
  BY DEF Types, Locals, DecodeRest, poolVars, Quotes, Active, HoldsQpd
<1>13. FieldsOwnOrLeft'
  BY DEF Types, Locals, DecodeRest, poolVars, FieldsOwnOrLeft, Active, HoldsQpd
<1> QED
  BY <1>1, <1>2, <1>3, <1>4, <1>5, <1>6, <1>7, <1>8, <1>9, <1>10, <1>11, <1>12, <1>13

\* The quote leaves with the slice of its target, and both targets go back.
LEMMA ReturnStep == ASSUME IInv, NEW w \in Workers, Return(w) PROVE IInv'
<1> USE DEF IInv
<1>1. Types'
  BY RawAssumption DEF Types, Locals, Return, PutBoth, PutMsg, Quote, Slices, Statements, Active, HoldsQpd
<1>2. Locals'
  BY DEF Types, Locals, Return, PutBoth, PutMsg, Quote, Active, HoldsQpd
<1>3. TargetsHeldOnce'
  BY DEF Types, Locals, Return, PutBoth, PutMsg, Quote, TargetsHeldOnce, Active, HoldsQpd
<1>4. OneWorker'
  BY DEF Types, Locals, Return, PutBoth, PutMsg, Quote, OneWorker, Active
<1>5. MadeBy'
  BY DEF Types, Locals, Return, PutBoth, PutMsg, Quote, MadeBy, Active, HoldsQpd, Slice
<1>6. Apart'
  BY DEF Types, Locals, Return, PutBoth, PutMsg, Quote, Apart, Slice, Active, HoldsQpd
<1>7. Fits'
  BY DEF Types, Locals, Return, PutBoth, PutMsg, Quote, Fits, Slice, Active, HoldsQpd
<1>8. Decoded'
  BY DEF Types, Locals, Return, PutBoth, PutMsg, Quote, Decoded, Begins, Inner, Slice, Active, HoldsQpd
<1>9. Checked'
  BY DEF Types, Locals, Return, PutBoth, PutMsg, Quote, Checked, Begins, Inner, Slice, Active, HoldsQpd
<1>10. Outer'
  BY DEF Types, Locals, Return, PutBoth, PutMsg, Quote, Outer, Inner, Active, HoldsQpd
<1>11. Seen'
  BY DEF Types, Locals, Return, PutBoth, PutMsg, Quote, Seen, Active, HoldsQpd
<1>12. Quotes'
  BY DEF Types, Locals, Return, PutBoth, PutMsg, Quote, Quotes, Active, HoldsQpd
<1>13. FieldsOwnOrLeft'
  <2>1. UNCHANGED input
    BY DEF Return
  <2>2. ASSUME qpdObj[qpd[w]].isin # None
        PROVE  LET q == Quote(w)
               IN  /\ q.of \in HasMeta => q.meta = q.of
                   /\ q.of \in HasData => q.data = q.of
                   /\ q.data \in HasIsin => q.isin = q.data
                   /\ {q.of, q.data, q.isin} \cap input = {} /\ q.isin \in HasIsin
    <3>1. pc[w] = "check" /\ raw[w] \notin input /\ msg[w] \in Objs /\ qpd[w] \in Objs
      BY DEF Return, Types, Locals, OneWorker, Active, HoldsQpd
    <3> QED
      BY <2>2, <3>1 DEF Quote, Checked, Outer, Seen, Inner
  <2> QED
    BY <2>1, <2>2 DEF Return, FieldsOwnOrLeft
<1> QED
  BY <1>1, <1>2, <1>3, <1>4, <1>5, <1>6, <1>7, <1>8, <1>9, <1>10, <1>11, <1>12, <1>13

\* InsertBatch reads the prices of a quote.
LEMMA InsertStep == ASSUME IInv, NEW q \in parsed, Insert(q) PROVE IInv'
<1> USE DEF IInv
<1>1. Types'
  BY DEF Types, Locals, Insert, poolVars, Slices, Statements, Active, HoldsQpd
<1>2. Locals'
  BY DEF Types, Locals, Insert, poolVars, Active, HoldsQpd
<1>3. TargetsHeldOnce'
  BY DEF Types, Locals, Insert, poolVars, TargetsHeldOnce, Active, HoldsQpd
<1>4. OneWorker'
  BY DEF Types, Locals, Insert, poolVars, OneWorker, Active
<1>5. MadeBy'
  BY DEF Types, Locals, Insert, poolVars, MadeBy, Active, HoldsQpd, Slice
<1>6. Apart'
  BY DEF Types, Locals, Insert, poolVars, Apart, Slice, Active, HoldsQpd
<1>7. Fits'
  BY DEF Types, Locals, Insert, poolVars, Fits, Slice, Active, HoldsQpd
<1>8. Decoded'
  BY DEF Types, Locals, Insert, poolVars, Decoded, Begins, Inner, Slice, Active, HoldsQpd
<1>9. Checked'
  BY DEF Types, Locals, Insert, poolVars, Checked, Begins, Inner, Slice, Active, HoldsQpd
<1>10. Outer'
  BY DEF Types, Locals, Insert, poolVars, Outer, Inner, Active, HoldsQpd
<1>11. Seen'
  BY DEF Types, Locals, Insert, poolVars, Seen, Active, HoldsQpd
<1>12. Quotes'
  BY DEF Types, Locals, Insert, poolVars, Quotes, Active, HoldsQpd
<1>13. FieldsOwnOrLeft'
  BY DEF Types, Locals, Insert, poolVars, FieldsOwnOrLeft, Active, HoldsQpd
<1> QED
  BY <1>1, <1>2, <1>3, <1>4, <1>5, <1>6, <1>7, <1>8, <1>9, <1>10, <1>11, <1>12, <1>13

\* The invariant holds while no target has been made.
LEMMA InitInv == ASSUME Init PROVE IInv
<1> USE RawAssumption DEF Init
<1>1. Types /\ Locals
  <2>1. NilSlice \in Slices
    BY DEF NilSlice, Slices
  <2> QED
    BY <2>1 DEF Types, Locals, Statements, Active, HoldsQpd
<1>2. TargetsHeldOnce /\ OneWorker /\ Decoded /\ Checked /\ Outer
  BY DEF TargetsHeldOnce, OneWorker, Decoded, Checked, Outer, Active, HoldsQpd
<1>3. MadeBy /\ Apart /\ Fits
  BY DEF MadeBy, Apart, Fits, Slice, NilSlice
<1>4. Seen /\ Quotes /\ FieldsOwnOrLeft
  BY DEF Seen, Quotes, FieldsOwnOrLeft
<1> QED
  BY <1>1, <1>2, <1>3, <1>4 DEF IInv

\* Where nothing happens everything stays as it is.
LEMMA StutterStep == ASSUME IInv, UNCHANGED vars PROVE IInv'
<1> USE DEF IInv, vars, poolVars, Active, HoldsQpd
<1>1. Types' /\ Locals' /\ TargetsHeldOnce' /\ OneWorker'
  BY DEF Types, Locals, TargetsHeldOnce, OneWorker
<1>2. MadeBy' /\ Apart' /\ Fits'
  BY DEF MadeBy, Apart, Fits, Slice
<1>3. Decoded' /\ Checked' /\ Outer'
  BY DEF Decoded, Checked, Outer, Slice, Begins, Inner
<1>4. Seen' /\ Quotes' /\ FieldsOwnOrLeft'
  BY DEF Seen, Quotes, FieldsOwnOrLeft
<1> QED
  BY <1>1, <1>2, <1>3, <1>4

\* Every step keeps the invariant.
LEMMA NextStep == ASSUME IInv, [Next]_vars PROVE IInv'
<1>1. CASE Done \/ UNCHANGED vars
  BY <1>1, StutterStep DEF Done
<1>2. ASSUME NEW w \in Workers,
             \/ \E m \in Raws, o \in Objs : Take(w, m, o)
             \/ UnmarshalMsg(w) \/ InnerError(w) \/ DecodePrice(w) \/ DecodeRest(w) \/ Return(w)
             \/ \E o \in Objs : TakeQpd(w, o)
      PROVE  IInv'
  BY <1>2, TakeStep, UnmarshalMsgStep, TakeQpdStep, InnerErrorStep, DecodePriceStep, DecodeRestStep, ReturnStep
<1>3. ASSUME NEW q \in parsed, Insert(q) PROVE IInv'
  BY <1>3, InsertStep
<1> QED
  BY <1>1, <1>2, <1>3 DEF Next

\* The invariant holds in every behaviour.
LEMMA Invariance == Spec => []IInv
BY InitInv, NextStep, PTL DEF Spec
-----------------------------------------------------------------------------
\* The targets have the fields of messages, a slice fits into its array and a
\* running call holds targets that New has made.
THEOREM TypeCorrect == Spec => []TypeOK
<1>1. IInv => TypeOK
  BY DEF IInv, Types, Locals, Fits, Quotes, TypeOK, Statements, Slice
<1> QED
  BY <1>1, Invariance, PTL

\* Two calls of ParseBondQuote never have a target in common, for any number of
\* workers and whatever path the calls return by: the deferred Puts are the
\* last use of a target (lines 97-104).
THEOREM HeldOnce == Spec => []TargetsHeldOnce
<1>1. IInv => TargetsHeldOnce
  BY DEF IInv
<1> QED
  BY <1>1, Invariance, PTL

\* A quote has the fields of its message, and where the message lacks one what
\* a message taken before left in the target (lines 97-117).
THEOREM OwnOrLeft == Spec => []FieldsOwnOrLeft
<1>1. IInv => FieldsOwnOrLeft
  BY DEF IInv
<1> QED
  BY <1>1, Invariance, PTL

\* A quote is returned with the prices of its inner JSON.
LEMMA ReturnsOwnPrices ==
    ASSUME IInv, [Next]_vars
    PROVE  \A q \in parsed' \ parsed : q.data \in HasPrices =>
             LET s == Elements(q.prices)'
             IN  Len(s) = Prices[q.data] /\ \A i \in 1 .. Len(s) : Own(s[i], q.data)
<1> DEFINE s(q) == Elements(q.prices)'
<1> SUFFICES ASSUME NEW q \in parsed' \ parsed, q.data \in HasPrices
             PROVE  Len(s(q)) = Prices[q.data] /\ \A i \in 1 .. Len(s(q)) : Own(s(q)[i], q.data)
  OBVIOUS
<1>1. PICK w \in Workers : Return(w) /\ q = Quote(w)
  <2>1. \E w \in Workers : Return(w)
    BY DEF Next, Take, UnmarshalMsg, TakeQpd, InnerError, DecodePrice, DecodeRest, Insert, Done, vars
  <2> QED
    BY <2>1 DEF Return
<1>2. pc[w] = "check" /\ heap' = heap
  BY <1>1 DEF Return
<1>3. q.data = Inner(w) /\ q.prices = Slice(qpd[w])
  BY <1>1 DEF Quote, Slice
<1>4. /\ q.prices.len = Prices[q.data] /\ Prices[q.data] \in Nat
      /\ \A i \in 1 .. Prices[q.data] : Own(heap[q.prices.arr][i], q.data)
  BY <1>2, <1>3, RawAssumption DEF IInv, Checked, Begins, OwnFrom
<1>5. s(q) = [i \in 1 .. Prices[q.data] |-> heap[q.prices.arr][i]]
  BY <1>2, <1>4 DEF Elements
<1>6. Len(s(q)) = Prices[q.data]
  BY <1>4, <1>5
<1> QED
  BY <1>4, <1>5, <1>6

\* A quote has the prices of its inner JSON when it is returned, however long
\* the lists that were decoded into the target before, and whether those
\* messages were refused or not (lines 105-117).
THEOREM PricesAtReturn == Spec => PricesOwnAtReturn
<1>1. IInv /\ [Next]_vars => [\A q \in parsed' \ parsed : q.data \in HasPrices =>
             LET s == Elements(q.prices)'
             IN  Len(s) = Prices[q.data] /\ \A i \in 1 .. Len(s) : Own(s[i], q.data)]_vars
  BY ReturnsOwnPrices
<1> QED
  BY <1>1, Invariance, PTL DEF Spec, PricesOwnAtReturn
=============================================================================
