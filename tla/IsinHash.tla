------------------------------ MODULE IsinHash ------------------------------
(***************************************************************************)
(* Which DB worker an ISIN goes to: hash(s) % workerNum                    *)
(* (service/bond_quote_service.go:163, 328-337), on integers that wrap     *)
(* around.  A string is the sequence of its characters' codes.             *)
(***************************************************************************)
EXTENDS Integers, Sequences

CONSTANT Half   \* an int is -Half .. Half - 1; Half is 2^63 on the machine

Ints == -Half .. Half - 1
Wrap(x) == ((x + Half) % (2 * Half)) - Half

\* h is what the loop's variable holds before each character and at the end.
IsLoop(s, h) ==
    /\ h \in [0 .. Len(s) -> Int] /\ h[0] = 0
    /\ \A k \in 1 .. Len(s) : h[k] = Wrap(h[k - 1] * 31 + s[k])
Sum(s) ==
    LET h[k \in 0 .. Len(s)] == IF k = 0 THEN 0 ELSE Wrap(h[k - 1] * 31 + s[k])
    IN  h[Len(s)]

\* The negation wraps around too: the smallest integer stays as it is.
Magnitude(h) == IF h < 0 THEN Wrap(-h) ELSE h

\* Go's remainder has the sign of the dividend.
Remainder(a, n) == IF a < 0 THEN -((-a) % n) ELSE a % n

WorkerIndex(s, workerNum) == Remainder(Magnitude(Sum(s)), workerNum)
=============================================================================
