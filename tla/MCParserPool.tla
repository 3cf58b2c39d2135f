---------------------------- MODULE MCParserPool ----------------------------
(***************************************************************************)
(* ParserPool on a small instance: two complete messages, with lists of    *)
(* three prices and of one; r3 has no ISIN, and its two prices lack a      *)
(* field; r4 has a field of the wrong type among its outer ones and one    *)
(* in its inner JSON, which it leaves in the target for r5, whose outer    *)
(* JSON has no data field.                                                 *)
(***************************************************************************)
EXTENDS ParserPool, TLC

CONSTANTS r1, r2, r3, r4, r5

MCHasMeta == {r1, r2, r3, r5}
MCHasData == {r1, r2, r3, r4}
MCHasIsin == {r1, r2, r4}
MCHasPrices == {r1, r2, r3, r4}
MCPrices == (r1 :> 3) @@ (r2 :> 1) @@ (r3 :> 2) @@ (r4 :> 1) @@ (r5 :> 0)
MCSparse == {r3}
MCMistyped == {r4}
MCBadInner == {r4}
Symm == Permutations(Workers) \cup Permutations(Objs)
=============================================================================
