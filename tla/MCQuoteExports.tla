--------------------------- MODULE MCQuoteExports ---------------------------
(***************************************************************************)
(* QuoteExports over three days of two hours each: a quote with more asks  *)
(* than bids, in different hours, and one of another ISIN without prices.  *)
(***************************************************************************)
EXTENDS QuoteExports

CONSTANTS A, B

MCQuotes == {[isin |-> A, bids |-> <<1>>, asks |-> <<0, 1>>],
             [isin |-> B, bids |-> <<>>, asks |-> <<>>]}
\* West of Greenwich by half a day.
MCZone == -1
=============================================================================
