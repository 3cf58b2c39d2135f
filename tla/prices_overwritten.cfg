SPECIFICATION Spec
CONSTANTS
    r1 = r1  r2 = r2  r3 = r3  r4 = r4  r5 = r5
    None = None
    Workers = {w1, w2}
    Objs = {o1, o2}
    Raws = {r1, r2, r3, r4, r5}
    HasMeta <- MCHasMeta
    HasData <- MCHasData
    HasIsin <- MCHasIsin
    HasPrices <- MCHasPrices
    Prices <- MCPrices
    MaxPrices = 3
    Sparse <- MCSparse
    Mistyped <- MCMistyped
    BadInner <- MCBadInner
PROPERTIES PricesStayOwn
