SPECIFICATION AnsweringSpec
PROPERTY RestartListens
CONSTANTS
    Listeners = {a1, a2}
    First = a1
    TokenLengths <- MCTokenLengths
