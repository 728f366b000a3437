------------------------ MODULE MCExchangePublication ------------------------
EXTENDS ExchangePublication, TLC

CONSTANTS b1, p1, p2, p3, low, high, redacted

\* No property tells two presses or two offers apart.
Alike == Permutations(Presses) \cup Permutations(Offers)
=============================================================================
