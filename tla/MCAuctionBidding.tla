--------------------------- MODULE MCAuctionBidding ---------------------------
EXTENDS AuctionBidding, TLC

CONSTANTS m1, m2, b1, s1, s2

D(n) == [amount |-> n, currency |-> "diamonds"]
C(n) == [amount |-> n, currency |-> "cups"]
Both == {"diamonds", "cups"}

\* An ordinary lot, one a moderator opened to both currencies, and a reverse lot
\* that accepts both.
MCLots == {[kind |-> "standard", start |-> 30, currency |-> "diamonds", accepted |-> {"diamonds"}],
           [kind |-> "standard", start |-> 10, currency |-> "cups", accepted |-> Both],
           [kind |-> "reverse", start |-> 20, currency |-> "cups", accepted |-> Both]}
ReverseLot == {l \in MCLots : l.kind = "reverse"}

MCOffers == {D(30), D(40), C(12)}
ReverseOffers == {C(10), C(8), D(90), D(80)}

\* Both messages of one bidder: transactions also meet at the bidder's row.
MCAuthor == [m \in {m1, m2} |-> b1]

Symmetry == Permutations({s1, s2})
===============================================================================
