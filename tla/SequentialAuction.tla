--------------------------- MODULE SequentialAuction ---------------------------
(***************************************************************************)
(* What bidding promises: the ledger of a lot is the work of an auctioneer *)
(* who has all of it before him and answers one message at a time.  Who    *)
(* improves on whom is settled before the first bid.                       *)
(***************************************************************************)
CONSTANTS
    Msgs, Offers,
    NoBid, Unread

VARIABLES
    better,     \* the pairs of offers of which the first improves on the second
    open,       \* the lot takes bids
    ledger,     \* the bid a message stands for
    announced   \* the result: Unread, NoBid or an offer

vars == <<better, open, ledger, announced>>

Standing == {m \in Msgs : ledger[m] # NoBid}

\* o improves on every bid but that of m.
Leads(o, m) == \A n \in Standing \ {m} : <<o, ledger[n]>> \in better

Init ==
    /\ better \subseteq Offers \X Offers
    /\ open = TRUE
    /\ ledger = [m \in Msgs |-> NoBid]
    /\ announced = Unread

\* A first bid, or another one in its place.
Enter(m, o) ==
    /\ open
    /\ Leads(o, m)
    /\ ledger' = [ledger EXCEPT ![m] = o]
    /\ UNCHANGED <<better, open, announced>>

Strike(m) ==
    /\ ledger' = [ledger EXCEPT ![m] = NoBid]
    /\ UNCHANGED <<better, open, announced>>

Close ==
    /\ open
    /\ open' = FALSE
    /\ UNCHANGED <<better, ledger, announced>>

Announce ==
    /\ ~open
    /\ announced = Unread
    /\ \/ Standing = {} /\ announced' = NoBid
       \/ \E m \in Standing : Leads(ledger[m], m) /\ announced' = ledger[m]
    /\ UNCHANGED <<better, open, ledger>>

Next ==
    \/ \E m \in Msgs, o \in Offers : Enter(m, o)
    \/ \E m \in Msgs : Strike(m)
    \/ Close \/ Announce

Spec == Init /\ [][Next]_vars
===============================================================================
