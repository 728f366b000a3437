-------------------------- MODULE AtMostOnceDelivery --------------------------
(***************************************************************************)
(* What the Telegram outbox promises of a command, and the publishers of a *)
(* lot: it is accepted by Telegram at most once after it was submitted,    *)
(* and what the database says of it is true.  "unknown" is an honest       *)
(* verdict: nothing is sent again after it, although a request that is     *)
(* still on its way may yet arrive.                                        *)
(***************************************************************************)
EXTENDS Naturals

CONSTANT Commands

VARIABLES
    verdict,    \* what the database says of a command
    accepted    \* how many times Telegram accepted it

Verdicts == {"none", "open", "sent", "notsent", "unknown"}

Init ==
    /\ verdict = [c \in Commands |-> "none"]
    /\ accepted = [c \in Commands |-> 0]

Pronounce(S, v) ==
    /\ verdict' = [c \in Commands |-> IF c \in S THEN v ELSE verdict[c]]
    /\ UNCHANGED accepted

Submit(S) ==
    /\ \A c \in S : verdict[c] = "none"
    /\ Pronounce(S, "open")

Accept(c) ==
    /\ verdict[c] \in {"open", "unknown"}
    /\ accepted[c] = 0
    /\ accepted' = [accepted EXCEPT ![c] = 1]
    /\ UNCHANGED verdict

ReportSent(c) ==
    /\ verdict[c] \in {"open", "unknown"}
    /\ accepted[c] = 1
    /\ Pronounce({c}, "sent")

ReportNotSent(c) ==
    /\ verdict[c] = "open"
    /\ accepted[c] = 0
    /\ Pronounce({c}, "notsent")

GiveUp(S) ==
    /\ \A c \in S : verdict[c] = "open"
    /\ Pronounce(S, "unknown")

Replay(c) ==
    /\ verdict[c] = "notsent"
    /\ Pronounce({c}, "open")

Next ==
    \/ \E S \in SUBSET Commands : Submit(S) \/ GiveUp(S)
    \/ \E c \in Commands : Accept(c) \/ ReportSent(c) \/ ReportNotSent(c) \/ Replay(c)

Spec == Init /\ [][Next]_<<verdict, accepted>>
===============================================================================
