---------------------------- MODULE AuctionBidding ----------------------------
(***************************************************************************)
(* The bids of one open lot: the transactions of AuctionBidService, the    *)
(* moderators' deletions, the userbot's reaction to edited and deleted     *)
(* messages, and the finalizer that reads the result.                      *)
(*                                                                         *)
(* A session holds row locks (SELECT ... FOR UPDATE, or a row it wrote)    *)
(* until its transaction ends.  Every lock is taken by an action of its    *)
(* own, and a bid that was checked is visible to the others only when the  *)
(* transaction commits: waiting, deadlock and stale reads are visible.     *)
(* A bid is named by the chat message it was read from.                    *)
(***************************************************************************)
EXTENDS Integers, FiniteSets, Sequences

CONSTANTS
    Lots,       \* [kind, start, currency, accepted]
    Offers,     \* [amount, currency]: what a message can say
    Bidders,
    Msgs,
    Author,     \* the bidder who wrote a message
    Sessions    \* database sessions of handlers, in the bot and in the userbot

Currencies == {"diamonds", "cups"}

ASSUME LotsAssumption ==
    /\ Offers \subseteq [amount : Nat \ {0}, currency : Currencies]
    /\ Lots \subseteq [kind : {"standard", "reverse"}, start : Nat,
                       currency : Currencies, accepted : SUBSET Currencies]

ASSUME AuthorAssumption == Author \in [Msgs -> Bidders]

VARIABLES
    lot,
    status,     \* of the lot: "active", "finalizing", "finished"
    ended,      \* the displayed bidding minute is over
    bids,       \* public.bids: message -> NoBid or an offer
    fresh,      \* the messages whose bids are at most a minute old
    result,     \* what the finalizer announces: Unread, NoBid or an offer
    task, held  \* per session: what it does, and how many of its locks it holds

lotVars == <<lot, status, ended>>
ledger == <<bids, fresh>>
sessionVars == <<task, held>>
vars == <<lotVars, ledger, result, sessionVars>>

NoBid == [amount |-> 0, currency |-> "none"]
Unread == [amount |-> 0, currency |-> "unread"]

Placed == {m \in Msgs : bids[m] # NoBid}

-------------------------------------------------------------------------------
(* Sessions and their row locks *)

\* "place", "revise", "remove": AuctionBidService; "admin": delete_bid_with_warning;
\* "prune": /recalc_lot; "edited": the userbot's on_edited and on_deleted, and
\* "erase" once they have decided to delete.
Kinds == {"place", "revise", "remove", "admin", "prune", "edited", "erase"}

\* One step of a task: "lock" until it holds its locks, "commit" once its bid is
\* accepted.  early: it began before the deadline; young: the bid was then fresh.
Tasks == [kind : Kinds, step : {"lock", "commit"}, msg : Msgs,
          offer : Offers \cup {NoBid}, early : BOOLEAN, young : BOOLEAN]

Idle == [kind |-> "idle", step |-> "lock"]

Auction == <<"auction">>
BidRow(m) == <<"bid", m>>
UserRow(u) == <<"user", u>>

\* Mutant of LocksOf: the removal of an edited bid starts with the lot
LocksOfAuctionFirst(t) ==
    CASE t.kind = "place"  -> <<Auction, UserRow(Author[t.msg])>>
      [] t.kind = "revise" -> <<BidRow(t.msg), Auction>>
      [] t.kind = "remove" -> <<Auction, BidRow(t.msg)>>
      [] t.kind = "admin"  -> <<BidRow(t.msg), UserRow(Author[t.msg])>>
      [] t.kind \in {"prune", "erase"} -> <<BidRow(t.msg)>>
      [] OTHER -> << >>

\* The rows a task locks, in the order of its statements.  ensure_user writes the
\* bidder's row; delete_bid_with_warning locks it with the bid.
LocksOf(t) ==
    CASE t.kind = "place" -> <<Auction, UserRow(Author[t.msg])>>
      [] t.kind \in {"revise", "remove"} -> <<BidRow(t.msg), Auction>>
      [] t.kind = "admin" -> <<BidRow(t.msg), UserRow(Author[t.msg])>>
      [] t.kind \in {"prune", "erase"} -> <<BidRow(t.msg)>>
      [] OTHER -> << >>

Locked(s) == {LocksOf(task[s])[i] : i \in 1..held[s]}
Free(x) == \A s \in Sessions : x \notin Locked(s)

Wants(s, x) ==
    /\ held[s] < Len(LocksOf(task[s]))
    /\ LocksOf(task[s])[held[s] + 1] = x

Doing(s, k) == task[s].kind = k

\* It holds all its locks and has not been answered yet.
Ready(s, k) ==
    /\ Doing(s, k)
    /\ held[s] = Len(LocksOf(task[s]))
    /\ task[s].step = "lock"

\* The transaction of session s commits, or is rolled back.
End(s) ==
    /\ task' = [task EXCEPT ![s] = Idle]
    /\ held' = [held EXCEPT ![s] = 0]

\* Session s waits for x, reads the row and goes on if it finds what it needs.
Lock(s, x, found) ==
    /\ Wants(s, x)
    /\ Free(x)
    /\ IF found
       THEN held' = [held EXCEPT ![s] = @ + 1] /\ UNCHANGED task
       ELSE End(s)

-------------------------------------------------------------------------------
(* The rules *)

BidStep(c) == IF c = "cups" THEN 2 ELSE 10

\* comparison_units, with TEA_TO_DIAMONDS
Units(amount, c) == IF c = "cups" THEN 10 * amount ELSE amount

\* a improves on b by a step of its own currency.  Only reverse lots convert.
Beats(a, b) ==
    IF lot.kind = "reverse"
    THEN Units(a.amount + BidStep(a.currency), a.currency) <= Units(b.amount, b.currency)
    ELSE a.amount >= b.amount + BidStep(a.currency)

\* parse_bid_offer, validate_bid_for_kind and validate_reverse_offer, against the
\* bids of M.  A reverse lot of old has no ceiling: its start is 0.
ServiceAccepts(M, o) ==
    /\ o.currency \in lot.accepted
    /\ \A m \in M : Beats(o, bids[m])
    /\ IF lot.kind = "reverse"
       THEN /\ o.amount % BidStep(o.currency) = 0
            /\ M = {} /\ lot.start > 0 =>
                  Units(o.amount, o.currency) <= Units(lot.start, lot.currency)
       ELSE /\ (o.amount - lot.start) % BidStep(o.currency) = 0
            /\ o.amount >= lot.start + (IF M = {} THEN 0 ELSE BidStep(o.currency))

\* The least price of a lot in a currency
Least(c) == IF c = "cups" THEN 2 ELSE 30

\* The CHECK is_valid_bid of the table: the amount alone, with the step of the lot's
\* currency, and against every row there is, on an UPDATE the row itself included.
DatabaseAccepts(o) ==
    LET step == BidStep(lot.currency)
        least == Least(lot.currency)
        anchor == IF lot.start > least THEN lot.start ELSE least
    IN  IF lot.kind = "reverse"
        THEN /\ o.amount >= step
             /\ o.amount % step = 0
             /\ \A m \in Placed : o.amount <= bids[m].amount - step
        ELSE /\ o.amount >= anchor
             /\ (o.amount - anchor) % step = 0
             /\ \A m \in Placed : o.amount >= bids[m].amount + step

Open == status = "active" /\ ~ended

-------------------------------------------------------------------------------
(* The transactions *)

\* An update arrives, perhaps not for the first time.  A revision and a removal read
\* the clock now, before they wait for their locks.
Receive(s, k, m, o) ==
    /\ task[s] = Idle
    /\ k # "place" => m \in Placed
    /\ k \in {"place", "revise"} <=> o # NoBid
    /\ k # "erase"
    /\ task' = [task EXCEPT ![s] =
                   [kind |-> k, step |-> "lock", msg |-> m, offer |-> o,
                    early |-> k \in {"revise", "remove"} /\ ~ended,
                    young |-> k = "revise" /\ m \in fresh]]
    /\ UNCHANGED <<lotVars, ledger, result, held>>

LockBid(s) ==
    /\ \E k \in {"revise", "remove", "admin"} : Doing(s, k)
    /\ Lock(s, BidRow(task[s].msg), task[s].msg \in Placed)
    /\ UNCHANGED <<lotVars, ledger, result>>

\* Mutant of LockAuction: the lot is read without FOR UPDATE
ReadAuction(s) ==
    /\ Wants(s, Auction)
    /\ IF IF Doing(s, "place") THEN Open ELSE task[s].early /\ status = "active"
       THEN held' = [held EXCEPT ![s] = @ + 1] /\ UNCHANGED task
       ELSE End(s)
    /\ UNCHANGED <<lotVars, ledger, result>>

\* Mutant of LockAuction: a revision looks at the deadline alone
LockAuctionUnlessEnded(s) ==
    /\ Lock(s, Auction, IF Doing(s, "place") THEN Open ELSE task[s].early)
    /\ UNCHANGED <<lotVars, ledger, result>>

\* _assert_active, once the row is locked; place reads the clock only now.
LockAuction(s) ==
    /\ Lock(s, Auction, IF Doing(s, "place") THEN Open
                        ELSE task[s].early /\ status = "active")
    /\ UNCHANGED <<lotVars, ledger, result>>

LockBidder(s) ==
    /\ Lock(s, UserRow(Author[task[s].msg]), TRUE)
    /\ UNCHANGED <<lotVars, ledger, result>>

\* _place_locked: the best bid is read, the offer validated, the row inserted.  A
\* message that has a bid already was delivered twice.
CheckBid(s) ==
    LET t == task[s] IN
    /\ Ready(s, "place")
    /\ IF t.msg \notin Placed /\ ServiceAccepts(Placed, t.offer) /\ DatabaseAccepts(t.offer)
       THEN task' = [task EXCEPT ![s].step = "commit"] /\ UNCHANGED held
       ELSE End(s)
    /\ UNCHANGED <<lotVars, ledger, result>>

\* /oops with an amount
CheckRevision(s) ==
    LET t == task[s] IN
    /\ Ready(s, "revise")
    /\ IF t.young /\ ServiceAccepts(Placed \ {t.msg}, t.offer) /\ DatabaseAccepts(t.offer)
       THEN task' = [task EXCEPT ![s].step = "commit"] /\ UNCHANGED held
       ELSE End(s)
    /\ UNCHANGED <<lotVars, ledger, result>>

\* The inserted or updated row becomes visible.
Commit(s) ==
    LET t == task[s] IN
    /\ t.step = "commit"
    /\ bids' = [bids EXCEPT ![t.msg] = t.offer]
    /\ fresh' = IF t.kind = "place" THEN fresh \cup {t.msg} ELSE fresh
    /\ End(s)
    /\ UNCHANGED <<lotVars, result>>

Erase(s) ==
    /\ bids' = [bids EXCEPT ![task[s].msg] = NoBid]
    /\ fresh' = fresh \ {task[s].msg}
    /\ End(s)
    /\ UNCHANGED <<lotVars, result>>

\* /oops without an amount
CancelBid(s) ==
    /\ Ready(s, "revise") /\ task[s].young
    /\ Erase(s)

RemoveBid(s) == Ready(s, "remove") /\ Erase(s)

AdminDelete(s) == Ready(s, "admin") /\ Erase(s)

\* on_edited, on_deleted: the lot is read and let go, then the bid is deleted.
CheckLotOfEdited(s) ==
    /\ Doing(s, "edited")
    /\ IF ended \/ status = "finished"
       THEN End(s)
       ELSE task' = [task EXCEPT ![s].kind = "erase"] /\ UNCHANGED held
    /\ UNCHANGED <<lotVars, ledger, result>>

\* _delete_bid_by_id: a statement of its own, that locks the row it deletes
DeleteRow(s) ==
    /\ Doing(s, "prune") \/ Doing(s, "erase")
    /\ Free(BidRow(task[s].msg))
    /\ Erase(s)

\* The connection is lost, or the bidder is refused (banned, not eligible, not the
\* author): the transaction is rolled back.
Abort(s) ==
    /\ task[s] # Idle
    /\ End(s)
    /\ UNCHANGED <<lotVars, ledger, result>>

-------------------------------------------------------------------------------
(* The lot: the clock, a moderator, the finalizer *)

Deadline ==
    /\ ~ended
    /\ ended' = TRUE
    /\ UNCHANGED <<lot, status, ledger, result, sessionVars>>

\* The revision window of a bid is over.
Ages(m) ==
    /\ m \in fresh
    /\ fresh' = fresh \ {m}
    /\ UNCHANGED <<lotVars, bids, result, sessionVars>>

\* Its end_time is now: the minute shown is not over yet.
FinishNow ==
    /\ status = "active"
    /\ Free(Auction)
    /\ status' = "finished"
    /\ UNCHANGED <<lot, ended, ledger, result, sessionVars>>

\* Mutant of Claim: the claim does not look at row locks
ClaimLocked ==
    /\ status = "active" /\ ended
    /\ status' = "finalizing"
    /\ UNCHANGED <<lot, ended, ledger, result, sessionVars>>

\* claim_due, FOR UPDATE SKIP LOCKED
Claim ==
    /\ status = "active" /\ ended
    /\ Free(Auction)
    /\ status' = "finalizing"
    /\ UNCHANGED <<lot, ended, ledger, result, sessionVars>>

\* Mutant of Winners: the highest bid wins a reverse lot as well
WinnersHighest == {m \in Placed : \A n \in Placed : bids[m].amount >= bids[n].amount}

\* get_winner: the best value; the earlier of two equals
Winners ==
    LET value(b) == IF lot.kind = "reverse" THEN -Units(b.amount, b.currency) ELSE b.amount
    IN  {m \in Placed : \A n \in Placed : value(bids[m]) >= value(bids[n])}

\* get_bids, and what announce_winner makes of them
ReadResult ==
    /\ status = "finalizing" /\ result = Unread
    /\ \/ Placed = {} /\ result' = NoBid
       \/ \E m \in Winners : result' = bids[m]
    /\ UNCHANGED <<lotVars, ledger, sessionVars>>

MarkFinished ==
    /\ status = "finalizing" /\ result # Unread
    /\ Free(Auction)
    /\ status' = "finished"
    /\ UNCHANGED <<lot, ended, ledger, result, sessionVars>>

-------------------------------------------------------------------------------
Init ==
    /\ lot \in Lots
    /\ status = "active"
    /\ ended = FALSE
    /\ bids = [m \in Msgs |-> NoBid]
    /\ fresh = {}
    /\ result = Unread
    /\ task = [s \in Sessions |-> Idle]
    /\ held = [s \in Sessions |-> 0]

Session(s) ==
    \/ LockBid(s) \/ LockAuction(s) \/ LockBidder(s)
    \/ CheckBid(s) \/ CheckRevision(s) \/ Commit(s)
    \/ CancelBid(s) \/ RemoveBid(s) \/ AdminDelete(s)
    \/ CheckLotOfEdited(s) \/ DeleteRow(s)
    \/ Abort(s)

Finalizer == Claim \/ ReadResult \/ MarkFinished

Next ==
    \/ \E s \in Sessions, k \in Kinds, m \in Msgs, o \in Offers \cup {NoBid} :
          Receive(s, k, m, o)
    \/ \E s \in Sessions : Session(s)
    \/ \E m \in Msgs : Ages(m)
    \/ Deadline \/ FinishNow \/ Finalizer

Spec == Init /\ [][Next]_vars

-------------------------------------------------------------------------------
(* Properties *)

\* The ledger holds what the chat said, and a task holds no more locks than it takes.
TypeOK ==
    /\ lot \in Lots
    /\ status \in {"active", "finalizing", "finished"}
    /\ ended \in BOOLEAN
    /\ bids \in [Msgs -> Offers \cup {NoBid}]
    /\ fresh \subseteq Msgs
    /\ result \in Offers \cup {NoBid, Unread}
    /\ task \in [Sessions -> Tasks \cup {Idle}]
    /\ held \in [Sessions -> 0..2]
    /\ \A s \in Sessions : held[s] <= Len(LocksOf(task[s]))

\* Of any two bids one improves on the other by a full step: concurrent bids,
\* revisions and deletions never leave a tie, and the lot has one leader.
OneLeader ==
    \A m, n \in Placed : m # n => Beats(bids[m], bids[n]) \/ Beats(bids[n], bids[m])

\* Once the finalizer or a moderator has taken the lot out of bidding, no
\* transaction that was under way adds or changes a bid; it can only delete one.
LedgerFrozen ==
    [][status # "active" => \A m \in Msgs : bids'[m] \in {bids[m], NoBid}]_vars

\* Nobody's bid in the ledger is as good as the one announced, or better.
WinnerStands ==
    /\ result = NoBid => Placed = {}
    /\ result \in Offers =>
          \A m \in Placed : bids[m] = result \/ Beats(result, bids[m])

\* No set of transactions waits for each other's rows (PostgreSQL would abort one,
\* and the bid with it).
NoDeadlock ==
    \A S \in (SUBSET Sessions) \ {{}} :
        \E s \in S : \A t \in S : \A x \in Locked(t) : ~Wants(s, x)

\* The transactions are serializable: locks, stale clocks and commits in any order
\* write and announce what an auctioneer would who takes one message at a time and
\* sees the whole ledger.
Sequential == INSTANCE SequentialAuction
              WITH better <- {p \in Offers \X Offers : Beats(p[1], p[2])},
                   open <- status = "active",
                   ledger <- bids,
                   announced <- result
BidsAreSerial == Sequential!Spec

\* What the rules of the domain accept is not refused by the table.
AcceptedIsStored ==
    \A o \in Offers : Open /\ ServiceAccepts(Placed, o) => DatabaseAccepts(o)

\* A lot of one currency that starts no lower than the dialogue lets it
PlainLot ==
    /\ lot.accepted = {lot.currency}
    /\ lot.kind = "standard" => lot.start >= Least(lot.currency)

\* The two statements of the rules agree on such a lot, whatever transactions are under
\* way: its second currency alone makes the table refuse what the service accepts.
PlainLotStores == PlainLot => AcceptedIsStored

===============================================================================
