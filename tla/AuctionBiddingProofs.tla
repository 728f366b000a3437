------------------------- MODULE AuctionBiddingProofs -------------------------
(* Theorems about AuctionBidding, for every set of lots, offers, bidders,     *)
(* messages and database sessions.                                            *)
EXTENDS AuctionBidding, TLAPS

-------------------------------------------------------------------------------
(* The locks a task takes *)

\* No row is both a lot, a bid and a bidder.
LEMMA RowsDiffer ==
  /\ \A m \in Msgs : Auction # BidRow(m)
  /\ \A u \in Bidders : Auction # UserRow(u)
  /\ \A m \in Msgs, u \in Bidders : BidRow(m) # UserRow(u)
  BY DEF Auction, BidRow, UserRow

\* What LocksOf says, one kind of task at a time.
LEMMA LocksOfKind ==
  ASSUME NEW t \in Tasks \cup {Idle}
  PROVE  /\ t.kind = "place" => LocksOf(t) = <<Auction, UserRow(Author[t.msg])>>
         /\ t.kind \in {"revise", "remove"} => LocksOf(t) = <<BidRow(t.msg), Auction>>
         /\ t.kind = "admin" => LocksOf(t) = <<BidRow(t.msg), UserRow(Author[t.msg])>>
         /\ t.kind \in {"prune", "erase"} => LocksOf(t) = <<BidRow(t.msg)>>
         /\ t.kind \in {"edited", "idle"} => LocksOf(t) = << >>
         /\ t.kind \in Kinds \cup {"idle"}
         /\ t.kind # "idle" => t.msg \in Msgs /\ Author[t.msg] \in Bidders
  BY AuthorAssumption DEF AuthorAssumption, LocksOf, Tasks, Idle, Kinds

\* Who holds the lot: a placement from its first lock on, a revision and a removal
\* with their second.
LEMMA HoldsAuction ==
  ASSUME TypeOK, NEW s \in Sessions
  PROVE  Auction \in Locked(s) <=>
           \/ task[s].kind = "place" /\ held[s] \in {1, 2}
           \/ task[s].kind \in {"revise", "remove"} /\ held[s] = 2
  <1> DEFINE t == task[s]
  <1>1. t \in Tasks \cup {Idle} /\ held[s] \in 0..2 /\ held[s] <= Len(LocksOf(t))
    BY DEF TypeOK
  <1>2. CASE t.kind = "place"
    BY <1>1, <1>2, LocksOfKind, RowsDiffer DEF Locked
  <1>3. CASE t.kind \in {"revise", "remove"}
    BY <1>1, <1>3, LocksOfKind, RowsDiffer DEF Locked
  <1>4. CASE t.kind = "admin"
    BY <1>1, <1>4, LocksOfKind, RowsDiffer DEF Locked
  <1>5. CASE t.kind \in {"prune", "erase", "edited", "idle"}
    BY <1>1, <1>5, LocksOfKind, RowsDiffer DEF Locked
  <1> QED
    BY <1>1, <1>2, <1>3, <1>4, <1>5, LocksOfKind DEF Kinds

\* A session that waits holds nothing, or the first of its two rows: a row is waited
\* for in the order bid, lot, bidder.
LEMMA LockOrder ==
  ASSUME TypeOK, NEW s \in Sessions, NEW x \in Locked(s), NEW y, Wants(s, y)
  PROVE  \/ /\ x = Auction
            /\ y = UserRow(Author[task[s].msg]) /\ Author[task[s].msg] \in Bidders
         \/ /\ x = BidRow(task[s].msg) /\ task[s].msg \in Msgs
            /\ y \in {Auction, UserRow(Author[task[s].msg])}
            /\ Author[task[s].msg] \in Bidders
  <1> DEFINE t == task[s]
  <1>1. t \in Tasks \cup {Idle} /\ held[s] \in 0..2
    BY DEF TypeOK
  <1>2. CASE t.kind = "place"
    BY <1>1, <1>2, LocksOfKind DEF Locked, Wants
  <1>3. CASE t.kind \in {"revise", "remove", "admin"}
    BY <1>1, <1>3, LocksOfKind DEF Locked, Wants
  <1>4. CASE t.kind \in {"prune", "erase", "edited", "idle"}
    BY <1>1, <1>4, LocksOfKind DEF Locked, Wants
  <1> QED
    BY <1>1, <1>2, <1>3, <1>4, LocksOfKind DEF Kinds

\* The last lock of that order is never the reason of a wait cycle, and so, one lock
\* after the other, none is.
LEMMA NoCycle == TypeOK => NoDeadlock
  <1>1. SUFFICES ASSUME TypeOK,
                        NEW S \in (SUBSET Sessions) \ {{}},
                        \A s \in S : \E t \in S : \E x \in Locked(t) : Wants(s, x)
                 PROVE  FALSE
    BY DEF NoDeadlock
  <1>2. ASSUME NEW t \in S, NEW u \in Bidders, UserRow(u) \in Locked(t)
        PROVE  FALSE
    <2>1. PICK y : Wants(t, y)
      BY <1>1
    <2> QED
      BY <1>1, <1>2, <2>1, LockOrder, RowsDiffer
  <1>3. ASSUME NEW t \in S, Auction \in Locked(t)
        PROVE  FALSE
    <2>1. PICK v \in S : \E y \in Locked(v) : Wants(t, y)
      BY <1>1
    <2>3. PICK y \in Locked(v) : Wants(t, y)
      BY <2>1
    <2>2. y = UserRow(Author[task[t].msg]) /\ Author[task[t].msg] \in Bidders
      BY <1>1, <1>3, <2>3, LockOrder, RowsDiffer
    <2> QED
      BY <1>2, <2>3, <2>2
  <1>4. PICK s \in S : TRUE
    OBVIOUS
  <1>5. PICK t \in S : \E x \in Locked(t) : Wants(s, x)
    BY <1>1
  <1>8. PICK v \in S : \E y \in Locked(v) : Wants(t, y)
    BY <1>1
  <1>6. PICK y \in Locked(v) : Wants(t, y)
    BY <1>8
  <1>7. y = Auction \/ \E u \in Bidders : y = UserRow(u)
    BY <1>1, <1>5, <1>6, LockOrder
  <1> QED
    BY <1>2, <1>3, <1>6, <1>7

-------------------------------------------------------------------------------
(* Types *)

LEMMA IdleLocksNothing == LocksOf(Idle) = << >>
  BY DEF LocksOf, Idle

LEMMA InitTypes == Init => TypeOK
  <1> SUFFICES ASSUME Init PROVE TypeOK
    OBVIOUS
  <1>1. \A s \in Sessions : held[s] = 0 /\ task[s] = Idle
    BY DEF Init
  <1>2. \A s \in Sessions : held[s] <= Len(LocksOf(task[s]))
    BY <1>1, IdleLocksNothing
  <1>3. bids \in [Msgs -> Offers \cup {NoBid}]
    BY DEF Init
  <1>4. task \in [Sessions -> Tasks \cup {Idle}] /\ held \in [Sessions -> 0..2]
    BY DEF Init
  <1> QED
    BY <1>2, <1>3, <1>4 DEF Init, TypeOK

\* The conjuncts of TypeOK about sessions.
SessionsOK ==
    /\ task \in [Sessions -> Tasks \cup {Idle}]
    /\ held \in [Sessions -> 0..2]
    /\ \A t \in Sessions : held[t] <= Len(LocksOf(task[t]))

\* A session that ends, or that takes the lock it waits for, keeps its type.
LEMMA EndTypes ==
  ASSUME TypeOK, NEW s \in Sessions, End(s)
  PROVE  SessionsOK'
  BY IdleLocksNothing DEF SessionsOK, TypeOK, End

LEMMA LockTypes ==
  ASSUME TypeOK, NEW s \in Sessions, NEW x, NEW found \in BOOLEAN, Lock(s, x, found)
  PROVE  SessionsOK'
  <1>1. CASE End(s)
    BY <1>1, EndTypes
  <1>2. CASE held' = [held EXCEPT ![s] = @ + 1] /\ UNCHANGED task
    <2> DEFINE n == Len(LocksOf(task[s]))
    <2>1. n \in 0..2
      BY LocksOfKind DEF TypeOK, Kinds
    <2>2. held[s] < n /\ held[s] \in 0..2
      BY DEF Lock, Wants, TypeOK
    <2>5. held[s] + 1 \in 0..2 /\ held[s] + 1 <= n
      <3> HIDE DEF n
      <3> QED
        BY <2>1, <2>2
    <2>3. held' \in [Sessions -> 0..2]
      BY <1>2, <2>5 DEF TypeOK
    <2>4. ASSUME NEW t \in Sessions
          PROVE  held'[t] <= Len(LocksOf(task'[t]))
      BY <1>2, <2>5 DEF TypeOK
    <2> QED
      BY <1>2, <2>3, <2>4 DEF SessionsOK, TypeOK
  <1> QED
    BY <1>1, <1>2 DEF Lock

\* An answered task keeps its message and its kind, and so its locks.
LEMMA ReadyTypes ==
  ASSUME TypeOK, NEW s \in Sessions, NEW k \in Kinds, Ready(s, k),
         task' = [task EXCEPT ![s].step = "commit"] /\ UNCHANGED held
  PROVE  SessionsOK'
  <1>1. task[s] \in Tasks
    BY DEF TypeOK, Ready, Doing, Idle, Kinds
  <1>2. task'[s] = [task[s] EXCEPT !.step = "commit"]
    BY DEF TypeOK
  <1>3. task'[s] \in Tasks /\ task'[s].kind = task[s].kind /\ task'[s].msg = task[s].msg
    BY <1>1, <1>2 DEF Tasks
  <1>4. LocksOf(task'[s]) = LocksOf(task[s])
    BY <1>3 DEF LocksOf
  <1> QED
    BY <1>3, <1>4 DEF SessionsOK, TypeOK

LEMMA NextTypes == TypeOK /\ [Next]_vars => TypeOK'
  <1> SUFFICES ASSUME TypeOK, [Next]_vars PROVE TypeOK'
    OBVIOUS
  <1> USE DEF lotVars, ledger, sessionVars
  <1>0. TypeOK => SessionsOK
    BY DEF TypeOK, SessionsOK
  <1>1. ASSUME NEW s \in Sessions, NEW k \in Kinds, NEW m \in Msgs,
               NEW o \in Offers \cup {NoBid}, Receive(s, k, m, o)
        PROVE  TypeOK'
    <2> DEFINE t == [kind |-> k, step |-> "lock", msg |-> m, offer |-> o,
                     early |-> k \in {"revise", "remove"} /\ ~ended,
                     young |-> k = "revise" /\ m \in fresh]
    <2>1. t \in Tasks
      BY DEF Tasks
    <2>2. held[s] = 0
      BY <1>1, IdleLocksNothing DEF Receive, TypeOK
    <2>3. Len(LocksOf(t)) \in 0..2
      BY <2>1, LocksOfKind DEF Kinds
    <2>4. task' = [task EXCEPT ![s] = t] /\ UNCHANGED held
      BY <1>1 DEF Receive
    <2>5. SessionsOK'
      <3> HIDE DEF t
      <3> QED
        BY <2>1, <2>2, <2>3, <2>4 DEF TypeOK, SessionsOK
    <2> QED
      BY <1>1, <2>5 DEF Receive, TypeOK, SessionsOK
  <1>2. ASSUME NEW s \in Sessions, LockBid(s) \/ LockAuction(s) \/ LockBidder(s)
        PROVE  TypeOK'
    <2>1. SessionsOK'
      BY <1>2, LockTypes DEF LockBid, LockAuction, LockBidder, Lock
    <2> QED
      BY <1>2, <2>1 DEF LockBid, LockAuction, LockBidder, TypeOK, SessionsOK
  <1>3. ASSUME NEW s \in Sessions, CheckBid(s) \/ CheckRevision(s)
        PROVE  TypeOK'
    <2>1. SessionsOK'
      BY <1>3, EndTypes, ReadyTypes DEF CheckBid, CheckRevision, Kinds
    <2> QED
      BY <1>3, <2>1 DEF CheckBid, CheckRevision, TypeOK, SessionsOK
  <1>4. ASSUME NEW s \in Sessions, Commit(s)
        PROVE  TypeOK'
    <2>1. SessionsOK'
      BY <1>4, EndTypes DEF Commit
    <2>2. task[s] \in Tasks
      BY <1>4 DEF Commit, TypeOK, Idle
    <2>3. task[s].msg \in Msgs /\ task[s].offer \in Offers \cup {NoBid}
      BY <2>2 DEF Tasks
    <2> QED
      BY <1>4, <2>1, <2>3 DEF Commit, TypeOK, SessionsOK
  <1>5. ASSUME NEW s \in Sessions, Erase(s)
        PROVE  TypeOK'
    <2>1. SessionsOK'
      BY <1>5, EndTypes DEF Erase
    <2> QED
      BY <1>5, <2>1 DEF Erase, TypeOK, SessionsOK
  <1>6. ASSUME NEW s \in Sessions, CheckLotOfEdited(s)
        PROVE  TypeOK'
    <2>1. CASE End(s)
      BY <1>6, <2>1, EndTypes DEF CheckLotOfEdited, TypeOK, SessionsOK
    <2>2. CASE task' = [task EXCEPT ![s].kind = "erase"] /\ UNCHANGED held
      <3>1. task[s] \in Tasks
        BY <1>6 DEF CheckLotOfEdited, Doing, TypeOK, Idle
      <3>2. [task[s] EXCEPT !.kind = "erase"] \in Tasks
        BY <3>1 DEF Tasks, Kinds
      <3>3. held[s] = 0
        BY <1>6, <3>1, LocksOfKind DEF CheckLotOfEdited, Doing, TypeOK
      <3>4. Len(LocksOf([task[s] EXCEPT !.kind = "erase"])) \in 0..2
        BY <3>2, LocksOfKind DEF Kinds
      <3>5. SessionsOK'
        BY <2>2, <3>2, <3>3, <3>4 DEF TypeOK, SessionsOK
      <3> QED
        BY <1>6, <3>5 DEF CheckLotOfEdited, TypeOK, SessionsOK
    <2> QED
      BY <1>6, <2>1, <2>2 DEF CheckLotOfEdited
  <1>7. ASSUME NEW s \in Sessions, Abort(s)
        PROVE  TypeOK'
    BY <1>7, EndTypes DEF Abort, TypeOK, SessionsOK
  <1>8. CASE Deadline \/ FinishNow \/ Claim \/ MarkFinished \/ (\E m \in Msgs : Ages(m))
             \/ UNCHANGED vars
    BY <1>8 DEF Deadline, FinishNow, Claim, MarkFinished, Ages, vars, TypeOK
  <1>9. CASE ReadResult
    BY <1>9 DEF ReadResult, Winners, Placed, TypeOK
  <1> QED
    BY <1>1, <1>2, <1>3, <1>4, <1>5, <1>6, <1>7, <1>8, <1>9
       DEF Next, Session, Finalizer, CancelBid, RemoveBid, AdminDelete, DeleteRow

\* Every reachable state is well typed: what is stored or announced was offered, and
\* no transaction holds more rows than it locks.
THEOREM TypesHold == Spec => []TypeOK
  <1> QED
    BY InitTypes, NextTypes, PTL DEF Spec

\* No set of transactions ever waits in a circle, however many there are.
THEOREM NobodyDeadlocks == Spec => []NoDeadlock
  <1> QED
    BY TypesHold, NoCycle, PTL

-------------------------------------------------------------------------------
(* The lot's row and the ledger *)

\* Session s holds the row of the lot.
LotHolder(s) ==
    \/ task[s].kind = "place" /\ held[s] \in {1, 2}
    \/ task[s].kind \in {"revise", "remove"} /\ held[s] = 2

\* One transaction at a time holds the lot, and only of a lot still open: neither the
\* finalizer nor a moderator takes a lot that a transaction holds.
LotHeld ==
    /\ \A s, t \in Sessions : LotHolder(s) /\ LotHolder(t) => s = t
    /\ \A s \in Sessions : LotHolder(s) => status = "active"

\* A bid that is accepted and not committed yet still improves on every other bid:
\* who committed after it was checked can only have deleted one.
AcceptedStands ==
    \A s \in Sessions :
        /\ task[s].kind \in {"place", "revise"} => task[s].offer \in Offers
        /\ task[s].step = "commit" =>
              /\ LotHolder(s)
              /\ task[s].kind \in {"place", "revise"}
              /\ \A m \in Placed \ {task[s].msg} : Beats(task[s].offer, bids[m])

\* Nothing is announced while bids are accepted.
ReadLate == status = "active" => result = Unread

BiddingInv == TypeOK /\ LotHeld /\ AcceptedStands /\ OneLeader /\ ReadLate /\ WinnerStands

LEMMA FreeLot ==
  ASSUME TypeOK, Free(Auction)
  PROVE  \A s \in Sessions : ~LotHolder(s)
  BY HoldsAuction DEF Free, LotHolder

\* What a session holds and does when it asks for a row.
LEMMA WantsWhat ==
  ASSUME TypeOK, NEW s \in Sessions
  PROVE  /\ Wants(s, Auction) =>
              \/ task[s].kind = "place" /\ held[s] = 0
              \/ task[s].kind \in {"revise", "remove"} /\ held[s] = 1
         /\ \A m \in Msgs : Wants(s, BidRow(m)) => task[s].kind # "place" /\ held[s] = 0
         /\ \A u \in Bidders : Wants(s, UserRow(u)) =>
              task[s].kind \in {"place", "admin"} /\ held[s] = 1
  <1> DEFINE t == task[s]
  <1>1. t \in Tasks \cup {Idle} /\ held[s] \in 0..2
    BY DEF TypeOK
  <1>2. CASE t.kind = "place"
    BY <1>1, <1>2, LocksOfKind, RowsDiffer DEF Wants
  <1>3. CASE t.kind \in {"revise", "remove"}
    BY <1>1, <1>3, LocksOfKind, RowsDiffer DEF Wants
  <1>4. CASE t.kind = "admin"
    BY <1>1, <1>4, LocksOfKind, RowsDiffer DEF Wants
  <1>5. CASE t.kind \in {"prune", "erase", "edited", "idle"}
    BY <1>1, <1>5, LocksOfKind, RowsDiffer DEF Wants
  <1> QED
    BY <1>1, <1>2, <1>3, <1>4, <1>5, LocksOfKind DEF Kinds

\* A session that ends holds nothing and has nothing to commit; the others stay.
LEMMA EndLetsGo ==
  ASSUME TypeOK, NEW s \in Sessions, End(s)
  PROVE  /\ task'[s] = Idle /\ ~LotHolder(s)'
         /\ \A t \in Sessions \ {s} : task'[t] = task[t] /\ (LotHolder(t)' <=> LotHolder(t))
  BY DEF TypeOK, End, LotHolder, Idle

LEMMA LotHeldNext == TypeOK /\ LotHeld /\ [Next]_vars => LotHeld'
  <1> SUFFICES ASSUME TypeOK, LotHeld, [Next]_vars PROVE LotHeld'
    OBVIOUS
  <1> USE DEF lotVars, ledger, sessionVars
  <1>1. ASSUME NEW s \in Sessions, NEW k \in Kinds, NEW m \in Msgs,
               NEW o \in Offers \cup {NoBid}, Receive(s, k, m, o)
        PROVE  LotHeld'
    <2>1. held[s] = 0
      BY <1>1, IdleLocksNothing DEF Receive, TypeOK
    <2>2. ~LotHolder(s)' /\ \A t \in Sessions \ {s} : LotHolder(t)' <=> LotHolder(t)
      BY <1>1, <2>1 DEF Receive, TypeOK, LotHolder
    <2> QED
      BY <1>1, <2>2 DEF Receive, LotHeld
  <1>2. ASSUME NEW s \in Sessions, End(s), UNCHANGED status
        PROVE  LotHeld'
    BY <1>2, EndLetsGo DEF LotHeld
  <1>3. ASSUME NEW s \in Sessions, LockAuction(s)
        PROVE  LotHeld'
    <2>1. CASE held' = [held EXCEPT ![s] = @ + 1] /\ UNCHANGED task /\ status = "active"
      <3>1. \A t \in Sessions : ~LotHolder(t)
        BY <1>3, FreeLot DEF LockAuction, Lock
      <3>2. \A t \in Sessions \ {s} : ~LotHolder(t)'
        BY <2>1, <3>1 DEF TypeOK, LotHolder
      <3> QED
        BY <1>3, <2>1, <3>2 DEF LockAuction, LotHeld
    <2> QED
      BY <1>2, <1>3, <2>1 DEF LockAuction, Lock, Open
  <1>4. ASSUME NEW s \in Sessions, LockBid(s) \/ LockBidder(s)
        PROVE  LotHeld'
    <2>1. CASE held' = [held EXCEPT ![s] = @ + 1] /\ UNCHANGED task
      <3>1. task[s] \in Tasks \cup {Idle} /\ task[s].kind # "idle"
        BY <1>4, WantsWhat, LocksOfKind
           DEF TypeOK, LockBid, LockBidder, Lock, Wants, Doing
      <3>2. task[s].msg \in Msgs /\ Author[task[s].msg] \in Bidders
        BY <3>1, LocksOfKind
      <3>3. LotHolder(s)' => LotHolder(s)
        BY <1>4, <2>1, <3>2, WantsWhat DEF LockBid, LockBidder, Lock, LotHolder, TypeOK
      <3>4. \A t \in Sessions \ {s} : LotHolder(t)' <=> LotHolder(t)
        BY <2>1 DEF TypeOK, LotHolder
      <3> QED
        BY <1>4, <3>3, <3>4 DEF LockBid, LockBidder, LotHeld
    <2> QED
      BY <1>2, <1>4, <2>1 DEF LockBid, LockBidder, Lock
  <1>5. ASSUME NEW s \in Sessions, CheckBid(s) \/ CheckRevision(s) \/ CheckLotOfEdited(s)
        PROVE  LotHeld'
    <2>1. CASE task' = [task EXCEPT ![s].step = "commit"] /\ UNCHANGED held
      <3>1. \A t \in Sessions : LotHolder(t)' <=> LotHolder(t)
        BY <2>1 DEF TypeOK, LotHolder, Tasks, Idle
      <3> QED
        BY <1>5, <3>1 DEF CheckBid, CheckRevision, CheckLotOfEdited, LotHeld
    <2>2. CASE task' = [task EXCEPT ![s].kind = "erase"] /\ UNCHANGED held
      <3>1. \A t \in Sessions : LotHolder(t)' => LotHolder(t)
        BY <2>2 DEF TypeOK, LotHolder, Tasks, Idle
      <3> QED
        BY <1>5, <3>1 DEF CheckBid, CheckRevision, CheckLotOfEdited, LotHeld
    <2> QED
      BY <1>2, <1>5, <2>1, <2>2 DEF CheckBid, CheckRevision, CheckLotOfEdited
  <1>6. ASSUME NEW s \in Sessions, Commit(s) \/ Erase(s) \/ Abort(s)
        PROVE  LotHeld'
    BY <1>2, <1>6 DEF Commit, Erase, Abort
  <1>7. CASE Claim \/ FinishNow
    BY <1>7, FreeLot DEF Claim, FinishNow, LotHeld, LotHolder
  <1>8. CASE MarkFinished \/ ReadResult \/ Deadline \/ (\E m \in Msgs : Ages(m))
             \/ UNCHANGED vars
    BY <1>8 DEF MarkFinished, ReadResult, Deadline, Ages, vars, LotHeld, LotHolder
  <1> QED
    BY <1>1, <1>3, <1>4, <1>5, <1>6, <1>7, <1>8
       DEF Next, Session, Finalizer, CancelBid, RemoveBid, AdminDelete, DeleteRow

-------------------------------------------------------------------------------
(* Accepted bids, the leader and the result *)

LEMMA SpecialBids == NoBid \notin Offers /\ Unread \notin Offers /\ NoBid # Unread
  BY LotsAssumption DEF LotsAssumption, Currencies, NoBid, Unread

\* The steps that write the ledger.
LEMMA ErasedLedger ==
  ASSUME TypeOK, NEW s \in Sessions, Erase(s)
  PROVE  /\ Placed' \subseteq Placed
         /\ \A m \in Placed' : bids'[m] = bids[m]
         /\ \A m \in Msgs : bids'[m] \in {bids[m], NoBid}
  BY DEF TypeOK, Erase, Placed

LEMMA CommittedLedger ==
  ASSUME BiddingInv, NEW s \in Sessions, Commit(s)
  PROVE  /\ status = "active" /\ LotHolder(s)
         /\ \A m \in Placed' \ {task[s].msg} : m \in Placed /\ bids'[m] = bids[m]
         /\ task[s].msg \in Msgs /\ bids'[task[s].msg] = task[s].offer
         /\ \A t \in Sessions : task'[t].step = "lock"
  <1>1. LotHolder(s) /\ status = "active"
    BY DEF BiddingInv, AcceptedStands, LotHeld, Commit
  <1>2. task[s] \in Tasks
    BY DEF BiddingInv, TypeOK, Commit, Idle
  <1>3. task[s].msg \in Msgs
    BY <1>2 DEF Tasks
  <1>4. ASSUME NEW t \in Sessions
        PROVE  task'[t].step = "lock"
    <2>1. CASE t = s
      BY <2>1 DEF Commit, End, BiddingInv, TypeOK, Idle
    <2>2. CASE t # s
      <3>1. task[t].step # "commit"
        BY <1>1, <2>2 DEF BiddingInv, AcceptedStands, LotHeld
      <3>2. task[t].step \in {"lock", "commit"}
        BY DEF BiddingInv, TypeOK, Tasks, Idle
      <3> QED
        BY <2>2, <3>1, <3>2 DEF Commit, End, BiddingInv, TypeOK
    <2> QED
      BY <2>1, <2>2
  <1> QED
    BY <1>1, <1>3, <1>4 DEF Commit, Placed, BiddingInv, TypeOK

LEMMA AcceptedNext == BiddingInv /\ TypeOK' /\ [Next]_vars => AcceptedStands'
  <1> SUFFICES ASSUME BiddingInv, TypeOK', [Next]_vars PROVE AcceptedStands'
    OBVIOUS
  <1> USE DEF lotVars, ledger, sessionVars
  <1> DEFINE Same(t) == /\ task'[t] = task[t]
                        /\ LotHolder(t)' <=> LotHolder(t)
  \* The task of a session that is not in the middle of a commit
  <1> DEFINE Quiet(t) == /\ task'[t].step = "lock"
                         /\ task'[t].kind \in {"place", "revise"} => task'[t].offer \in Offers
  <1>1. ASSUME \A t \in Sessions : Same(t) \/ Quiet(t), UNCHANGED lot,
               Placed' \subseteq Placed, \A m \in Placed' : bids'[m] = bids[m]
        PROVE  AcceptedStands'
    <2>1. SUFFICES ASSUME NEW t \in Sessions, Same(t)
                   PROVE  /\ task'[t].kind \in {"place", "revise"} => task'[t].offer \in Offers
                          /\ task'[t].step = "commit" =>
                               /\ LotHolder(t)'
                               /\ task'[t].kind \in {"place", "revise"}
                               /\ \A m \in Placed' \ {task'[t].msg} :
                                      Beats(task[t].offer, bids[m])
      BY <1>1 DEF AcceptedStands, Beats
    <2> QED
      BY <1>1, <2>1 DEF BiddingInv, AcceptedStands
  <1>2. ASSUME NEW s \in Sessions, End(s), UNCHANGED lot,
               Placed' \subseteq Placed, \A m \in Placed' : bids'[m] = bids[m]
        PROVE  AcceptedStands'
    <2>1. Quiet(s)
      BY <1>2, EndLetsGo DEF BiddingInv, Idle
    <2>2. \A t \in Sessions \ {s} : Same(t)
      BY <1>2, EndLetsGo DEF BiddingInv
    <2> QED
      BY <1>1, <1>2, <2>1, <2>2
  <1>3. UNCHANGED bids => Placed' = Placed
    BY DEF Placed
  <1>4. ASSUME NEW s \in Sessions, NEW k \in Kinds, NEW m \in Msgs,
               NEW o \in Offers \cup {NoBid}, Receive(s, k, m, o)
        PROVE  AcceptedStands'
    <2>1. Quiet(s)
      BY <1>4 DEF Receive, BiddingInv, TypeOK
    <2>2. \A t \in Sessions \ {s} : Same(t)
      BY <1>4 DEF Receive, BiddingInv, TypeOK, LotHolder
    <2> QED
      BY <1>1, <1>3, <1>4, <2>1, <2>2 DEF Receive
  <1>5. ASSUME NEW s \in Sessions, LockBid(s) \/ LockAuction(s) \/ LockBidder(s)
        PROVE  AcceptedStands'
    <2>1. CASE held' = [held EXCEPT ![s] = @ + 1] /\ UNCHANGED task
      <3>1. held'[s] \in 0..2 /\ held[s] \in 0..2 /\ held'[s] = held[s] + 1
        BY <2>1 DEF BiddingInv, TypeOK
      <3>2. LotHolder(s) => LotHolder(s)'
        BY <2>1, <3>1 DEF LotHolder
      <3>3. \A t \in Sessions \ {s} : Same(t)
        BY <2>1 DEF BiddingInv, TypeOK, LotHolder
      <3> QED
        BY <1>3, <1>5, <2>1, <3>2, <3>3
           DEF LockBid, LockAuction, LockBidder, BiddingInv, AcceptedStands, Beats
    <2> QED
      BY <1>2, <1>3, <1>5, <2>1 DEF LockBid, LockAuction, LockBidder, Lock
  <1>6. ASSUME NEW s \in Sessions, CheckBid(s) \/ CheckRevision(s)
        PROVE  AcceptedStands'
    <2>1. CASE End(s)
      BY <1>2, <1>3, <1>6, <2>1 DEF CheckBid, CheckRevision
    <2>2. CASE ~End(s)
      <3>1. /\ task' = [task EXCEPT ![s].step = "commit"] /\ UNCHANGED held
            /\ \A m \in Placed \ {task[s].msg} : Beats(task[s].offer, bids[m])
            /\ task[s].kind \in {"place", "revise"}
            /\ held[s] = Len(LocksOf(task[s]))
        BY <1>6, <2>2 DEF CheckBid, CheckRevision, ServiceAccepts, Ready, Doing
      <3>2. task[s] \in Tasks
        BY <3>1 DEF BiddingInv, TypeOK, Idle
      <3>3. held[s] = 2
        BY <3>1, <3>2, LocksOfKind
      <3>4. task'[s] = [task[s] EXCEPT !.step = "commit"]
        BY <3>1 DEF BiddingInv, TypeOK
      <3>5. /\ task'[s].kind = task[s].kind /\ task'[s].offer = task[s].offer
            /\ task'[s].msg = task[s].msg
        BY <3>2, <3>4 DEF Tasks
      <3>6. LotHolder(s)' /\ task[s].offer \in Offers
        BY <3>1, <3>3, <3>5 DEF LotHolder, BiddingInv, AcceptedStands
      <3>7. \A t \in Sessions \ {s} : Same(t)
        BY <3>1 DEF BiddingInv, TypeOK, LotHolder
      <3>8. UNCHANGED <<lot, bids>>
        BY <1>6 DEF CheckBid, CheckRevision
      <3>9. ASSUME NEW t \in Sessions, t # s
            PROVE  /\ task'[t].kind \in {"place", "revise"} => task'[t].offer \in Offers
                   /\ task'[t].step = "commit" =>
                        /\ LotHolder(t)'
                        /\ task'[t].kind \in {"place", "revise"}
                        /\ \A m \in Placed \ {task'[t].msg} : Beats(task'[t].offer, bids[m])
        BY <3>7, <3>9 DEF BiddingInv, AcceptedStands
      <3> QED
        BY <1>3, <3>1, <3>5, <3>6, <3>8, <3>9 DEF AcceptedStands, Beats
    <2> QED
      BY <2>1, <2>2
  <1>7. ASSUME NEW s \in Sessions, CheckLotOfEdited(s)
        PROVE  AcceptedStands'
    <2>1. CASE task' = [task EXCEPT ![s].kind = "erase"] /\ UNCHANGED held
      <3>4. task[s].kind = "edited"
        BY <1>7 DEF CheckLotOfEdited, Doing
      <3>5. task[s] \in Tasks
        BY <3>4 DEF BiddingInv, TypeOK, Idle
      <3>6. task[s].step # "commit"
        BY <3>4 DEF BiddingInv, AcceptedStands
      <3>1. task[s] \in Tasks /\ task[s].step = "lock"
        BY <3>5, <3>6 DEF Tasks
      <3>2. Quiet(s)
        BY <2>1, <3>1 DEF BiddingInv, TypeOK, Tasks
      <3>3. \A t \in Sessions \ {s} : Same(t)
        BY <2>1 DEF BiddingInv, TypeOK, LotHolder
      <3> QED
        BY <1>1, <1>3, <1>7, <3>2, <3>3 DEF CheckLotOfEdited
    <2> QED
      BY <1>2, <1>3, <1>7, <2>1 DEF CheckLotOfEdited
  <1>8. ASSUME NEW s \in Sessions, Commit(s)
        PROVE  AcceptedStands'
    <2>1. \A t \in Sessions : task'[t].step = "lock"
      BY <1>8, CommittedLedger
    <2>2. \A t \in Sessions : task'[t] \in {task[t], Idle}
      BY <1>8 DEF Commit, End, BiddingInv, TypeOK
    <2>3. \A t \in Sessions : task'[t].kind \in {"place", "revise"} => task'[t].offer \in Offers
      BY <2>2 DEF BiddingInv, AcceptedStands, Idle
    <2> QED
      BY <2>1, <2>3 DEF AcceptedStands
  <1>9. ASSUME NEW s \in Sessions, Erase(s)
        PROVE  AcceptedStands'
    BY <1>2, <1>9, ErasedLedger DEF Erase, BiddingInv
  <1>10. ASSUME NEW s \in Sessions, Abort(s)
         PROVE  AcceptedStands'
    BY <1>2, <1>3, <1>10 DEF Abort
  <1>11. CASE Deadline \/ FinishNow \/ Finalizer \/ (\E m \in Msgs : Ages(m)) \/ UNCHANGED vars
    <2>1. UNCHANGED <<lot, bids, task, held>>
      BY <1>11 DEF Deadline, FinishNow, Finalizer, Claim, ReadResult, MarkFinished, Ages, vars
    <2> QED
      BY <1>1, <1>3, <2>1 DEF LotHolder
  <1> QED
    BY <1>4, <1>5, <1>6, <1>7, <1>8, <1>9, <1>10, <1>11
       DEF Next, Session, CancelBid, RemoveBid, AdminDelete, DeleteRow

LEMMA LeaderNext == BiddingInv /\ [Next]_vars => OneLeader'
  <1> SUFFICES ASSUME BiddingInv, [Next]_vars PROVE OneLeader'
    OBVIOUS
  <1> USE DEF lotVars, ledger, sessionVars
  <1>1. UNCHANGED lot
    BY DEF Next, vars, Session, Finalizer, CancelBid, RemoveBid, AdminDelete, DeleteRow,
           Receive, LockBid, LockAuction, LockBidder, CheckBid, CheckRevision, Commit, Erase,
           CheckLotOfEdited, Abort, Deadline, FinishNow, Claim, ReadResult, MarkFinished, Ages
  <1>2. ASSUME Placed' \subseteq Placed, \A m \in Placed' : bids'[m] = bids[m]
        PROVE  OneLeader'
    BY <1>1, <1>2 DEF BiddingInv, OneLeader, Beats
  <1>3. ASSUME NEW s \in Sessions, Commit(s)
        PROVE  OneLeader'
    <2> DEFINE c == task[s].msg
    <2>1. /\ \A m \in Placed' \ {c} : m \in Placed /\ bids'[m] = bids[m]
          /\ bids'[c] = task[s].offer
      BY <1>3, CommittedLedger
    <2>2. \A m \in Placed \ {c} : Beats(task[s].offer, bids[m])
      BY <1>3 DEF Commit, BiddingInv, AcceptedStands
    <2>3. SUFFICES ASSUME NEW m \in Placed', NEW n \in Placed', m # n
                   PROVE  Beats(bids'[m], bids'[n]) \/ Beats(bids'[n], bids'[m])
      BY <1>1 DEF OneLeader, Beats
    <2>4. CASE m = c
      BY <2>1, <2>2, <2>3, <2>4
    <2>5. CASE n = c
      BY <2>1, <2>2, <2>3, <2>5
    <2>6. CASE m # c /\ n # c
      BY <2>1, <2>3, <2>6 DEF BiddingInv, OneLeader
    <2> QED
      BY <2>4, <2>5, <2>6
  <1>4. ASSUME NEW s \in Sessions, Erase(s)
        PROVE  OneLeader'
    BY <1>2, <1>4, ErasedLedger DEF BiddingInv
  <1>5. CASE UNCHANGED bids
    BY <1>2, <1>5 DEF Placed
  <1> QED
    BY <1>3, <1>4, <1>5
       DEF Next, vars, Session, Finalizer, CancelBid, RemoveBid, AdminDelete, DeleteRow,
           Receive, LockBid, LockAuction, LockBidder, CheckBid, CheckRevision,
           CheckLotOfEdited, Abort, Deadline, FinishNow, Claim, ReadResult, MarkFinished, Ages

\* The best bid in value is the one that improves on every other: there is no tie.
LEMMA WinnerBeatsAll ==
  ASSUME BiddingInv, NEW w \in Winners, NEW m \in Placed, m # w
  PROVE  Beats(bids[w], bids[m])
  <1>1. w \in Placed /\ bids[w] \in Offers /\ bids[m] \in Offers
    BY DEF Winners, Placed, BiddingInv, TypeOK
  <1>2. /\ bids[w].amount \in Nat \ {0} /\ bids[w].currency \in Currencies
        /\ bids[m].amount \in Nat \ {0} /\ bids[m].currency \in Currencies
    BY <1>1, LotsAssumption DEF LotsAssumption
  <1>3. Beats(bids[w], bids[m]) \/ Beats(bids[m], bids[w])
    BY <1>1 DEF BiddingInv, OneLeader
  <1>4. CASE lot.kind = "reverse"
    <2>1. -Units(bids[w].amount, bids[w].currency) >= -Units(bids[m].amount, bids[m].currency)
      BY <1>4 DEF Winners
    <2> QED
      BY <1>2, <1>3, <1>4, <2>1 DEF Beats, Units, BidStep
  <1>5. CASE lot.kind # "reverse"
    <2>1. bids[w].amount >= bids[m].amount
      BY <1>5 DEF Winners
    <2> QED
      BY <1>2, <1>3, <1>5, <2>1 DEF Beats, BidStep
  <1> QED
    BY <1>4, <1>5

LEMMA ResultNext == BiddingInv /\ [Next]_vars => ReadLate' /\ WinnerStands'
  <1> SUFFICES ASSUME BiddingInv, [Next]_vars PROVE ReadLate' /\ WinnerStands'
    OBVIOUS
  <1> USE SpecialBids DEF lotVars, ledger, sessionVars
  <1>1. ASSUME Placed' \subseteq Placed, \A m \in Placed' : bids'[m] = bids[m],
               UNCHANGED <<lot, result>>, status' = "active" => status = "active"
        PROVE  ReadLate' /\ WinnerStands'
    BY <1>1 DEF BiddingInv, ReadLate, WinnerStands, Beats
  <1>2. ASSUME NEW s \in Sessions, Commit(s)
        PROVE  ReadLate' /\ WinnerStands'
    <2>1. result' = Unread
      BY <1>2, CommittedLedger DEF BiddingInv, ReadLate, Commit
    <2> QED
      BY <2>1 DEF ReadLate, WinnerStands
  <1>3. ASSUME NEW s \in Sessions, Erase(s)
        PROVE  ReadLate' /\ WinnerStands'
    BY <1>1, <1>3, ErasedLedger DEF Erase, BiddingInv
  <1>4. CASE ReadResult
    <2>1. ReadLate'
      BY <1>4 DEF ReadResult, ReadLate
    <2>2. CASE result' = NoBid /\ Placed = {}
      BY <1>4, <2>1, <2>2 DEF ReadResult, WinnerStands, Placed
    <2>3. ASSUME NEW w \in Winners, result' = bids[w]
          PROVE  WinnerStands'
      <3>1. w \in Placed /\ bids[w] # NoBid
        BY DEF Winners, Placed
      <3>2. \A m \in Placed : bids[m] = bids[w] \/ Beats(bids[w], bids[m])
        BY WinnerBeatsAll
      <3> QED
        BY <1>4, <2>3, <3>1, <3>2 DEF ReadResult, WinnerStands, Placed, Beats
    <2> QED
      BY <1>4, <2>1, <2>2, <2>3 DEF ReadResult
  <1>5. CASE UNCHANGED <<lot, bids, result>> /\ (status' = "active" => status = "active")
    BY <1>1, <1>5 DEF Placed
  <1> QED
    BY <1>2, <1>3, <1>4, <1>5
       DEF Next, vars, Session, Finalizer, CancelBid, RemoveBid, AdminDelete, DeleteRow,
           Receive, LockBid, LockAuction, LockBidder, CheckBid, CheckRevision,
           CheckLotOfEdited, Abort, Deadline, FinishNow, Claim, MarkFinished, Ages

LEMMA InitInv == Init => BiddingInv
  <1> SUFFICES ASSUME Init PROVE BiddingInv
    OBVIOUS
  <1>1. TypeOK
    BY InitTypes
  <1>2. \A s \in Sessions : task[s] = Idle /\ ~LotHolder(s)
    BY DEF Init, LotHolder, Idle
  <1>3. LotHeld /\ AcceptedStands
    BY <1>2 DEF LotHeld, AcceptedStands, Idle
  <1>4. Placed = {}
    BY DEF Init, Placed
  <1> QED
    BY <1>1, <1>3, <1>4, SpecialBids DEF Init, BiddingInv, OneLeader, ReadLate, WinnerStands

LEMMA NextInv == BiddingInv /\ [Next]_vars => BiddingInv'
  BY NextTypes, LotHeldNext, AcceptedNext, LeaderNext, ResultNext DEF BiddingInv

\* A transaction that was under way when the lot was taken out of bidding writes no
\* bid any more: it would hold the lot, and then nobody takes it out.
LEMMA FrozenStep ==
  BiddingInv /\ [Next]_vars =>
     (status # "active" => \A m \in Msgs : bids'[m] \in {bids[m], NoBid})
  <1> SUFFICES ASSUME BiddingInv, [Next]_vars, status # "active", NEW m \in Msgs
               PROVE  bids'[m] \in {bids[m], NoBid}
    OBVIOUS
  <1> USE DEF lotVars, ledger, sessionVars
  <1>1. ASSUME NEW s \in Sessions, Commit(s)
        PROVE  FALSE
    BY <1>1, CommittedLedger
  <1>2. ASSUME NEW s \in Sessions, Erase(s)
        PROVE  bids'[m] \in {bids[m], NoBid}
    BY <1>2, ErasedLedger DEF BiddingInv
  <1> QED
    BY <1>1, <1>2
       DEF Next, vars, Session, Finalizer, CancelBid, RemoveBid, AdminDelete, DeleteRow,
           Receive, LockBid, LockAuction, LockBidder, CheckBid, CheckRevision,
           CheckLotOfEdited, Abort, Deadline, FinishNow, Claim, ReadResult, MarkFinished, Ages

\* The inductive invariant of bidding: who holds the lot, what its accepted bid
\* improves on, and what may have been announced.
THEOREM BiddingInvariant == Spec => []BiddingInv
  <1> QED
    BY InitInv, NextInv, PTL DEF Spec

\* Of any two bids in the ledger one improves on the other by a full step.
THEOREM NoTies == Spec => []OneLeader
  <1>1. BiddingInv => OneLeader
    BY DEF BiddingInv
  <1> QED
    BY BiddingInvariant, <1>1, PTL

\* No bid in the ledger is as good as the announced one.
THEOREM NobodyOutbidsTheWinner == Spec => []WinnerStands
  <1>1. BiddingInv => WinnerStands
    BY DEF BiddingInv
  <1> QED
    BY BiddingInvariant, <1>1, PTL

\* The ledger of a lot out of bidding gains and changes no bid.
THEOREM LedgerIsFrozen == Spec => LedgerFrozen
  <1>1. BiddingInv /\ [Next]_vars =>
          [status # "active" => \A m \in Msgs : bids'[m] \in {bids[m], NoBid}]_vars
    BY FrozenStep
  <1> QED
    BY BiddingInvariant, <1>1, PTL DEF Spec, LedgerFrozen

-------------------------------------------------------------------------------
(* The transactions are serializable *)

\* Who improves on whom is a matter of the lot, and no step changes the lot.
LEMMA LotStays == [Next]_vars => UNCHANGED lot
  BY DEF Next, vars, Session, Finalizer, CancelBid, RemoveBid, AdminDelete, DeleteRow,
         Receive, LockBid, LockAuction, LockBidder, CheckBid, CheckRevision, Commit, Erase,
         CheckLotOfEdited, Abort, Deadline, FinishNow, Claim, ReadResult, MarkFinished, Ages,
         lotVars, ledger, sessionVars

Better == {p \in Offers \X Offers : Beats(p[1], p[2])}

LEMMA BetterStays == UNCHANGED lot => UNCHANGED Better
  BY DEF Better, Beats

LEMMA BetterIsBeats ==
  ASSUME NEW a \in Offers, NEW b \in Offers
  PROVE  <<a, b>> \in Better <=> Beats(a, b)
  BY DEF Better

\* A committed bid is entered: it improves on every other bid, and the lot is open.
LEMMA CommitEnters ==
  ASSUME BiddingInv, NEW s \in Sessions, Commit(s)
  PROVE  Sequential!Next
  <1> DEFINE c == task[s].msg
             o == task[s].offer
  <1>1. status = "active" /\ c \in Msgs
    BY CommittedLedger
  <1>2. o \in Offers /\ \A n \in Placed \ {c} : Beats(o, bids[n])
    BY DEF Commit, BiddingInv, AcceptedStands
  <1>3. \A n \in Placed : bids[n] \in Offers
    BY DEF Placed, BiddingInv, TypeOK
  <1>4. Sequential!Leads(o, c)
    BY <1>2, <1>3, BetterIsBeats DEF Better, Sequential!Leads, Sequential!Standing, Placed
  <1>5. bids' = [bids EXCEPT ![c] = o] /\ UNCHANGED <<lot, status, result>>
    BY DEF Commit, lotVars
  <1>6. Sequential!Enter(c, o)
    BY <1>1, <1>4, <1>5, BetterStays DEF Better, Sequential!Enter
  <1> QED
    BY <1>1, <1>2, <1>6 DEF Sequential!Next

\* The result that is read is announced: its bid improves on every other one.
LEMMA ReadAnnounces ==
  ASSUME BiddingInv, ReadResult
  PROVE  Sequential!Next
  <1>1. status = "finalizing" /\ result = Unread /\ UNCHANGED <<lot, status, bids>>
    BY DEF ReadResult, lotVars, ledger
  <1>2. \A n \in Placed : bids[n] \in Offers
    BY DEF Placed, BiddingInv, TypeOK
  <1>3. ASSUME NEW w \in Winners, result' = bids[w]
        PROVE  w \in Sequential!Standing /\ Sequential!Leads(bids[w], w)
    <2>1. w \in Placed /\ \A n \in Placed \ {w} : Beats(bids[w], bids[n])
      BY WinnerBeatsAll DEF Winners
    <2> QED
      BY <1>2, <2>1, BetterIsBeats DEF Better, Sequential!Leads, Sequential!Standing, Placed
  <1>4. \/ Sequential!Standing = {} /\ result' = NoBid
        \/ \E m \in Sequential!Standing : Sequential!Leads(bids[m], m) /\ result' = bids[m]
    BY <1>3 DEF ReadResult, Sequential!Standing, Placed
  <1>5. Sequential!Announce
    BY <1>1, <1>4, BetterStays DEF Better, Sequential!Announce
  <1> QED
    BY <1>5 DEF Sequential!Next

LEMMA SerialInit == Init => Sequential!Init
  BY DEF Init, Sequential!Init

LEMMA SerialNext == BiddingInv /\ [Next]_vars => [Sequential!Next]_(Sequential!vars)
  <1> SUFFICES ASSUME BiddingInv, [Next]_vars
               PROVE  Sequential!Next \/ UNCHANGED Sequential!vars
    OBVIOUS
  <1> USE DEF lotVars, ledger, sessionVars
  <1>1. UNCHANGED Better
    BY LotStays, BetterStays
  <1>2. ASSUME NEW s \in Sessions, Erase(s)
        PROVE  Sequential!Next \/ UNCHANGED Sequential!vars
    <2>1. CASE task[s].msg \in Msgs
      <3>1. Sequential!Strike(task[s].msg)
        BY <1>1, <1>2 DEF Erase, Better, Sequential!Strike
      <3> QED
        BY <2>1, <3>1 DEF Sequential!Next
    <2>2. CASE task[s].msg \notin Msgs
      <3>1. UNCHANGED bids
        BY <1>2, <2>2 DEF Erase, BiddingInv, TypeOK
      <3> QED
        BY <1>1, <1>2, <3>1 DEF Erase, Better, Sequential!vars
    <2> QED
      BY <2>1, <2>2
  <1>3. CASE FinishNow \/ Claim
    <2>1. Sequential!Close
      BY <1>1, <1>3 DEF FinishNow, Claim, Better, Sequential!Close
    <2> QED
      BY <2>1 DEF Sequential!Next
  <1>4. CASE UNCHANGED <<bids, result>> /\ (status' = "active" <=> status = "active")
    BY <1>1, <1>4 DEF Better, Sequential!vars
  <1> QED
    BY <1>2, <1>3, <1>4, CommitEnters, ReadAnnounces
       DEF Next, vars, Session, Finalizer, CancelBid, RemoveBid, AdminDelete, DeleteRow,
           Receive, LockBid, LockAuction, LockBidder, CheckBid, CheckRevision,
           CheckLotOfEdited, Abort, Deadline, MarkFinished, Ages

\* The concurrent transactions on a lot, however many, write and announce what one
\* auctioneer would: the detailed specification implements the sequential one.
THEOREM BiddingIsSerial == Spec => BidsAreSerial
  BY SerialInit, SerialNext, BiddingInvariant, PTL DEF Spec, BidsAreSerial, Sequential!Spec

-------------------------------------------------------------------------------
(* The two statements of the rules on a lot of one currency *)

\* Every bid that is stored, or accepted and about to be, is in a currency of the lot.
InCurrency ==
    /\ \A m \in Placed : bids[m].currency \in lot.accepted
    /\ \A s \in Sessions : task[s].step = "commit" => task[s].offer.currency \in lot.accepted

\* A session that ends, or asks for the next row, accepts nothing.
LEMMA NothingAccepted ==
  ASSUME BiddingInv, InCurrency, UNCHANGED lot,
         Placed' \subseteq Placed, \A m \in Placed' : bids'[m] = bids[m],
         \A s \in Sessions : task'[s] = task[s] \/ task'[s].step = "lock"
  PROVE  InCurrency'
  BY DEF InCurrency

LEMMA CurrencyNext == BiddingInv /\ InCurrency /\ [Next]_vars => InCurrency'
  <1> SUFFICES ASSUME BiddingInv, InCurrency, [Next]_vars
               PROVE  InCurrency'
    OBVIOUS
  <1> USE DEF lotVars, ledger, sessionVars
  <1>1. UNCHANGED lot
    BY LotStays
  <1>2. UNCHANGED bids => Placed' = Placed
    BY DEF Placed
  <1>3. ASSUME NEW s \in Sessions, End(s)
        PROVE  \A t \in Sessions : task'[t] = task[t] \/ task'[t].step = "lock"
    BY <1>3 DEF End, BiddingInv, TypeOK, Idle
  <1>4. ASSUME NEW s \in Sessions, NEW k \in Kinds, NEW m \in Msgs,
               NEW o \in Offers \cup {NoBid}, Receive(s, k, m, o)
        PROVE  InCurrency'
    <2>1. \A t \in Sessions : task'[t] = task[t] \/ task'[t].step = "lock"
      BY <1>4 DEF Receive, BiddingInv, TypeOK
    <2> QED
      BY <1>1, <1>2, <1>4, <2>1, NothingAccepted DEF Receive
  <1>5. ASSUME NEW s \in Sessions, LockBid(s) \/ LockAuction(s) \/ LockBidder(s)
        PROVE  InCurrency'
    BY <1>1, <1>2, <1>3, <1>5, NothingAccepted DEF LockBid, LockAuction, LockBidder, Lock
  <1>6. ASSUME NEW s \in Sessions, CheckBid(s) \/ CheckRevision(s)
        PROVE  InCurrency'
    <2>1. CASE End(s)
      BY <1>1, <1>2, <1>3, <1>6, <2>1, NothingAccepted DEF CheckBid, CheckRevision
    <2>2. CASE ~End(s)
      <3>1. /\ task' = [task EXCEPT ![s].step = "commit"]
            /\ task[s].offer.currency \in lot.accepted
            /\ task[s] # Idle /\ UNCHANGED bids
        BY <1>6, <2>2 DEF CheckBid, CheckRevision, ServiceAccepts, Ready, Doing, Idle
      <3>2. task'[s].offer = task[s].offer
        BY <3>1 DEF BiddingInv, TypeOK, Tasks
      <3>3. \A t \in Sessions \ {s} : task'[t] = task[t]
        BY <3>1 DEF BiddingInv, TypeOK
      <3> QED
        BY <1>1, <1>2, <3>1, <3>2, <3>3 DEF InCurrency
    <2> QED
      BY <2>1, <2>2
  <1>7. ASSUME NEW s \in Sessions, CheckLotOfEdited(s)
        PROVE  InCurrency'
    <2>1. CASE task' = [task EXCEPT ![s].kind = "erase"] /\ UNCHANGED held
      <3>1. task[s] \in Tasks /\ task[s].step # "commit"
        BY <1>7 DEF CheckLotOfEdited, Doing, BiddingInv, TypeOK, AcceptedStands, Idle
      <3>2. \A t \in Sessions : task'[t] = task[t] \/ task'[t].step = "lock"
        BY <2>1, <3>1 DEF BiddingInv, TypeOK, Tasks
      <3> QED
        BY <1>1, <1>2, <1>7, <3>2, NothingAccepted DEF CheckLotOfEdited
    <2> QED
      BY <1>1, <1>2, <1>3, <1>7, <2>1, NothingAccepted DEF CheckLotOfEdited
  <1>8. ASSUME NEW s \in Sessions, Commit(s)
        PROVE  InCurrency'
    <2>1. \A t \in Sessions : task'[t].step = "lock"
      BY <1>8, CommittedLedger
    <2>2. /\ \A m \in Placed' \ {task[s].msg} : m \in Placed /\ bids'[m] = bids[m]
          /\ bids'[task[s].msg] = task[s].offer
      BY <1>8, CommittedLedger
    <2>3. task[s].offer.currency \in lot.accepted
      BY <1>8 DEF Commit, InCurrency
    <2> QED
      BY <1>1, <2>1, <2>2, <2>3 DEF InCurrency
  <1>9. ASSUME NEW s \in Sessions, Erase(s)
        PROVE  InCurrency'
    BY <1>1, <1>3, <1>9, ErasedLedger, NothingAccepted DEF Erase, BiddingInv
  <1>10. ASSUME NEW s \in Sessions, Abort(s)
         PROVE  InCurrency'
    BY <1>1, <1>2, <1>3, <1>10, NothingAccepted DEF Abort
  <1>11. CASE Deadline \/ FinishNow \/ Finalizer \/ (\E m \in Msgs : Ages(m)) \/ UNCHANGED vars
    BY <1>1, <1>2, <1>11, NothingAccepted
       DEF Deadline, FinishNow, Finalizer, Claim, ReadResult, MarkFinished, Ages, vars
  <1> QED
    BY <1>4, <1>5, <1>6, <1>7, <1>8, <1>9, <1>10, <1>11
       DEF Next, Session, CancelBid, RemoveBid, AdminDelete, DeleteRow

LEMMA InitCurrency == Init => InCurrency
  BY DEF Init, InCurrency, Placed, Idle

\* The service's offer, in the lot's currency, passes the comparison with each bid.
LEMMA StepsAgree ==
  ASSUME NEW a \in Nat, NEW b \in Nat, NEW c \in Currencies
  PROVE  /\ Units(a + BidStep(c), c) <= Units(b, c) => a <= b - BidStep(c)
         /\ a % BidStep(c) = 0 /\ a > 0 => a >= BidStep(c)
  BY DEF Currencies, Units, BidStep

LEMMA PlainLotAgrees == TypeOK /\ InCurrency => PlainLotStores
  <1> SUFFICES ASSUME TypeOK, InCurrency, PlainLot,
                      NEW o \in Offers, ServiceAccepts(Placed, o)
               PROVE  DatabaseAccepts(o)
    BY DEF PlainLotStores, AcceptedIsStored
  <1> DEFINE c == lot.currency
  <1>1. /\ c \in Currencies /\ lot.kind \in {"standard", "reverse"} /\ lot.start \in Nat
        /\ o.amount \in Nat \ {0} /\ o.currency = c
    BY LotsAssumption DEF LotsAssumption, TypeOK, PlainLot, ServiceAccepts
  <1>2. \A m \in Placed : bids[m].amount \in Nat /\ bids[m].currency = c
    BY LotsAssumption DEF LotsAssumption, TypeOK, Placed, PlainLot, InCurrency
  <1>3. CASE lot.kind = "reverse"
    <2>1. o.amount % BidStep(c) = 0 /\ o.amount >= BidStep(c)
      BY <1>1, <1>3, StepsAgree DEF ServiceAccepts
    <2>2. \A m \in Placed : o.amount <= bids[m].amount - BidStep(c)
      BY <1>1, <1>2, <1>3, StepsAgree DEF ServiceAccepts, Beats
    <2> QED
      BY <1>3, <2>1, <2>2 DEF DatabaseAccepts
  <1>4. CASE lot.kind = "standard"
    <2>1. Least(c) \in Nat /\ BidStep(c) \in Nat
      BY DEF Least, BidStep
    <2>2. lot.start >= Least(c)
      BY <1>4 DEF PlainLot
    <2>3. \A m \in Placed : o.amount >= bids[m].amount + BidStep(c)
      BY <1>1, <1>4 DEF ServiceAccepts, Beats
    <2>4. o.amount >= lot.start /\ (o.amount - lot.start) % BidStep(c) = 0
      BY <1>1, <1>4, <2>1 DEF ServiceAccepts
    <2>5. (IF lot.start > Least(c) THEN lot.start ELSE Least(c)) = lot.start
      BY <1>1, <2>1, <2>2
    <2> QED
      BY <1>4, <2>3, <2>4, <2>5 DEF DatabaseAccepts
  <1> QED
    BY <1>1, <1>3, <1>4

\* On a lot of one currency the table stores every bid the service accepts, at every
\* moment of every interleaving: the divergence needs a second currency.
THEOREM OneCurrencyIsStored == Spec => []PlainLotStores
  <1>1. BiddingInv => TypeOK
    BY DEF BiddingInv
  <1>2. Spec => []InCurrency
    BY InitCurrency, CurrencyNext, BiddingInvariant, PTL DEF Spec
  <1> QED
    BY <1>1, <1>2, BiddingInvariant, PlainLotAgrees, PTL

===============================================================================
