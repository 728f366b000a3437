------------------------- MODULE SlotSchedulingProofs -------------------------
(* Theorems about SlotScheduling, for any number of lots, slots, days and   *)
(* calls at once.                                                           *)
EXTENDS SlotScheduling, WellFoundedInduction, TLAPS

-------------------------------------------------------------------------------
(* Types *)

LEMMA CallTypes ==
  ASSUME TypeOK, NEW c \in Calls, NEW l \in Lots, NEW t \in Slots,
         CallSchedule(c, l, t) \/ CallReschedule(c, l, t)
  PROVE  TypeOK'
  BY DEF TypeOK, CallSchedule, CallReschedule, Call, Goto, rows

LEMMA StepTypes ==
  ASSUME TypeOK, NEW c \in Calls,
         \/ LockRow(c) \/ CheckSlot(c) \/ WriteScheduled(c) \/ WriteRescheduled(c) \/ Abort(c)
         \/ \E d \in 0..LastDay : LockDay(c, d)
  PROVE  TypeOK'
  <1> USE DEF TypeOK, rows, arguments, Goto, End
  <1>1. CASE LockRow(c) \/ CheckSlot(c) \/ Abort(c)
    BY <1>1 DEF LockRow, CheckSlot, Abort
  <1>2. ASSUME NEW d \in 0..LastDay, LockDay(c, d)
        PROVE  TypeOK'
    BY <1>2 DEF LockDay
  <1>3. CASE WriteScheduled(c) \/ WriteRescheduled(c)
    BY <1>3 DEF WriteScheduled, WriteRescheduled, Place, Statuses, Unpublished, Published
  <1> QED
    BY <1>1, <1>2, <1>3

LEMMA MoveTypes ==
  ASSUME TypeOK, NEW l \in Lots, NEW s \in Statuses, Move(l, s)
  PROVE  TypeOK'
  BY DEF TypeOK, Move, arguments

\* Every reachable state is well typed.
THEOREM SlotTypes == Spec => []TypeOK
  <1>1. Init => TypeOK
    BY DEF Init, TypeOK, Statuses
  <1>2. TypeOK /\ [Next]_vars => TypeOK'
    <2>1. TypeOK /\ Next => TypeOK'
      BY CallTypes, StepTypes, MoveTypes DEF Next
    <2>2. TypeOK /\ UNCHANGED vars => TypeOK'
      BY DEF TypeOK, vars, rows, arguments
    <2> QED
      BY <2>1, <2>2
  <1> QED
    BY <1>1, <1>2, PTL DEF Spec

-------------------------------------------------------------------------------
(* What the locks say *)

\* No two calls hold a day; a call locks the days of its slot in order and writes when
\* it holds them all.
DayInv ==
  /\ \A b, c \in Calls : b # c => days[b] \cap days[c] = {}
  /\ \A c \in Calls :
       /\ at[c] \in {"idle", "row"} => days[c] = {}
       /\ at[c] = "write" => days[c] = DaysOf[slot[c]]
       /\ at[c] = "days" => /\ days[c] \subseteq DaysOf[slot[c]]
                            /\ \A d \in days[c] : \A e \in DaysOf[slot[c]] \ days[c] : d < e

\* A lot that is being moved has been in the schedule, and such a lot is never approved
\* again: schedule does not wait for the row of a reschedule.
RowInv ==
  /\ \A l \in Lots : status[l] = "pending" => start[l] = NoSlot
  /\ \A c \in Calls : kind[c] = "reschedule" /\ at[c] # "idle" => start[lot[c]] # NoSlot

\* What a call has found out about its slot stays true until it writes.
Checked ==
  \A c \in Calls : at[c] = "write" =>
    \A k \in Lots :
      <<k, lot[c]>> \in Rival /\ status[k] \in Counted /\ start[k] = slot[c] => k \in unasked

LEMMA InitLocks == Init => DayInv /\ RowInv /\ Checked
  BY DEF Init, DayInv, RowInv, Checked

LEMMA DayStep ==
  ASSUME TypeOK, DayInv, [Next]_vars
  PROVE  DayInv'
  <1> USE SlotsAssumption DEF SlotsAssumption, TypeOK, DayInv
  <1>1. ASSUME NEW c \in Calls, NEW l \in Lots, NEW t \in Slots,
               CallSchedule(c, l, t) \/ CallReschedule(c, l, t)
        PROVE  DayInv'
    BY <1>1 DEF CallSchedule, CallReschedule, Call, Goto
  <1>2. ASSUME NEW c \in Calls, LockRow(c)
        PROVE  DayInv'
    BY <1>2 DEF LockRow, Goto, arguments
  <1>3. ASSUME NEW c \in Calls, NEW d \in 0..LastDay, LockDay(c, d)
        PROVE  DayInv'
    <2>1. /\ days' = [days EXCEPT ![c] = @ \cup {d}]
          /\ UNCHANGED <<at, slot>>
          /\ at[c] = "days" /\ d \in DaysOf[slot[c]]
      BY <1>3 DEF LockDay, NextDay, arguments
    <2>2. \A b \in Calls : d \notin days[b]
      BY <1>3 DEF LockDay
    <2>3. \A e \in DaysOf[slot[c]] \ days'[c] : d < e
      BY <1>3, <2>1 DEF LockDay, NextDay
    <2>4. \A b \in Calls \ {c} : days'[b] = days[b]
      BY <2>1
    <2>5. days'[c] = days[c] \cup {d}
      BY <2>1
    <2> QED
      BY <2>1, <2>2, <2>3, <2>4, <2>5
  <1>4. ASSUME NEW c \in Calls, CheckSlot(c)
        PROVE  DayInv'
    <2>1. at[c] = "days" /\ days[c] = DaysOf[slot[c]] /\ UNCHANGED slot
      BY <1>4 DEF CheckSlot, arguments
    <2>2. CASE End(c)
      BY <2>1, <2>2 DEF End, Goto
    <2>3. CASE Goto(c, "write") /\ UNCHANGED days
      BY <2>1, <2>3 DEF Goto
    <2> QED
      BY <1>4, <2>2, <2>3 DEF CheckSlot
  <1>5. ASSUME NEW c \in Calls, WriteScheduled(c) \/ WriteRescheduled(c) \/ Abort(c)
        PROVE  DayInv'
    <2>1. End(c) /\ UNCHANGED slot
      BY <1>5 DEF WriteScheduled, WriteRescheduled, Abort, arguments
    <2> QED
      BY <2>1 DEF End, Goto
  <1>6. ASSUME NEW l \in Lots, NEW s \in Statuses, Move(l, s)
        PROVE  DayInv'
    BY <1>6 DEF Move, arguments
  <1>7. CASE UNCHANGED vars
    BY <1>7 DEF vars, arguments
  <1> QED
    BY <1>1, <1>2, <1>3, <1>4, <1>5, <1>6, <1>7 DEF Next

\* No statement makes a lot of the schedule an application again.
LEMMA NeverPendingAgain ==
  ASSUME NEW t \in Statuses
  PROVE  "pending" \notin After[t]
  <1> USE DEF After
  <1>1. CASE t \in Unpublished
    BY <1>1 DEF Unpublished
  <1>2. CASE t \in Published
    BY <1>2 DEF Published
  <1>3. CASE t \in {"pending", "publishing", "finalizing", "cancelled"}
    BY <1>3
  <1> QED
    BY <1>1, <1>2, <1>3 DEF Statuses

LEMMA RowStep ==
  ASSUME TypeOK, RowInv, [Next]_vars
  PROVE  RowInv'
  <1> USE SlotsAssumption DEF SlotsAssumption, TypeOK, RowInv
  <1>1. ASSUME NEW c \in Calls, NEW l \in Lots, NEW t \in Slots,
               CallSchedule(c, l, t) \/ CallReschedule(c, l, t)
        PROVE  RowInv'
    BY <1>1 DEF CallSchedule, CallReschedule, Call, Goto, rows
  <1>2. ASSUME NEW c \in Calls,
               LockRow(c) \/ CheckSlot(c) \/ Abort(c) \/ \E d \in 0..LastDay : LockDay(c, d)
        PROVE  RowInv'
    BY <1>2 DEF LockRow, CheckSlot, Abort, LockDay, NextDay, End, Goto, rows, arguments
  <1>3. ASSUME NEW c \in Calls, WriteScheduled(c) \/ WriteRescheduled(c)
        PROVE  RowInv'
    BY <1>3 DEF WriteScheduled, WriteRescheduled, Place, End, Goto, rows, arguments
  <1>4. ASSUME NEW l \in Lots, NEW s \in Statuses, Move(l, s)
        PROVE  RowInv'
    <2>1. s # "pending"
      BY <1>4, NeverPendingAgain DEF Move
    <2>2. \A k \in Lots : status'[k] = "pending" => status[k] = "pending"
      BY <1>4, <2>1 DEF Move
    <2> QED
      BY <1>4, <2>2 DEF Move, arguments
  <1>5. CASE UNCHANGED vars
    BY <1>5 DEF vars, rows, arguments
  <1> QED
    BY <1>1, <1>2, <1>3, <1>4, <1>5 DEF Next

\* A write of another call goes to another slot: both would hold the slot's days.
LEMMA PlacedElsewhere ==
  ASSUME TypeOK, DayInv, NEW b \in Calls, NEW c \in Calls, b # c,
         at[b] = "write", at[c] = "write"
  PROVE  slot[b] # slot[c]
  <1>1. days[b] = DaysOf[slot[b]] /\ days[c] = DaysOf[slot[c]] /\ days[b] \cap days[c] = {}
    BY DEF DayInv
  <1>2. slot[b] \in Slots /\ DaysOf[slot[b]] # {}
    BY SlotsAssumption DEF SlotsAssumption, TypeOK
  <1> QED
    BY <1>1, <1>2

LEMMA CheckedStep ==
  ASSUME TypeOK, DayInv, Checked, [Next]_vars
  PROVE  Checked'
  <1> USE DEF TypeOK, Checked
  <1>1. ASSUME NEW c \in Calls, NEW l \in Lots, NEW t \in Slots,
               CallSchedule(c, l, t) \/ CallReschedule(c, l, t)
        PROVE  Checked'
    BY <1>1 DEF CallSchedule, CallReschedule, Call, Goto, rows
  <1>2. ASSUME NEW c \in Calls,
               LockRow(c) \/ Abort(c) \/ \E d \in 0..LastDay : LockDay(c, d)
        PROVE  Checked'
    BY <1>2 DEF LockRow, Abort, LockDay, End, Goto, rows, arguments
  <1>3. ASSUME NEW c \in Calls, CheckSlot(c)
        PROVE  Checked'
    BY <1>3 DEF CheckSlot, Occupied, End, Goto, rows, arguments
  <1>4. ASSUME NEW c \in Calls, NEW s \in Statuses, at[c] = "write", Place(c, s), End(c),
               UNCHANGED arguments
        PROVE  Checked'
    <2> SUFFICES ASSUME NEW b \in Calls, (at[b] = "write")', NEW k \in Lots,
                        <<k, lot[b]>> \in Rival, (status[k] \in Counted)',
                        (start[k] = slot[b])'
                 PROVE  k \in unasked'
      BY <1>4 DEF arguments
    <2>1. b # c /\ at[b] = "write" /\ slot'[b] = slot[b]
      BY <1>4 DEF End, Goto, arguments
    <2>2. slot[b] # slot[c]
      BY <1>4, <2>1, PlacedElsewhere
    <2>3. k # lot[c]
      BY <1>4, <2>1, <2>2 DEF Place
    <2> QED
      BY <1>4, <2>1, <2>3 DEF Place
  <1>5. ASSUME NEW c \in Calls, WriteScheduled(c) \/ WriteRescheduled(c)
        PROVE  Checked'
    <2>1. /\ at[c] = "write" /\ End(c) /\ UNCHANGED arguments
          /\ Place(c, "scheduled") \/ Place(c, "active") \/ UNCHANGED rows
      BY <1>5 DEF WriteScheduled, WriteRescheduled
    <2>2. CASE UNCHANGED rows
      BY <2>1, <2>2 DEF rows, arguments, End, Goto
    <2> QED
      BY <1>4, <2>1, <2>2 DEF Statuses, Unpublished, Published
  <1>6. ASSUME NEW l \in Lots, NEW s \in Statuses, Move(l, s)
        PROVE  Checked'
    BY <1>6 DEF Move, arguments
  <1>7. CASE UNCHANGED vars
    BY <1>7 DEF vars, rows, arguments
  <1> QED
    BY <1>1, <1>2, <1>3, <1>5, <1>6, <1>7 DEF Next

LEMMA LocksHold == Spec => [](TypeOK /\ DayInv /\ RowInv /\ Checked)
  <1>1. TypeOK /\ DayInv /\ RowInv /\ Checked /\ [Next]_vars => (DayInv /\ RowInv /\ Checked)'
    BY DayStep, RowStep, CheckedStep
  <1> QED
    BY <1>1, InitLocks, SlotTypes, PTL DEF Spec

-------------------------------------------------------------------------------
(* The schedule *)

LEMMA BookingStep ==
  ASSUME TypeOK, Checked, NoDoubleBooking, [Next]_vars
  PROVE  NoDoubleBooking'
  <1> USE DEF TypeOK, NoDoubleBooking
  <1>1. ASSUME NEW c \in Calls, NEW s \in Statuses, at[c] = "write", Place(c, s)
        PROVE  NoDoubleBooking'
    <2> DEFINE l == lot[c]
    <2>1. \A k \in Lots \ {l} : /\ status'[k] = status[k] /\ start'[k] = start[k]
                                /\ k \in unasked' <=> k \in unasked
      BY <1>1 DEF Place
    <2>2. \A k \in Lots : <<k, l>> \in Rival => k # l /\ <<l, k>> \in Rival
      BY SlotsAssumption DEF SlotsAssumption
    <2>3. \A k \in Lots : <<l, k>> \in Rival => k # l /\ <<k, l>> \in Rival
      BY SlotsAssumption DEF SlotsAssumption
    <2>4. start'[l] = slot[c]
      BY <1>1 DEF Place
    <2>5. \A k \in Lots : <<k, l>> \in Rival /\ status'[k] \in Counted /\ start'[k] = start'[l]
                          => k \in unasked'
      BY <1>1, <2>1, <2>2, <2>4 DEF Checked
    <2> QED
      BY <2>1, <2>3, <2>5
  <1>2. ASSUME NEW l \in Lots, NEW s \in Statuses, Move(l, s)
        PROVE  NoDoubleBooking'
    BY <1>2 DEF Move
  <1>3. CASE UNCHANGED rows
    BY <1>3 DEF rows
  <1>4. CASE Next
    <2>1. \/ UNCHANGED rows
          \/ \E c \in Calls : at[c] = "write" /\ (Place(c, "scheduled") \/ Place(c, "active"))
          \/ \E l \in Lots, s \in Statuses : Move(l, s)
      BY <1>4 DEF Next, CallSchedule, CallReschedule, Call, LockRow, CheckSlot, LockDay,
         WriteScheduled, WriteRescheduled, Abort
    <2> QED
      BY <1>1, <1>2, <1>3, <2>1 DEF Statuses, Unpublished, Published
  <1> QED
    BY <1>3, <1>4 DEF vars

\* Two lots of one card and owner are in one slot only because a statement that does not
\* ask for the slot put one of them back, whatever the calls that place lots interleave with.
THEOREM SlotsAreKept == Spec => []NoDoubleBooking
  <1>1. Init => NoDoubleBooking
    BY DEF Init, NoDoubleBooking, Counted
  <1> QED
    BY <1>1, BookingStep, LocksHold, PTL DEF Spec

-------------------------------------------------------------------------------
(* No deadlock *)

LEMMA LargestDay ==
  ASSUME NEW D \in SUBSET (0..LastDay), D # {}
  PROVE  \E n \in D : \A m \in D : m =< n
  <1> DEFINE Left == {LastDay - d : d \in D}
  <1>1. LastDay \in Nat
    BY SlotsAssumption DEF SlotsAssumption
  <1>2. \A d \in D : LastDay - d \in Nat
    BY <1>1
  <1>3. Left \subseteq Nat /\ Left # {}
    BY <1>2
  <1>4. PICK r \in Left : \A q \in Left : <<q, r>> \notin OpToRel(<, Nat)
    <2> HIDE DEF Left
    <2> QED
      BY <1>3, WFMin, NatLessThanWellFounded
  <1>5. \A q \in Left : ~(q < r)
    BY <1>3, <1>4 DEF OpToRel
  <1>6. PICK n \in D : r = LastDay - n
    BY <1>4
  <1>7. \A m \in D : ~(LastDay - m < LastDay - n)
    BY <1>5, <1>6
  <1> QED
    BY <1>1, <1>6, <1>7

\* Of the calls of a circle none writes, one waits for a day, and the one that waits for
\* the latest day waits for a holder who is not waiting.
LEMMA NoCircle ==
  ASSUME TypeOK, DayInv, RowInv
  PROVE  NoLockCycle
  <1> SUFFICES ASSUME NEW S \in (SUBSET Calls) \ {{}},
                      \A c \in S : \E b \in S : Blocks(b, c)
               PROVE  FALSE
    BY DEF NoLockCycle
  <1>1. S \subseteq Calls /\ S # {}
    OBVIOUS
  <1>2. \A c \in S : at[c] \in {"row", "days"}
    <2> SUFFICES ASSUME NEW c \in S PROVE at[c] \in {"row", "days"}
      OBVIOUS
    <2>1. PICK b \in S : Blocks(b, c)
      OBVIOUS
    <2>2. CASE \E d \in days[b] : NextDay(c, d)
      BY <2>2 DEF NextDay
    <2>3. CASE NeedsRow(c) /\ HoldsRow(b, lot[c])
      <3>1. start[lot[c]] # NoSlot
        BY <1>1, <2>3 DEF HoldsRow, RowInv
      <3>2. status[lot[c]] # "pending"
        BY <1>1, <3>1 DEF RowInv, TypeOK
      <3> QED
        BY <2>3, <3>2 DEF NeedsRow
    <2> QED
      BY <2>1, <2>2, <2>3 DEF Blocks
  <1>3. \A c \in S : at[c] = "days" => \E b \in S : \E d \in days[b] : NextDay(c, d)
    BY DEF Blocks, NeedsRow
  <1>4. \E c \in S : at[c] = "days"
    <2>1. PICK c \in S : TRUE
      BY <1>1
    <2>2. PICK b \in S : Blocks(b, c)
      OBVIOUS
    <2>3. CASE at[c] = "row"
      BY <1>2, <2>2, <2>3 DEF Blocks, HoldsRow, NextDay
    <2> QED
      BY <1>2, <2>3
  <1> DEFINE D == {d \in 0..LastDay : \E c \in S : NextDay(c, d)}
  <1>5. \A c \in S : at[c] = "days" => \E d \in D : NextDay(c, d)
    BY <1>1, <1>3 DEF TypeOK
  <1>6. PICK n \in D : \A m \in D : m =< n
    <2>1. D \in SUBSET (0..LastDay) /\ D # {}
      BY <1>4, <1>5
    <2> HIDE DEF D
    <2> QED
      BY <2>1, LargestDay
  <1>7. PICK c \in S : NextDay(c, n)
    BY <1>6
  <1>8. PICK b \in S : \E d \in days[b] : NextDay(c, d)
    BY <1>3, <1>7 DEF NextDay
  <1>9. n \in days[b]
    <2>1. PICK d \in days[b] : NextDay(c, d)
      BY <1>8
    <2>2. d \in 0..LastDay /\ n \in 0..LastDay /\ d =< n /\ n =< d
      BY <1>1, <1>7, <2>1 DEF NextDay, TypeOK
    <2>3. d = n
      BY <2>2, SlotsAssumption DEF SlotsAssumption
    <2> QED
      BY <2>1, <2>3
  <1>10. at[b] = "days"
    BY <1>1, <1>2, <1>9 DEF DayInv
  <1>11. PICK e \in D : NextDay(b, e)
    BY <1>5, <1>10
  <1>12. n < e
    BY <1>1, <1>9, <1>10, <1>11 DEF NextDay, DayInv
  <1>13. e =< n
    BY <1>6, <1>11
  <1> QED
    BY <1>6, <1>12, <1>13, SlotsAssumption DEF SlotsAssumption

\* The calls that approve and move lots never wait for each other in a circle, although
\* they lock rows and days in different orders.
THEOREM CallsNeverDeadlock == Spec => []NoLockCycle
  BY NoCircle, LocksHold, PTL

-------------------------------------------------------------------------------
(* The calls are serializable *)

LEMMA SameVocabulary ==
  /\ Calendar!Counted = Counted /\ Calendar!Unpublished = Unpublished
  /\ Calendar!Published = Published /\ Calendar!After = After
  BY DEF Calendar!Counted, Counted, Calendar!Unpublished, Unpublished,
         Calendar!Published, Published, Calendar!After, After

\* A call writes what it would if it looked at its slot only now.
LEMMA WritesLate ==
  ASSUME TypeOK, Checked, NEW c \in Calls, NEW s \in {"scheduled", "active"},
         at[c] = "write", Place(c, s)
  PROVE  Calendar!Put(lot[c], slot[c], s)
  <1>1. Calendar!Vacant(lot[c], slot[c])
    BY SameVocabulary DEF Checked, Calendar!Vacant
  <1> QED
    BY <1>1 DEF Place, Calendar!Put

LEMMA CalendarStep ==
  ASSUME TypeOK, RowInv, Checked, [Next]_vars
  PROVE  Calendar!Next \/ UNCHANGED Calendar!vars
  <1> USE SameVocabulary
  <1>1. ASSUME NEW c \in Calls, WriteScheduled(c)
        PROVE  Calendar!Next \/ UNCHANGED Calendar!vars
    <2>1. lot[c] \in Lots /\ slot[c] \in Slots
      BY DEF TypeOK
    <2>2. CASE status[lot[c]] = "pending"
      <3>1. Calendar!Approve(lot[c], slot[c])
        BY <1>1, <2>2, WritesLate DEF WriteScheduled, Calendar!Approve
      <3> QED
        BY <2>1, <3>1 DEF Calendar!Next
    <2>3. CASE status[lot[c]] # "pending"
      BY <1>1, <2>3 DEF WriteScheduled, rows, Calendar!vars
    <2> QED
      BY <2>2, <2>3
  <1>2. ASSUME NEW c \in Calls, WriteRescheduled(c)
        PROVE  Calendar!Next \/ UNCHANGED Calendar!vars
    <2>1. lot[c] \in Lots /\ slot[c] \in Slots
      BY DEF TypeOK
    <2>2. start[lot[c]] # NoSlot
      BY <1>2 DEF WriteRescheduled, RowInv
    <2>3. CASE \/ status[lot[c]] \in Unpublished /\ Place(c, "scheduled")
               \/ status[lot[c]] \in Published /\ Place(c, "active")
      <3>1. Calendar!Transfer(lot[c], slot[c])
        BY <1>2, <2>2, <2>3, WritesLate DEF WriteRescheduled, Calendar!Transfer
      <3> QED
        BY <2>1, <3>1 DEF Calendar!Next
    <2>4. CASE UNCHANGED rows
      BY <2>4 DEF rows, Calendar!vars
    <2> QED
      BY <1>2, <2>3, <2>4 DEF WriteRescheduled
  <1>3. ASSUME NEW l \in Lots, NEW s \in Statuses, Move(l, s)
        PROVE  Calendar!Next
    <2>1. s \in Calendar!After[status[l]] /\ Calendar!Move(l, s)
      BY <1>3 DEF Move, Calendar!Move
    <2> QED
      BY <2>1 DEF Calendar!Next
  <1>4. CASE UNCHANGED rows
    BY <1>4 DEF rows, Calendar!vars
  <1> QED
    BY <1>1, <1>2, <1>3, <1>4
       DEF Next, vars, CallSchedule, CallReschedule, Call, LockRow, CheckSlot, LockDay, Abort

\* Approvals and moves that lock and check step by step, beside each other and beside all
\* that changes a status, implement a calendar in which each of them is one step.
THEOREM CallsAreSerial == Spec => BookingsAreSerial
  <1>1. Init => Calendar!Init
    BY DEF Init, Calendar!Init
  <1>2. TypeOK /\ RowInv /\ Checked /\ [Next]_vars => [Calendar!Next]_(Calendar!vars)
    BY CalendarStep
  <1> QED
    BY <1>1, <1>2, LocksHold, PTL DEF Spec, BookingsAreSerial, Calendar!Spec
===============================================================================
