--------------------------- MODULE UidVerification ---------------------------
(***************************************************************************)
(* UID verification: an applicant claims a game UID and names people he    *)
(* dealt with, they confirm or decline, administrators send the request    *)
(* back for corrections or approve it, and an approval binds the UID to    *)
(* the applicant in user_uids.                                             *)
(*                                                                         *)
(* An approval is a transaction of several waits: the row of the request,  *)
(* two advisory locks, the row of the UID's owner.  Each wait is an action *)
(* of its own, and the confirmations are counted before the transaction.   *)
(***************************************************************************)
EXTENDS Naturals, FiniteSets

CONSTANTS
    Users, Uids, Requests, Counterparties, Admins,
    Ghosts,         \* the surrogate identities of erased accounts
    Legacy,         \* requests that lost their UID in an old data migration
    MIN_REQUIRED,
    ExpiredAllowed, \* whether the CHECK of the requests' status knows 'expired'
    NoUser, NoUid, NoRequest

ASSUME PeopleAssumption ==
    /\ NoUser \notin Users /\ NoUid \notin Uids /\ NoRequest \notin Requests
    /\ Ghosts \cap Users = {} /\ NoUser \notin Ghosts
    /\ Legacy \subseteq Requests /\ IsFiniteSet(Counterparties)

ASSUME BoundsAssumption ==
    /\ MIN_REQUIRED \in Nat \ {0}
    /\ ExpiredAllowed \in BOOLEAN

VARIABLES
    status, owner, uid,     \* uid_verification_requests
    deals,                  \* the counterparties a request names
    conf,                   \* uid_verification_confirmations of a request
    due,                    \* requests older than CONFIRM_TTL_HOURS
    binding,                \* user_uids: owner -> UID
    pinned,                 \* user_uids rows locked by an erasure (PrivacyErasure)
    stage, target,          \* per administrator: the approval under way
    vouched                 \* history: requests that once had enough confirmations

requestVars == <<status, owner, uid, deals, conf, due, vouched>>
approvalVars == <<stage, target>>
vars == <<requestVars, binding, pinned, approvalVars>>

Owners == Users \cup Ghosts
Statuses == {"none", "pending", "revision", "approved", "conflict", "expired"}
\* "declined" stands for rejected and unreachable.
Answers == {"confirmed", "declined"}
Confirmations == {"none", "pending"} \cup Answers
\* The locks an approval has taken, in this order.
InTransaction == {"row", "user", "value", "owner"}
Stages == {"idle", "counted"} \cup InTransaction

Confirmed(r) == Cardinality({c \in Counterparties : conf[r][c] = "confirmed"})
Asked(r) == {c \in Counterparties : conf[r][c] # "none"}

HoldsRow(r) == {a \in Admins : stage[a] \in InTransaction /\ target[a] = r}
HoldsUser(u) ==
    {a \in Admins : stage[a] \in {"user", "value", "owner"} /\ owner[target[a]] = u}

\* Mutant of HoldsValue: no lock on the UID
HoldsNoValue(n) == {}

HoldsValue(n) ==
    {a \in Admins : stage[a] \in {"value", "owner"} /\ uid[target[a]] = n}
\* The owner check of an approval locks the user's own row when he has the UID already.
HoldsBinding(u) ==
    {a \in Admins : /\ stage[a] = "owner"
                    /\ owner[target[a]] = u
                    /\ binding[u] = uid[target[a]]}

Init ==
    /\ status = [r \in Requests |-> IF r \in Legacy THEN "pending" ELSE "none"]
    /\ \E o \in [Legacy -> Users], d \in [Legacy -> SUBSET Counterparties] :
          /\ owner = [r \in Requests |-> IF r \in Legacy THEN o[r] ELSE NoUser]
          /\ deals = [r \in Requests |-> IF r \in Legacy THEN d[r] ELSE {}]
    /\ uid = [r \in Requests |-> NoUid]
    /\ conf = [r \in Requests |->
                  [c \in Counterparties |-> IF c \in deals[r] THEN "pending" ELSE "none"]]
    /\ due = {}
    /\ vouched = {}
    /\ binding = [o \in Owners |-> NoUid]
    /\ pinned = {}
    /\ stage = [a \in Admins |-> "idle"]
    /\ target = [a \in Admins |-> NoRequest]

-------------------------------------------------------------------------------
(* The applicant and the counterparties *)

SetStatus(r, s) ==
    /\ status' = [status EXCEPT ![r] = s]
    /\ UNCHANGED <<owner, uid, deals, conf, due, vouched>>

SetConfirmation(r, c, v) ==
    /\ conf' = [conf EXCEPT ![r][c] = v]
    /\ vouched' = IF Confirmed(r)' >= MIN_REQUIRED THEN vouched \cup {r} ELSE vouched
    /\ UNCHANGED <<status, owner, uid, due>>

\* The end of the dialogue.  Nothing stops a user from having several requests.
CreateRequest(r, u, n, D) ==
    /\ status[r] = "none"
    /\ Cardinality(D) >= MIN_REQUIRED
    /\ status' = [status EXCEPT ![r] = "pending"]
    /\ owner' = [owner EXCEPT ![r] = u]
    /\ uid' = [uid EXCEPT ![r] = n]
    /\ deals' = [deals EXCEPT ![r] = D]
    /\ UNCHANGED <<conf, due, vouched, binding, pinned, approvalVars>>

\* One turn of the loop that follows; a bot that dies here never asks the others.
AskCounterparty(r, c) ==
    /\ c \in deals[r]
    /\ conf[r][c] = "none"
    /\ \E v \in {"pending", "declined"} : SetConfirmation(r, c, v)
    /\ UNCHANGED <<deals, binding, pinned, approvalVars>>

\* A button under the question; the status of the request is not looked at.
Answer(r, c, v) ==
    /\ conf[r][c] = "pending"
    /\ SetConfirmation(r, c, v)
    /\ UNCHANGED <<deals, binding, pinned, approvalVars>>

\* The applicant names somebody else: the old confirmation is deleted, confirmed or not.
\* Who is not among the bot's users is never asked.
FixUsername(r, old, new) ==
    /\ status[r] = "revision"
    /\ old \in deals[r] /\ new \notin deals[r]
    /\ deals' = [deals EXCEPT ![r] = (@ \ {old}) \cup ({new} \cap Counterparties)]
    /\ \E v \in {"pending", "declined"} :
          conf' = [conf EXCEPT ![r] =
                      [c \in Counterparties |->
                          IF c = old THEN "none" ELSE IF c = new THEN v ELSE @[c]]]
    /\ UNCHANGED <<status, owner, uid, due, vouched, binding, pinned, approvalVars>>

\* Only a request without a UID asks for one when its revision is opened.
RestoreUid(r, n) ==
    /\ status[r] = "revision"
    /\ uid[r] = NoUid
    /\ uid' = [uid EXCEPT ![r] = n]
    /\ UNCHANGED <<status, owner, deals, conf, due, vouched, binding, pinned, approvalVars>>

Resubmit(r) ==
    /\ status[r] = "revision"
    /\ uid[r] # NoUid
    /\ SetStatus(r, "pending")
    /\ UNCHANGED <<binding, pinned, approvalVars>>

Applicant ==
    \E r \in Requests :
       \/ \E u \in Users, n \in Uids, D \in SUBSET Counterparties : CreateRequest(r, u, n, D)
       \/ \E c \in Counterparties : AskCounterparty(r, c)
       \/ \E c \in Counterparties, v \in Answers : Answer(r, c, v)
       \/ \E old \in Counterparties, new \in Counterparties \cup {NoUser} : FixUsername(r, old, new)
       \/ \E n \in Uids : RestoreUid(r, n)
       \/ Resubmit(r)

-------------------------------------------------------------------------------
(* The clock and the watch loop *)

TtlPasses(r) ==
    /\ status[r] \in {"pending", "revision"}
    /\ r \notin due
    /\ due' = due \cup {r}
    /\ UNCHANGED <<status, owner, uid, deals, conf, vouched, binding, pinned, approvalVars>>

\* What expire_due_requests selects; rows that are locked are skipped.
DueRequests ==
    {r \in due : /\ status[r] = "pending"
                 /\ Confirmed(r) < MIN_REQUIRED
                 /\ HoldsRow(r) = {}}

\* Both UPDATEs of the pass write 'expired'; no schema allows it for a confirmation,
\* the migrated one not for a request either, and one refused row aborts the pass.
ExpiryAllowed ==
    /\ ExpiredAllowed
    /\ \A r \in DueRequests, c \in Counterparties : conf[r][c] # "pending"

ExpireDue ==
    /\ DueRequests # {}
    /\ ExpiryAllowed
    /\ status' = [r \in Requests |-> IF r \in DueRequests THEN "expired" ELSE status[r]]
    /\ UNCHANGED <<owner, uid, deals, conf, due, vouched, binding, pinned, approvalVars>>

-------------------------------------------------------------------------------
(* Administrators *)

Goto(a, s) ==
    /\ stage' = [stage EXCEPT ![a] = s]
    /\ UNCHANGED target

End(a) ==
    /\ stage' = [stage EXCEPT ![a] = "idle"]
    /\ target' = [target EXCEPT ![a] = NoRequest]

\* Mutant of SendToRevision: without the condition on the status
ReviseAny(r) ==
    /\ HoldsRow(r) = {}
    /\ status[r] # "none"
    /\ SetStatus(r, "revision")
    /\ UNCHANGED <<binding, pinned, approvalVars>>

\* The UPDATE waits for the row and sees the status it has then.
SendToRevision(r) ==
    /\ HoldsRow(r) = {}
    /\ status[r] \in {"pending", "revision"}
    /\ SetStatus(r, "revision")
    /\ UNCHANGED <<binding, pinned, approvalVars>>

\* Mutant of CountConfirmations: off by one
CountOneLess(a, r) ==
    /\ stage[a] = "idle"
    /\ status[r] # "none"
    /\ uid[r] # NoUid
    /\ Confirmed(r) + 1 >= MIN_REQUIRED
    /\ stage' = [stage EXCEPT ![a] = "counted"]
    /\ target' = [target EXCEPT ![a] = r]
    /\ UNCHANGED <<requestVars, binding, pinned>>

\* ensure_request_uid and the count of the use case, before any lock.
CountConfirmations(a, r) ==
    /\ stage[a] = "idle"
    /\ status[r] # "none"
    /\ uid[r] # NoUid
    /\ Confirmed(r) >= MIN_REQUIRED
    /\ stage' = [stage EXCEPT ![a] = "counted"]
    /\ target' = [target EXCEPT ![a] = r]
    /\ UNCHANGED <<requestVars, binding, pinned>>

\* Mutant of LockRequest: the status is not read again under the lock
LockAnyRequest(a) ==
    /\ stage[a] = "counted"
    /\ HoldsRow(target[a]) = {}
    /\ Goto(a, "row")
    /\ UNCHANGED <<requestVars, binding, pinned>>

LockRequest(a) ==
    /\ stage[a] = "counted"
    /\ HoldsRow(target[a]) = {}
    /\ IF status[target[a]] = "pending" THEN Goto(a, "row") ELSE End(a)
    /\ UNCHANGED <<requestVars, binding, pinned>>

LockUser(a) ==
    /\ stage[a] = "row"
    /\ HoldsUser(owner[target[a]]) = {}
    /\ Goto(a, "user")
    /\ UNCHANGED <<requestVars, binding, pinned>>

LockValue(a) ==
    /\ stage[a] = "user"
    /\ HoldsValue(uid[target[a]]) = {}
    /\ Goto(a, "value")
    /\ UNCHANGED <<requestVars, binding, pinned>>

OwnersOf(n) == {o \in Owners : binding[o] = n}

\* SELECT ... FOR UPDATE waits for the rows it finds; another owner ends the approval.
ReadOwner(a) ==
    LET r == target[a] IN
    /\ stage[a] = "value"
    /\ OwnersOf(uid[r]) \cap pinned = {}
    /\ IF OwnersOf(uid[r]) \subseteq {owner[r]}
       THEN Goto(a, "owner") /\ UNCHANGED requestVars
       ELSE End(a) /\ SetStatus(r, "conflict")
    /\ UNCHANGED <<binding, pinned>>

\* The upsert by user_id and the commit.  ON CONFLICT (user_id) does not help against
\* the unique index on the UID: there the statement raises and everything rolls back.
Bind(a) ==
    LET r == target[a] IN
    /\ stage[a] = "owner"
    /\ owner[r] \notin pinned
    /\ IF OwnersOf(uid[r]) \subseteq {owner[r]}
       THEN /\ binding' = [binding EXCEPT ![owner[r]] = uid[r]]
            /\ SetStatus(r, "approved")
       ELSE UNCHANGED <<binding, requestVars>>
    /\ End(a)
    /\ UNCHANGED pinned

\* The process or the connection dies: the server rolls the transaction back.
Rollback(a) ==
    /\ stage[a] # "idle"
    /\ End(a)
    /\ UNCHANGED <<requestVars, binding, pinned>>

Approve(a) ==
    \/ \E r \in Requests : CountConfirmations(a, r)
    \/ LockRequest(a) \/ LockUser(a) \/ LockValue(a)
    \/ ReadOwner(a) \/ Bind(a) \/ Rollback(a)

Next ==
    \/ Applicant
    \/ \E r \in Requests : TtlPasses(r) \/ SendToRevision(r)
    \/ ExpireDue
    \/ \E a \in Admins : Approve(a)

Spec == Init /\ [][Next]_vars

-------------------------------------------------------------------------------
(* Properties *)

TypeOK ==
    /\ status \in [Requests -> Statuses]
    /\ owner \in [Requests -> Owners \cup {NoUser}]
    /\ uid \in [Requests -> Uids \cup {NoUid}]
    /\ deals \in [Requests -> SUBSET Counterparties]
    /\ conf \in [Requests -> [Counterparties -> Confirmations]]
    /\ due \subseteq Requests /\ vouched \subseteq Requests
    /\ binding \in [Owners -> Uids \cup {NoUid}]
    /\ pinned \subseteq Users
    /\ stage \in [Admins -> Stages]
    /\ target \in [Admins -> Requests \cup {NoRequest}]
    /\ \A a \in Admins : stage[a] # "idle" => target[a] \in Requests

\* The answer "nobody else has this UID" is still true when the approval writes: its
\* INSERT never runs into the unique index of user_uids, whoever else is approving,
\* rebinding or being erased meanwhile (approve_request).
CheckedOwnerStands ==
    \A a \in Admins :
       stage[a] = "owner" => OwnersOf(uid[target[a]]) \subseteq {owner[target[a]]}

\* An approved request had MIN_REQUIRED confirmations at once, at some time; they are
\* counted before the row is locked, so not necessarily when it was approved.
ApprovedOnEvidence ==
    \A r \in Requests : status[r] = "approved" => r \in vouched

\* user_uids and the requests tell one story: whoever holds a UID, a surrogate after an
\* erasure included, owns an approved request for it (approve_request).
BoundByApproval ==
    \A o \in Owners :
       binding[o] # NoUid =>
          \E r \in Requests : status[r] = "approved" /\ owner[r] = o /\ uid[r] = binding[o]

\* Two administrators, an applicant and the watch loop act on a request at once, but
\* only one of them decides it: a decision is never replaced by another.
DecidedOnce ==
    [][\A r \in Requests :
          status[r] \in {"approved", "conflict", "expired"} => status'[r] = status[r]]_vars

===============================================================================
