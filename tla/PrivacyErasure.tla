---------------------------- MODULE PrivacyErasure ----------------------------
(***************************************************************************)
(* The erasure of accounts beside UID verification: a user asks for it, an *)
(* operator approves a plan, another one executes it in a serializable     *)
(* transaction that moves the user's rows to a surrogate identity.  The    *)
(* other tables an erasure rewrites have no protocol of their own and are  *)
(* left out; the plan is what it says about UID verification.              *)
(***************************************************************************)
EXTENDS UidVerification

CONSTANTS
    Operators,
    Surrogate,      \* the ghost that takes over a user's rows
    NoOperator, NoErasure

\* An erasure under way: the operator, the account, and the rows of its snapshot.
Erasures ==
    [by : Operators, user : Users, locked : BOOLEAN,
     rows : [requests : SUBSET (Requests \X Statuses \X [Counterparties -> Confirmations]),
             uid : Uids \cup {NoUid}]]

ASSUME SurrogateAssumption ==
    /\ Surrogate \in [Users -> Ghosts]
    /\ \A u, v \in Users : Surrogate[u] = Surrogate[v] => u = v
    /\ NoOperator \notin Operators /\ NoErasure \notin Erasures

VARIABLES
    preq,           \* status of a user's latest privacy request
    approvedPlan,   \* approved_plan_sha256: the plan itself
    approver,       \* approved_by_digest
    erasing         \* the erasure transaction under way; one at a time here

privacyVars == <<preq, approvedPlan, approver, erasing>>
allVars == <<vars, privacyVars>>

RequestsOf(u) == {r \in Requests : owner[r] = u}

Unresolved == {"pending", "conflict", "revision"}
Blocked(u) == \E r \in RequestsOf(u) : status[r] \in Unresolved

Plans == [blocked : BOOLEAN, requests : SUBSET Requests, bound : BOOLEAN]
\* What the plan's hash covers: the holds and the numbers of rows.
Plan(u) ==
    [blocked |-> Blocked(u), requests |-> RequestsOf(u), bound |-> binding[u] # NoUid]

\* The rows of a user that the transaction rewrites, as its snapshot sees them.
Rows(u) ==
    [requests |-> {<<r, status[r], conf[r]>> : r \in RequestsOf(u)}, uid |-> binding[u]]

PrivacyInit ==
    /\ Init
    /\ preq = [u \in Users |-> "none"]
    /\ approvedPlan = [u \in Users |-> Plan(u)]
    /\ approver = [u \in Users |-> NoOperator]
    /\ erasing = NoErasure

-------------------------------------------------------------------------------
(* The life of a request *)

\* Bound: whoever comes back after his erasure does not ask for another one.
RequestErasure(u) ==
    /\ preq[u] \in {"none", "cancelled"}
    /\ preq' = [preq EXCEPT ![u] = "pending_review"]
    /\ UNCHANGED <<vars, approvedPlan, approver, erasing>>

\* Once approved, a request can neither be cancelled nor approved again.
CancelErasure(u) ==
    /\ preq[u] = "pending_review"
    /\ preq' = [preq EXCEPT ![u] = "cancelled"]
    /\ UNCHANGED <<vars, approvedPlan, approver, erasing>>

ApproveErasure(o, u) ==
    /\ preq[u] = "pending_review"
    /\ ~Blocked(u)
    /\ preq' = [preq EXCEPT ![u] = "approved"]
    /\ approvedPlan' = [approvedPlan EXCEPT ![u] = Plan(u)]
    /\ approver' = [approver EXCEPT ![u] = o]
    /\ UNCHANGED <<vars, erasing>>

-------------------------------------------------------------------------------
(* The transaction of execute_request *)

\* The snapshot is taken here; a changed or blocked plan is refused.
StartErasure(o, u) ==
    /\ erasing = NoErasure
    /\ preq[u] = "approved"
    /\ o # approver[u]
    /\ Plan(u) = approvedPlan[u]
    /\ ~Blocked(u)
    /\ erasing' = [by |-> o, user |-> u, rows |-> Rows(u), locked |-> FALSE]
    /\ UNCHANGED <<vars, preq, approvedPlan, approver>>

Abandon ==
    /\ erasing' = NoErasure
    /\ pinned' = {}
    /\ UNCHANGED <<requestVars, binding, approvalVars, preq, approvedPlan, approver>>

\* UPDATE user_uids: waits for an approval that read the row; a row that changed
\* since the snapshot is a serialization failure.
LockBinding ==
    /\ erasing # NoErasure
    /\ ~erasing.locked
    /\ HoldsBinding(erasing.user) = {}
    /\ IF binding[erasing.user] # erasing.rows.uid
       THEN Abandon
       ELSE /\ erasing' = [erasing EXCEPT !.locked = TRUE]
            /\ pinned' = IF erasing.rows.uid = NoUid THEN {} ELSE {erasing.user}
            /\ UNCHANGED <<requestVars, binding, approvalVars, preq, approvedPlan, approver>>

\* Every confirmation of a request is renamed to 'redacted', and the table has a unique
\* key on request and name.
Redactable(u) == \A r \in RequestsOf(u) : Cardinality(Asked(r)) =< 1

\* Mutant of MoveToSurrogate: the requests keep the erased owner
MoveBindingOnly(u) ==
    /\ binding' = [binding EXCEPT ![Surrogate[u]] = binding[u], ![u] = NoUid]
    /\ deals' = [r \in Requests |-> IF owner[r] = u THEN {} ELSE deals[r]]
    /\ UNCHANGED <<status, owner, uid, conf, due, vouched>>

MoveToSurrogate(u) ==
    LET g == Surrogate[u] IN
    /\ binding' = [binding EXCEPT ![g] = binding[u], ![u] = NoUid]
    /\ owner' = [r \in Requests |-> IF owner[r] = u THEN g ELSE owner[r]]
    /\ deals' = [r \in Requests |-> IF owner[r] = u THEN {} ELSE deals[r]]
    /\ UNCHANGED <<status, uid, conf, due, vouched>>

\* Mutant of Redact: the transaction is not serializable
RedactReadCommitted ==
    /\ erasing # NoErasure
    /\ erasing.locked
    /\ \A r \in RequestsOf(erasing.user) : HoldsRow(r) = {}
    /\ IF ~Redactable(erasing.user)
       THEN Abandon
       ELSE /\ MoveToSurrogate(erasing.user)
            /\ preq' = [preq EXCEPT ![erasing.user] = "completed"]
            /\ erasing' = NoErasure
            /\ pinned' = {}
            /\ UNCHANGED <<approvalVars, approvedPlan, approver>>

\* UPDATE of the requests and their confirmations, the surrogate, and the DELETE of the
\* account, which cascades to requests the snapshot did not see; the commit.
Redact ==
    /\ erasing # NoErasure
    /\ erasing.locked
    /\ \A r \in RequestsOf(erasing.user) : HoldsRow(r) = {}
    /\ IF Rows(erasing.user) # erasing.rows \/ ~Redactable(erasing.user)
       THEN Abandon
       ELSE /\ MoveToSurrogate(erasing.user)
            /\ preq' = [preq EXCEPT ![erasing.user] = "completed"]
            /\ erasing' = NoErasure
            /\ pinned' = {}
            /\ UNCHANGED <<approvalVars, approvedPlan, approver>>

KillErasure ==
    /\ erasing # NoErasure
    /\ Abandon

Erasure ==
    \/ \E u \in Users : RequestErasure(u) \/ CancelErasure(u)
    \/ \E u \in Users, o \in Operators : ApproveErasure(o, u) \/ StartErasure(o, u)
    \/ LockBinding \/ Redact \/ KillErasure

PrivacyNext ==
    \/ Next /\ UNCHANGED privacyVars
    \/ Erasure

PrivacySpec == PrivacyInit /\ [][PrivacyNext]_allVars

-------------------------------------------------------------------------------
(* Properties *)

PrivacyTypeOK ==
    /\ TypeOK
    /\ preq \in [Users -> {"none", "pending_review", "approved", "completed", "cancelled"}]
    /\ approvedPlan \in [Users -> Plans]
    /\ approver \in [Users -> Operators \cup {NoOperator}]
    /\ erasing \in Erasures \cup {NoErasure}

\* An erasure erases what was reviewed: between its snapshot and its commit nothing of
\* the account changed, and no verification of it was waiting for a decision.
ErasedAsReviewed ==
    [][\A u \in Users :
          preq'[u] = "completed" /\ preq[u] # "completed"
             => Plan(u) = approvedPlan[u] /\ ~Blocked(u)]_allVars

\* The surrogate of an erased account keeps no undecided request, and no approval under
\* way when the account was erased binds a UID to it afterwards.
ErasedIsSettled ==
    /\ \A u \in Users : ~Blocked(Surrogate[u])
    /\ \A a \in Admins : stage[a] \in InTransaction => owner[target[a]] \notin Ghosts

\* Approvals and an erasure never wait for each other in a circle, except over a request
\* that was created, confirmed and taken up for approval after the erasure's snapshot.
Proceeds(a) ==
    LET r == target[a] IN
    \/ stage[a] = "row" /\ HoldsUser(owner[r]) = {}
    \/ stage[a] = "user" /\ HoldsValue(uid[r]) = {}
    \/ stage[a] = "value" /\ OwnersOf(uid[r]) \cap pinned = {}
    \/ stage[a] = "owner" /\ owner[r] \notin pinned

ErasureProceeds ==
    \/ ~erasing.locked /\ HoldsBinding(erasing.user) = {}
    \/ erasing.locked /\ \A r \in RequestsOf(erasing.user) : HoldsRow(r) = {}

SnapshotOutdated ==
    \E r \in RequestsOf(erasing.user) : \A row \in erasing.rows.requests : row[1] # r

NoCircularWait ==
    (erasing # NoErasure \/ \E a \in Admins : stage[a] \in InTransaction)
       => \/ \E a \in Admins : stage[a] \in InTransaction /\ Proceeds(a)
          \/ erasing # NoErasure /\ (ErasureProceeds \/ SnapshotOutdated)

\* docs/privacy/request_lifecycle.md: apply "refuses changed or blocked requests"; any
\* other one that gets to its last statements is completed.
UnchangedIsErased ==
    [][Redact /\ Rows(erasing.user) = erasing.rows
          => preq'[erasing.user] = "completed"]_allVars
===============================================================================
