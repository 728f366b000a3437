------------------------- MODULE PrivacyErasureProofs -------------------------
(* Theorems about UID verification and the erasure of accounts, for every set *)
(* of users, requests, administrators and operators.                          *)
EXTENDS PrivacyErasure, FiniteSetTheorems, TLAPS

-------------------------------------------------------------------------------
(* Types *)

\* TypeOK by the tables and processes it speaks of.
RequestTypes ==
  /\ status \in [Requests -> Statuses]
  /\ owner \in [Requests -> Owners \cup {NoUser}]
  /\ uid \in [Requests -> Uids \cup {NoUid}]
  /\ deals \in [Requests -> SUBSET Counterparties]
  /\ conf \in [Requests -> [Counterparties -> Confirmations]]
  /\ due \subseteq Requests /\ vouched \subseteq Requests

BindingTypes == binding \in [Owners -> Uids \cup {NoUid}] /\ pinned \subseteq Users

ApprovalTypes ==
  /\ stage \in [Admins -> Stages]
  /\ target \in [Admins -> Requests \cup {NoRequest}]
  /\ \A a \in Admins : stage[a] # "idle" => target[a] \in Requests

LEMMA TypeParts ==
  /\ TypeOK <=> RequestTypes /\ BindingTypes /\ ApprovalTypes
  /\ TypeOK' <=> RequestTypes' /\ BindingTypes' /\ ApprovalTypes'
  BY DEF TypeOK, RequestTypes, BindingTypes, ApprovalTypes

LEMMA RequestsUnchanged ==
  ASSUME RequestTypes, UNCHANGED requestVars
  PROVE  RequestTypes'
  BY DEF RequestTypes, requestVars

LEMMA BindingUnchanged ==
  ASSUME BindingTypes, UNCHANGED <<binding, pinned>>
  PROVE  BindingTypes'
  BY DEF BindingTypes

LEMMA ApprovalUnchanged ==
  ASSUME ApprovalTypes, UNCHANGED approvalVars
  PROVE  ApprovalTypes'
  BY DEF ApprovalTypes, approvalVars

LEMMA SetStatusTypes ==
  ASSUME RequestTypes, NEW r \in Requests, NEW s \in Statuses, SetStatus(r, s)
  PROVE  RequestTypes'
  BY DEF RequestTypes, SetStatus

LEMMA SetConfirmationTypes ==
  ASSUME RequestTypes, NEW r \in Requests, NEW c \in Counterparties, NEW v \in Confirmations,
         SetConfirmation(r, c, v), UNCHANGED deals
  PROVE  RequestTypes'
  <1>1. conf' \in [Requests -> [Counterparties -> Confirmations]]
    BY DEF RequestTypes, SetConfirmation
  <1>2. vouched' \subseteq Requests
    BY DEF RequestTypes, SetConfirmation
  <1> QED
    BY <1>1, <1>2 DEF RequestTypes, SetConfirmation

LEMMA GotoTypes ==
  ASSUME ApprovalTypes, NEW a \in Admins, NEW s \in Stages, stage[a] # "idle", Goto(a, s)
  PROVE  ApprovalTypes'
  BY DEF ApprovalTypes, Goto

LEMMA EndTypes ==
  ASSUME ApprovalTypes, NEW a \in Admins, End(a)
  PROVE  ApprovalTypes'
  BY DEF ApprovalTypes, End, Stages

\* The values of the variables stay in their sets, in every step of UID verification.
LEMMA VerificationKeepsTypes ==
  ASSUME TypeOK, Next
  PROVE  TypeOK'
  <1> USE TypeParts, RequestsUnchanged, BindingUnchanged, ApprovalUnchanged
  <1>1. ASSUME NEW r \in Requests, NEW u \in Users, NEW n \in Uids, NEW D \in SUBSET Counterparties,
               CreateRequest(r, u, n, D)
        PROVE  TypeOK'
    <2>1. RequestTypes'
      BY <1>1 DEF CreateRequest, RequestTypes, Owners, Statuses
    <2> QED
      BY <1>1, <2>1 DEF CreateRequest
  <1>2. ASSUME NEW r \in Requests, NEW c \in Counterparties, NEW v \in Answers,
               AskCounterparty(r, c) \/ Answer(r, c, v)
        PROVE  TypeOK'
    <2>1. \E w \in Confirmations : SetConfirmation(r, c, w)
      BY <1>2 DEF AskCounterparty, Answer, Answers, Confirmations
    <2>2. UNCHANGED <<deals, binding, pinned, approvalVars>>
      BY <1>2 DEF AskCounterparty, Answer
    <2> QED
      BY <2>1, <2>2, SetConfirmationTypes
  <1>3. ASSUME NEW r \in Requests, NEW old \in Counterparties,
               NEW new \in Counterparties \cup {NoUser}, FixUsername(r, old, new)
        PROVE  TypeOK'
    <2>1. conf' \in [Requests -> [Counterparties -> Confirmations]]
      BY <1>3 DEF FixUsername, RequestTypes, Confirmations, Answers
    <2>2. deals' \in [Requests -> SUBSET Counterparties]
      BY <1>3 DEF FixUsername, RequestTypes
    <2>3. RequestTypes'
      BY <1>3, <2>1, <2>2 DEF FixUsername, RequestTypes
    <2> QED
      BY <1>3, <2>3 DEF FixUsername
  <1>4. ASSUME NEW r \in Requests, NEW n \in Uids, RestoreUid(r, n)
        PROVE  TypeOK'
    <2>1. RequestTypes'
      BY <1>4 DEF RestoreUid, RequestTypes
    <2> QED
      BY <1>4, <2>1 DEF RestoreUid
  <1>5. ASSUME NEW r \in Requests, Resubmit(r) \/ SendToRevision(r) \/ TtlPasses(r)
        PROVE  TypeOK'
    <2>1. CASE TtlPasses(r)
      <3>1. RequestTypes'
        BY <2>1 DEF TtlPasses, RequestTypes
      <3> QED
        BY <2>1, <3>1 DEF TtlPasses
    <2> QED
      BY <1>5, <2>1, SetStatusTypes DEF Resubmit, SendToRevision, Statuses
  <1>6. CASE ExpireDue
    <2>1. RequestTypes'
      BY <1>6 DEF ExpireDue, DueRequests, RequestTypes, Statuses
    <2> QED
      BY <1>6, <2>1 DEF ExpireDue
  <1>7. ASSUME NEW a \in Admins, Approve(a)
        PROVE  TypeOK'
    <2>1. CASE \E r \in Requests : CountConfirmations(a, r)
      <3>1. ApprovalTypes'
        BY <2>1 DEF CountConfirmations, ApprovalTypes, Stages
      <3> QED
        BY <2>1, <3>1 DEF CountConfirmations
    <2>2. CASE LockRequest(a) \/ LockUser(a) \/ LockValue(a)
      BY <2>2, GotoTypes, EndTypes DEF LockRequest, LockUser, LockValue, Stages, InTransaction
    <2>3. CASE ReadOwner(a) \/ Bind(a)
      <3>1. target[a] \in Requests /\ stage[a] # "idle"
        BY <2>3 DEF ReadOwner, Bind, ApprovalTypes
      <3>2. BindingTypes'
        BY <2>3, <3>1 DEF ReadOwner, Bind, BindingTypes, RequestTypes
      <3>3. ApprovalTypes'
        BY <2>3, <3>1, GotoTypes, EndTypes DEF ReadOwner, Bind, Stages, InTransaction
      <3>4. RequestTypes'
        <4>1. UNCHANGED requestVars
              \/ SetStatus(target[a], "conflict") \/ SetStatus(target[a], "approved")
          BY <2>3 DEF ReadOwner, Bind, requestVars
        <4> QED
          BY <3>1, <4>1, SetStatusTypes DEF Statuses
      <3> QED
        BY <3>2, <3>3, <3>4
    <2>4. CASE Rollback(a)
      BY <2>4, EndTypes DEF Rollback
    <2> QED
      BY <1>7, <2>1, <2>2, <2>3, <2>4 DEF Approve
  <1> HIDE TypeParts, RequestsUnchanged, BindingUnchanged, ApprovalUnchanged
  <1>8. CASE Applicant
    <2>1. CASE \E r \in Requests, u \in Users, n \in Uids, D \in SUBSET Counterparties :
                  CreateRequest(r, u, n, D)
      BY <1>1, <2>1
    <2>2. CASE \E r \in Requests, c \in Counterparties :
                  AskCounterparty(r, c) \/ \E v \in Answers : Answer(r, c, v)
      BY <1>2, <2>2 DEF Answers
    <2> QED
      BY <1>3, <1>4, <1>5, <1>8, <2>1, <2>2 DEF Applicant
  <1> QED
    BY <1>5, <1>6, <1>7, <1>8 DEF Next

\* An erasure moves rows between owners of the right kind.
LEMMA ErasureKeepsTypes ==
  ASSUME PrivacyTypeOK, Erasure
  PROVE  PrivacyTypeOK'
  <1> USE TypeParts, RequestsUnchanged, BindingUnchanged, ApprovalUnchanged DEF PrivacyTypeOK, vars
  <1>1. CASE \E u \in Users : RequestErasure(u) \/ CancelErasure(u)
    BY <1>1 DEF RequestErasure, CancelErasure
  <1>2. ASSUME NEW u \in Users, NEW o \in Operators, ApproveErasure(o, u)
        PROVE  PrivacyTypeOK'
    <2>1. Plan(u) \in Plans
      BY DEF Plan, Plans, RequestsOf, Blocked
    <2> QED
      BY <1>2, <2>1 DEF ApproveErasure
  <1>3. ASSUME NEW u \in Users, NEW o \in Operators, StartErasure(o, u)
        PROVE  PrivacyTypeOK'
    <2>1. Rows(u) \in [requests : SUBSET (Requests \X Statuses \X [Counterparties -> Confirmations]),
                       uid : Uids \cup {NoUid}]
      BY DEF Rows, RequestsOf, RequestTypes, BindingTypes, Owners
    <2> QED
      BY <1>3, <2>1 DEF StartErasure, Erasures
  <1>4. ASSUME Abandon
        PROVE  PrivacyTypeOK'
    BY <1>4 DEF Abandon, BindingTypes
  <1>5. CASE LockBinding
    <2>1. CASE Abandon
      BY <1>4, <2>1
    <2>2. CASE ~Abandon
      <3>1. /\ erasing \in Erasures
            /\ erasing' = [erasing EXCEPT !.locked = TRUE]
            /\ pinned' \in {{}, {erasing.user}}
            /\ UNCHANGED <<requestVars, binding, approvalVars, preq, approvedPlan, approver>>
        BY <1>5, <2>2 DEF LockBinding
      <3>2. erasing' \in Erasures /\ BindingTypes'
        BY <3>1 DEF Erasures, BindingTypes
      <3> QED
        BY <3>1, <3>2
    <2> QED
      BY <2>1, <2>2
  <1>6. CASE Redact
    <2>1. CASE Abandon
      BY <1>4, <2>1
    <2>2. CASE ~Abandon
      <3>1. /\ erasing \in Erasures /\ erasing.user \in Users
            /\ Surrogate[erasing.user] \in Ghosts
            /\ MoveToSurrogate(erasing.user)
            /\ preq' = [preq EXCEPT ![erasing.user] = "completed"]
            /\ erasing' = NoErasure /\ pinned' = {}
            /\ UNCHANGED <<approvalVars, approvedPlan, approver>>
        BY <1>6, <2>2, SurrogateAssumption DEF Redact, Erasures, SurrogateAssumption
      <3>2. BindingTypes'
        BY <3>1 DEF MoveToSurrogate, BindingTypes, Owners
      <3>3. RequestTypes'
        BY <3>1 DEF MoveToSurrogate, RequestTypes, Owners
      <3> QED
        BY <3>1, <3>2, <3>3
    <2> QED
      BY <2>1, <2>2
  <1>7. CASE KillErasure
    BY <1>4, <1>7 DEF KillErasure
  <1> QED
    BY <1>1, <1>2, <1>3, <1>5, <1>6, <1>7 DEF Erasure

\* The rows of the requests, the bindings, the approvals and the erasures under way
\* always have the values their CHECKs allow.
THEOREM PrivacyTypes == PrivacySpec => []PrivacyTypeOK
  <1>1. PrivacyInit => PrivacyTypeOK
    BY PeopleAssumption, SurrogateAssumption
    DEF PrivacyInit, Init, PrivacyTypeOK, TypeOK, PeopleAssumption, SurrogateAssumption, Owners,
        Statuses, Confirmations, Stages, InTransaction, Plan, Plans, RequestsOf, Blocked
  <1>2. PrivacyTypeOK /\ [PrivacyNext]_allVars => PrivacyTypeOK'
    <2> SUFFICES ASSUME PrivacyTypeOK, [PrivacyNext]_allVars PROVE PrivacyTypeOK'
      OBVIOUS
    <2>1. CASE Next /\ UNCHANGED privacyVars
      BY <2>1, VerificationKeepsTypes DEF PrivacyTypeOK, privacyVars
    <2>2. CASE Erasure
      BY <2>2, ErasureKeepsTypes
    <2>3. CASE UNCHANGED allVars
      BY <2>3 DEF allVars, vars, requestVars, approvalVars, privacyVars, PrivacyTypeOK, TypeOK
    <2> QED
      BY <2>1, <2>2, <2>3 DEF PrivacyNext
  <1> QED
    BY <1>1, <1>2, PTL DEF PrivacySpec

-------------------------------------------------------------------------------
(* Who holds a request, and whose it is *)

\* An approval under way is about a pending request with a UID; two never hold the same
\* request, nor the locks of the same UID.
Held ==
  /\ \A a \in Admins : stage[a] # "idle" =>
        status[target[a]] # "none" /\ uid[target[a]] # NoUid
  /\ \A a \in Admins : stage[a] \in InTransaction => status[target[a]] = "pending"
  /\ \A a, b \in Admins :
        a # b /\ stage[a] \in InTransaction /\ stage[b] \in InTransaction
           => target[a] # target[b]
  /\ \A a, b \in Admins :
        a # b /\ stage[a] \in {"value", "owner"} /\ stage[b] \in {"value", "owner"}
           => uid[target[a]] # uid[target[b]]

\* Undecided requests belong to users, not to surrogates.
Owned ==
  \A r \in Requests :
     /\ status[r] = "none" => owner[r] = NoUser
     /\ status[r] # "none" => owner[r] \in Owners
     /\ status[r] \in Unresolved => owner[r] \in Users

\* The snapshot of an erasure holds decided requests, and they stay as they are.
Seen ==
  erasing # NoErasure =>
     \A row \in erasing.rows.requests :
        row[2] \in {"approved", "expired"} /\ status[row[1]] = row[2]

LockInv == PrivacyTypeOK /\ Held /\ Owned /\ Seen

\* What an applicant, the clock, the watch loop or a moderator does to one request while
\* it is not being approved.
LEMMA RequestStep ==
  ASSUME TypeOK,
         Applicant \/ ExpireDue \/ (\E r \in Requests : TtlPasses(r) \/ SendToRevision(r))
  PROVE  /\ UNCHANGED <<approvalVars, binding, pinned>>
         /\ \A r \in Requests :
               \/ status'[r] = status[r] /\ owner'[r] = owner[r] /\ uid'[r] = uid[r]
               \/ /\ status[r] = "none" /\ status'[r] = "pending"
                  /\ owner'[r] \in Users /\ uid'[r] \in Uids
               \/ /\ status[r] = "revision" /\ status'[r] = "revision"
                  /\ owner'[r] = owner[r] /\ uid[r] = NoUid
               \/ /\ status[r] = "revision" /\ status'[r] = "pending"
                  /\ owner'[r] = owner[r] /\ uid'[r] = uid[r]
               \/ /\ status[r] \in {"pending", "revision"} /\ HoldsRow(r) = {}
                  /\ status'[r] \in {"revision", "expired"}
                  /\ owner'[r] = owner[r] /\ uid'[r] = uid[r]
  <1> USE TypeParts DEF RequestTypes
  <1>1. CASE Applicant
    <2>1. CASE \E r \in Requests, u \in Users, n \in Uids, D \in SUBSET Counterparties :
                  CreateRequest(r, u, n, D)
      BY <2>1 DEF CreateRequest
    <2>2. CASE \E r \in Requests, c \in Counterparties :
                  AskCounterparty(r, c) \/ \E v \in Answers : Answer(r, c, v)
      BY <2>2 DEF AskCounterparty, Answer, SetConfirmation
    <2>3. CASE \E r \in Requests, old \in Counterparties, new \in Counterparties \cup {NoUser} :
                  FixUsername(r, old, new)
      BY <2>3 DEF FixUsername
    <2>4. CASE \E r \in Requests, n \in Uids : RestoreUid(r, n)
      BY <2>4 DEF RestoreUid
    <2>5. CASE \E r \in Requests : Resubmit(r)
      BY <2>5 DEF Resubmit, SetStatus
    <2> QED
      BY <1>1, <2>1, <2>2, <2>3, <2>4, <2>5 DEF Applicant
  <1>2. CASE ExpireDue
    BY <1>2 DEF ExpireDue, DueRequests
  <1>3. CASE \E r \in Requests : TtlPasses(r)
    BY <1>3 DEF TtlPasses
  <1>4. CASE \E r \in Requests : SendToRevision(r)
    BY <1>4 DEF SendToRevision, SetStatus
  <1> QED
    BY <1>1, <1>2, <1>3, <1>4

\* A commit of an erasure, from the rows its snapshot saw.
Erased(u) ==
  /\ erasing # NoErasure /\ erasing.user = u /\ erasing.locked
  /\ Rows(u) = erasing.rows
  /\ \A r \in RequestsOf(u) : HoldsRow(r) = {}
  /\ MoveToSurrogate(u)
  /\ preq' = [preq EXCEPT ![u] = "completed"]
  /\ erasing' = NoErasure /\ pinned' = {}
  /\ UNCHANGED <<approvalVars, approvedPlan, approver>>

LEMMA RedactCases ==
  ASSUME PrivacyTypeOK, Redact
  PROVE  Abandon \/ \E u \in Users : Erased(u)
  BY DEF Redact, Erased, PrivacyTypeOK, Erasures

\* Every other step of an erasure leaves requests, bindings and approvals alone.
LEMMA ErasureStep ==
  ASSUME PrivacyTypeOK, Erasure
  PROVE  \/ \E u \in Users : Erased(u)
         \/ /\ UNCHANGED <<requestVars, binding, approvalVars>>
            /\ \/ UNCHANGED erasing
               \/ erasing' = NoErasure
               \/ erasing # NoErasure /\ erasing' = [erasing EXCEPT !.locked = TRUE]
               \/ \E u \in Users, o \in Operators : StartErasure(o, u)
  <1>1. CASE \E u \in Users : RequestErasure(u) \/ CancelErasure(u)
    BY <1>1 DEF RequestErasure, CancelErasure, vars
  <1>2. CASE \E u \in Users, o \in Operators : ApproveErasure(o, u) \/ StartErasure(o, u)
    BY <1>2 DEF ApproveErasure, StartErasure, vars
  <1>3. CASE LockBinding \/ KillErasure
    BY <1>3 DEF LockBinding, KillErasure, Abandon
  <1>4. CASE Redact
    BY <1>4, RedactCases DEF Abandon
  <1> QED
    BY <1>1, <1>2, <1>3, <1>4 DEF Erasure

\* The requests an erasure moves are decided.
LEMMA ErasedAreDecided ==
  ASSUME LockInv, NEW u \in Users, Erased(u), NEW r \in RequestsOf(u)
  PROVE  status[r] \in {"approved", "expired"}
  <1>1. <<r, status[r], conf[r]>> \in erasing.rows.requests
    BY DEF Erased, Rows, RequestsOf
  <1> QED
    BY <1>1 DEF LockInv, Seen, Erased

\* One step of one approval, for the facts about the locks: it goes on, with the lock it
\* waited for, or it ends, and only its own request can change.
ApprovalStep(a) ==
  /\ owner' = owner /\ uid' = uid /\ pinned' = pinned
  /\ \A b \in Admins \ {a} : stage'[b] = stage[b] /\ target'[b] = target[b]
  /\ \/ /\ stage[a] = "idle" /\ stage'[a] = "counted"
        /\ target'[a] \in Requests /\ uid[target'[a]] # NoUid /\ status[target'[a]] # "none"
        /\ status' = status /\ binding' = binding
     \/ /\ stage[a] # "idle" /\ target'[a] = target[a]
        /\ status' = status /\ binding' = binding
        /\ \/ /\ stage[a] = "counted" /\ stage'[a] = "row"
              /\ HoldsRow(target[a]) = {} /\ status[target[a]] = "pending"
           \/ stage[a] = "row" /\ stage'[a] = "user"
           \/ /\ stage[a] = "user" /\ stage'[a] = "value"
              /\ HoldsValue(uid[target[a]]) = {}
           \/ /\ stage[a] = "value" /\ stage'[a] = "owner"
              /\ OwnersOf(uid[target[a]]) \subseteq {owner[target[a]]}
     \/ /\ stage[a] # "idle" /\ stage'[a] = "idle"
        /\ \/ status' = status /\ binding' = binding
           \/ /\ stage[a] = "value" /\ binding' = binding
              /\ status' = [status EXCEPT ![target[a]] = "conflict"]
           \/ /\ stage[a] = "owner" /\ owner[target[a]] \notin pinned
              /\ binding' = [binding EXCEPT ![owner[target[a]]] = uid[target[a]]]
              /\ status' = [status EXCEPT ![target[a]] = "approved"]

LEMMA ApprovalSteps ==
  ASSUME TypeOK, NEW a \in Admins, Approve(a)
  PROVE  ApprovalStep(a) /\ UNCHANGED <<deals, conf, due, vouched>>
  <1> USE TypeParts DEF ApprovalTypes, ApprovalStep, requestVars
  <1>1. CASE \E r \in Requests : CountConfirmations(a, r)
    BY <1>1 DEF CountConfirmations
  <1>2. CASE LockRequest(a)
    BY <1>2 DEF LockRequest, Goto, End
  <1>3. CASE LockUser(a) \/ LockValue(a)
    BY <1>3 DEF LockUser, LockValue, Goto
  <1>4. CASE ReadOwner(a)
    BY <1>4 DEF ReadOwner, Goto, End, SetStatus
  <1>5. CASE Bind(a)
    BY <1>5 DEF Bind, End, SetStatus
  <1>6. CASE Rollback(a)
    BY <1>6 DEF Rollback, End
  <1> QED
    BY <1>1, <1>2, <1>3, <1>4, <1>5, <1>6 DEF Approve

\* What the three kinds of processes do, and that nothing else happens.
LEMMA StepKinds ==
  ASSUME [PrivacyNext]_allVars
  PROVE  \/ /\ Applicant \/ ExpireDue \/ (\E r \in Requests : TtlPasses(r) \/ SendToRevision(r))
            /\ UNCHANGED privacyVars
         \/ (\E a \in Admins : Approve(a)) /\ UNCHANGED privacyVars
         \/ Erasure
         \/ UNCHANGED allVars
  BY DEF PrivacyNext, Next

\* The row of a request and the lock of its UID have one holder, and a held request
\* is pending until its holder decides.
THEOREM LocksHold == PrivacySpec => []LockInv
  <1>1. PrivacyInit /\ PrivacyTypeOK => LockInv
    BY DEF PrivacyInit, Init, LockInv, Held, Owned, Seen, Unresolved, InTransaction, Owners
  <1>2. LockInv /\ PrivacyTypeOK' /\ [PrivacyNext]_allVars => LockInv'
    <2> SUFFICES ASSUME LockInv, PrivacyTypeOK', [PrivacyNext]_allVars
                 PROVE  Held' /\ Owned' /\ Seen'
      BY DEF LockInv
    <2> TypeOK /\ ApprovalTypes /\ RequestTypes /\ (erasing # NoErasure => erasing \in Erasures)
      BY TypeParts DEF LockInv, PrivacyTypeOK
    <2>1. ASSUME Applicant \/ ExpireDue \/ (\E r \in Requests : TtlPasses(r) \/ SendToRevision(r)),
                 UNCHANGED privacyVars
          PROVE  Held' /\ Owned' /\ Seen'
      <3>1. \A r \in Requests : HoldsRow(r) # {} =>
               status'[r] = status[r] /\ owner'[r] = owner[r] /\ uid'[r] = uid[r]
        BY <2>1, RequestStep DEF LockInv, Held, HoldsRow
      <3>2. \A r \in Requests :
               /\ status[r] # "none" => status'[r] # "none"
               /\ status[r] # "none" /\ uid[r] # NoUid => uid'[r] = uid[r]
        BY <2>1, RequestStep
      <3>3. UNCHANGED approvalVars
        BY <2>1, RequestStep
      <3>4. Held'
        BY <3>1, <3>2, <3>3 DEF LockInv, Held, HoldsRow, approvalVars, ApprovalTypes, InTransaction
      <3>5. Owned'
        BY <2>1, RequestStep, PeopleAssumption
        DEF LockInv, Owned, Owners, Unresolved, PeopleAssumption
      <3>6. Seen'
        BY <2>1, RequestStep DEF LockInv, Seen, privacyVars, Erasures
      <3> QED
        BY <3>4, <3>5, <3>6
    <2>2. ASSUME NEW a \in Admins, Approve(a), UNCHANGED privacyVars
          PROVE  Held' /\ Owned' /\ Seen'
      <3>1. ApprovalStep(a)
        BY <2>2, ApprovalSteps
      <3>2. \A b \in Admins : b # a /\ stage[b] \in InTransaction =>
               status'[target[b]] = status[target[b]]
        BY <3>1 DEF LockInv, Held, ApprovalStep, RequestTypes, ApprovalTypes, InTransaction
      <3>3. \A r \in Requests : status[r] # "none" => status'[r] # "none"
        BY <3>1 DEF ApprovalStep, RequestTypes
      <3>4. Held'
        BY <3>1, <3>2, <3>3
        DEF LockInv, Held, ApprovalStep, HoldsRow, HoldsValue, InTransaction, ApprovalTypes
      <3>5. Owned'
        BY <3>1 DEF LockInv, Held, Owned, ApprovalStep, RequestTypes, ApprovalTypes, InTransaction,
                    Unresolved
      <3>6. Seen'
        BY <2>2, <3>1 DEF LockInv, Held, Seen, ApprovalStep, RequestTypes, ApprovalTypes,
                          InTransaction, privacyVars, Erasures
      <3> QED
        BY <3>4, <3>5, <3>6
    <2>3. ASSUME NEW u \in Users, Erased(u)
          PROVE  Held' /\ Owned' /\ Seen'
      <3>1. \A r \in RequestsOf(u) : status[r] \in {"approved", "expired"}
        BY <2>3, ErasedAreDecided
      <3>2. Held'
        BY <2>3 DEF LockInv, Held, Erased, MoveToSurrogate, approvalVars
      <3>3. Owned'
        BY <2>3, <3>1, SurrogateAssumption, PeopleAssumption
        DEF LockInv, Owned, Erased, MoveToSurrogate, RequestsOf, SurrogateAssumption,
            PeopleAssumption, Owners, Unresolved, RequestTypes
      <3> QED
        BY <2>3, <3>2, <3>3 DEF Seen, Erased
    <2>4. ASSUME UNCHANGED <<requestVars, binding, approvalVars>>,
                 \/ UNCHANGED erasing
                 \/ erasing' = NoErasure
                 \/ erasing # NoErasure /\ erasing' = [erasing EXCEPT !.locked = TRUE]
                 \/ \E u \in Users, o \in Operators : StartErasure(o, u)
          PROVE  Held' /\ Owned' /\ Seen'
      <3>1. Held' /\ Owned'
        BY <2>4 DEF LockInv, Held, Owned, requestVars, approvalVars
      <3>2. ASSUME NEW u \in Users, NEW o \in Operators, StartErasure(o, u)
            PROVE  Seen'
        <4>1. \A row \in Rows(u).requests :
                 row[2] \in {"approved", "expired"} /\ status[row[1]] = row[2]
          BY <3>2, PeopleAssumption
          DEF StartErasure, Rows, RequestsOf, Blocked, LockInv, Owned, Unresolved, RequestTypes,
              Statuses, PeopleAssumption
        <4> QED
          BY <2>4, <3>2, <4>1 DEF StartErasure, Seen, requestVars
      <3>3. ASSUME ~ \E u \in Users, o \in Operators : StartErasure(o, u)
            PROVE  Seen'
        <4>1. erasing' # NoErasure => erasing # NoErasure /\ erasing'.rows = erasing.rows
          BY <2>4, <3>3 DEF Erasures
        <4> QED
          BY <2>4, <4>1 DEF LockInv, Seen, requestVars
      <3> QED
        BY <3>1, <3>2, <3>3
    <2>5. CASE UNCHANGED allVars
      BY <2>5, <2>4 DEF allVars, vars, privacyVars
    <2> QED
      BY <2>1, <2>2, <2>3, <2>4, <2>5, StepKinds, ErasureStep DEF LockInv
  <1> QED
    BY <1>1, <1>2, PrivacyTypes, PTL DEF PrivacySpec

\* Two administrators, an applicant and the watch loop act on a request at once, but only
\* one of them decides it.
THEOREM OneDecision == PrivacySpec => DecidedOnce
  <1>1. LockInv /\ [PrivacyNext]_allVars =>
          [\A r \in Requests :
             status[r] \in {"approved", "conflict", "expired"} => status'[r] = status[r]]_vars
    <2> SUFFICES ASSUME LockInv, [PrivacyNext]_allVars, NEW r \in Requests,
                        status[r] \in {"approved", "conflict", "expired"}
                 PROVE  status'[r] = status[r]
      OBVIOUS
    <2> TypeOK /\ ApprovalTypes /\ RequestTypes
      BY TypeParts DEF LockInv, PrivacyTypeOK
    <2>1. CASE Applicant \/ ExpireDue \/ (\E q \in Requests : TtlPasses(q) \/ SendToRevision(q))
      BY <2>1, RequestStep
    <2>2. ASSUME NEW a \in Admins, Approve(a)
          PROVE  status'[r] = status[r]
      <3>1. ApprovalStep(a)
        BY <2>2, ApprovalSteps
      <3> QED
        BY <3>1 DEF ApprovalStep, LockInv, Held, RequestTypes, InTransaction, ApprovalTypes
    <2>3. CASE Erasure
      BY <2>3, ErasureStep DEF LockInv, Erased, MoveToSurrogate, requestVars
    <2> QED
      BY <2>1, <2>2, <2>3, StepKinds DEF allVars, vars, requestVars
  <1> QED
    BY <1>1, LocksHold, PTL DEF PrivacySpec, DecidedOnce

\* No undecided request belongs to a surrogate, and no approval under way is about a
\* request of one.
THEOREM NothingLeftUndecided == PrivacySpec => []ErasedIsSettled
  <1>1. LockInv => ErasedIsSettled
    BY PeopleAssumption, SurrogateAssumption, TypeParts
    DEF LockInv, Held, Owned, ErasedIsSettled, Blocked, RequestsOf, Unresolved, PeopleAssumption,
        SurrogateAssumption, PrivacyTypeOK, ApprovalTypes, InTransaction
  <1> QED
    BY <1>1, LocksHold, PTL

-------------------------------------------------------------------------------
(* The check of the owner and the write *)

\* A row of user_uids is locked by the erasure under way only.
Pinned ==
  pinned # {} => erasing # NoErasure /\ erasing.locked /\ pinned = {erasing.user}

CheckInv == CheckedOwnerStands /\ Pinned

LEMMA ChecksKept ==
  ASSUME LockInv, LockInv', CheckInv, [PrivacyNext]_allVars
  PROVE  CheckInv'
  <1> TypeOK /\ ApprovalTypes /\ RequestTypes /\ (erasing # NoErasure => erasing \in Erasures)
    BY TypeParts DEF LockInv, PrivacyTypeOK
  <1> DEFINE held == {a \in Admins : stage[a] = "owner"}
  <1>1. CASE /\ Applicant \/ ExpireDue \/ (\E r \in Requests : TtlPasses(r) \/ SendToRevision(r))
             /\ UNCHANGED privacyVars
    <2>1. \A a \in held : owner'[target[a]] = owner[target[a]] /\ uid'[target[a]] = uid[target[a]]
      BY <1>1, RequestStep DEF LockInv, Held, HoldsRow, InTransaction, ApprovalTypes
    <2> QED
      BY <1>1, <2>1, RequestStep
      DEF CheckInv, CheckedOwnerStands, Pinned, OwnersOf, approvalVars, privacyVars
  <1>2. ASSUME NEW a \in Admins, Approve(a), UNCHANGED privacyVars
        PROVE  CheckInv'
    <2>1. ApprovalStep(a)
      BY <1>2, ApprovalSteps
    <2>2. ASSUME NEW b \in Admins, stage'[b] = "owner"
          PROVE  (OwnersOf(uid[target[b]]) \subseteq {owner[target[b]]})'
      <3>1. CASE b = a
        BY <2>1, <2>2, <3>1 DEF ApprovalStep, OwnersOf
      <3>2. CASE b # a
        <4>1. stage[b] = "owner" /\ target'[b] = target[b]
          BY <2>1, <2>2, <3>2 DEF ApprovalStep
        <4>2. OwnersOf(uid[target[b]]) \subseteq {owner[target[b]]}
          BY <4>1 DEF CheckInv, CheckedOwnerStands
        <4>3. \A o \in Owners : binding'[o] = uid[target[b]] => binding[o] = uid[target[b]]
          BY <2>1, <3>2, <4>1 DEF ApprovalStep, LockInv, Held, PrivacyTypeOK, TypeOK
        <4>4. uid' = uid /\ owner' = owner
          BY <2>1 DEF ApprovalStep
        <4> QED
          BY <4>1, <4>2, <4>3, <4>4 DEF OwnersOf
      <3> QED
        BY <3>1, <3>2
    <2>3. CheckedOwnerStands'
      BY <2>2 DEF CheckedOwnerStands
    <2> QED
      BY <1>2, <2>1, <2>3 DEF CheckInv, Pinned, ApprovalStep, privacyVars
  <1>3. ASSUME NEW u \in Users, Erased(u)
        PROVE  CheckInv'
    <2>1. ASSUME NEW a \in held
          PROVE  owner[target[a]] # u /\ binding[u] # uid[target[a]]
      <3>1. owner[target[a]] # u
        BY <1>3, <2>1 DEF Erased, HoldsRow, RequestsOf, InTransaction, ApprovalTypes
      <3> QED
        BY <2>1, <3>1 DEF CheckInv, CheckedOwnerStands, OwnersOf, Owners
    <2>2. Surrogate[u] # u /\ Surrogate[u] \in Owners
      BY SurrogateAssumption, PeopleAssumption DEF SurrogateAssumption, PeopleAssumption, Owners
    <2>3. ASSUME NEW a \in held, NEW o \in Owners, binding'[o] = uid[target[a]]
          PROVE  binding[o] = uid[target[a]]
      BY <1>3, <2>1, <2>2, <2>3
      DEF Erased, MoveToSurrogate, LockInv, Held, InTransaction, PrivacyTypeOK, TypeOK
    <2>4. UNCHANGED <<stage, target, uid>>
      BY <1>3 DEF Erased, MoveToSurrogate, approvalVars
    <2>5. \A a \in held : target[a] \in Requests /\ owner'[target[a]] = owner[target[a]]
      BY <1>3, <2>1 DEF Erased, MoveToSurrogate, ApprovalTypes, RequestTypes
    <2>6. CheckedOwnerStands'
      BY <2>3, <2>4, <2>5 DEF CheckInv, CheckedOwnerStands, OwnersOf
    <2> QED
      BY <1>3, <2>6 DEF CheckInv, Pinned, Erased
  <1>4. CASE Erasure /\ ~ \E u \in Users : Erased(u)
    <2>1. UNCHANGED <<requestVars, binding, approvalVars>>
      BY <1>4, ErasureStep DEF LockInv
    <2>2. CheckedOwnerStands'
      BY <2>1 DEF CheckInv, CheckedOwnerStands, OwnersOf, requestVars, approvalVars
    <2>3. Pinned'
      <3>1. ASSUME Abandon
            PROVE  Pinned'
        BY <3>1 DEF Abandon, Pinned
      <3>2. CASE LockBinding /\ ~Abandon
        <4>1. /\ erasing' = [erasing EXCEPT !.locked = TRUE] /\ erasing \in Erasures
              /\ pinned' \in {{}, {erasing.user}}
          BY <3>2 DEF LockBinding
        <4>2. erasing' \in Erasures /\ erasing'.locked /\ erasing'.user = erasing.user
          BY <4>1 DEF Erasures
        <4> QED
          BY <4>1, <4>2, SurrogateAssumption DEF Pinned, SurrogateAssumption
      <3>3. CASE KillErasure \/ Redact
        BY <1>4, <3>1, <3>3, RedactCases DEF KillErasure, LockInv
      <3>4. CASE \E u \in Users, o \in Operators :
                    RequestErasure(u) \/ CancelErasure(u) \/ ApproveErasure(o, u) \/ StartErasure(o, u)
        BY <3>4 DEF RequestErasure, CancelErasure, ApproveErasure, StartErasure, vars, CheckInv, Pinned
      <3>5. CASE \E u \in Users : RequestErasure(u) \/ CancelErasure(u)
        BY <3>5 DEF RequestErasure, CancelErasure, vars, CheckInv, Pinned
      <3> QED
        BY <1>4, <3>1, <3>2, <3>3, <3>4, <3>5 DEF Erasure
    <2> QED
      BY <2>2, <2>3 DEF CheckInv
  <1>5. CASE UNCHANGED allVars
    BY <1>5 DEF allVars, vars, requestVars, approvalVars, privacyVars, CheckInv,
                CheckedOwnerStands, Pinned, OwnersOf
  <1> QED
    BY <1>1, <1>2, <1>3, <1>4, <1>5, StepKinds

THEOREM ChecksHold == PrivacySpec => []CheckInv
  <1>1. PrivacyInit => CheckInv
    BY DEF PrivacyInit, Init, CheckInv, CheckedOwnerStands, Pinned
  <1> QED
    BY <1>1, ChecksKept, LocksHold, PTL DEF PrivacySpec

\* The answer "nobody else has this UID" is still true when the approval writes.
THEOREM NoUidTakenTwice == PrivacySpec => []CheckedOwnerStands
  BY ChecksHold, PTL DEF CheckInv

-------------------------------------------------------------------------------
(* Approvals and what they rest on *)

\* A request that has its confirmations has had them, and so has one that is approved.
Evidence ==
  /\ \A r \in Requests : Confirmed(r) >= MIN_REQUIRED => r \in vouched
  /\ \A a \in Admins : stage[a] # "idle" => target[a] \in vouched
  /\ ApprovedOnEvidence

LEMMA CountIsNat ==
  ASSUME NEW r \in Requests
  PROVE  Confirmed(r) \in Nat
  <1> DEFINE S == {c \in Counterparties : conf[r][c] = "confirmed"}
  <1>1. IsFiniteSet(S)
    BY PeopleAssumption, FS_Subset DEF PeopleAssumption
  <1> QED
    BY <1>1, FS_CardinalityType DEF Confirmed

\* Nobody is counted twice, so with fewer confirmed answers the count does not grow.
LEMMA FewerConfirmed ==
  ASSUME NEW r \in Requests,
         \A c \in Counterparties : conf'[r][c] = "confirmed" => conf[r][c] = "confirmed",
         (Confirmed(r) >= MIN_REQUIRED)'
  PROVE  Confirmed(r) >= MIN_REQUIRED
  <1> DEFINE S == {c \in Counterparties : conf[r][c] = "confirmed"}
             T == {c \in Counterparties : conf'[r][c] = "confirmed"}
  <1>1. IsFiniteSet(S) /\ T \subseteq S
    BY PeopleAssumption, FS_Subset DEF PeopleAssumption
  <1>2. Cardinality(T) =< Cardinality(S) /\ Cardinality(S) \in Nat /\ Cardinality(T) \in Nat
    BY <1>1, FS_Subset, FS_CardinalityType
  <1> QED
    BY <1>2, BoundsAssumption DEF Confirmed, BoundsAssumption

\* The answers, and with them the history, change in two ways only.
LEMMA AnswersStep ==
  ASSUME LockInv, [PrivacyNext]_allVars
  PROVE  /\ vouched \subseteq vouched'
         /\ \A r \in Requests :
               \/ r \in vouched'
               \/ \A c \in Counterparties : conf'[r][c] = "confirmed" => conf[r][c] = "confirmed"
               \/ ~ (Confirmed(r) >= MIN_REQUIRED)'
  <1> TypeOK /\ RequestTypes
    BY TypeParts DEF LockInv, PrivacyTypeOK
  <1>1. CASE Applicant
    <2>1. ASSUME NEW r \in Requests, NEW c \in Counterparties, NEW v \in Confirmations,
                 SetConfirmation(r, c, v)
          PROVE  /\ vouched \subseteq vouched'
                 /\ \A q \in Requests :
                       \/ q \in vouched'
                       \/ \A d \in Counterparties : conf'[q][d] = "confirmed" => conf[q][d] = "confirmed"
                       \/ ~ (Confirmed(q) >= MIN_REQUIRED)'
      BY <2>1 DEF SetConfirmation, RequestTypes
    <2>2. CASE \E r \in Requests, u \in Users, n \in Uids, D \in SUBSET Counterparties :
                  CreateRequest(r, u, n, D)
      BY <2>2 DEF CreateRequest
    <2>3. CASE \E r \in Requests, c \in Counterparties :
                  AskCounterparty(r, c) \/ \E v \in Answers : Answer(r, c, v)
      BY <2>1, <2>3 DEF AskCounterparty, Answer, Answers, Confirmations
    <2>4. CASE \E r \in Requests, old \in Counterparties, new \in Counterparties \cup {NoUser} :
                  FixUsername(r, old, new)
      BY <2>4 DEF FixUsername, RequestTypes
    <2>5. CASE \E r \in Requests, n \in Uids : RestoreUid(r, n)
      BY <2>5 DEF RestoreUid
    <2>6. CASE \E r \in Requests : Resubmit(r)
      BY <2>6 DEF Resubmit, SetStatus
    <2> QED
      BY <1>1, <2>2, <2>3, <2>4, <2>5, <2>6 DEF Applicant
  <1>2. CASE ExpireDue \/ \E r \in Requests : TtlPasses(r) \/ SendToRevision(r)
    BY <1>2 DEF ExpireDue, TtlPasses, SendToRevision, SetStatus
  <1>3. CASE \E a \in Admins : Approve(a)
    BY <1>3, ApprovalSteps
  <1>4. CASE Erasure
    BY <1>4, ErasureStep DEF LockInv, Erased, MoveToSurrogate, requestVars
  <1>5. CASE UNCHANGED allVars
    BY <1>5 DEF allVars, vars, requestVars
  <1> QED
    BY <1>1, <1>2, <1>3, <1>4, <1>5, StepKinds

\* An approved request had its confirmations, however the applicant replaces his
\* counterparties and however late the administrator answers.
THEOREM EvidenceHolds == PrivacySpec => []ApprovedOnEvidence
  <1>1. PrivacyInit => Evidence
    <2> SUFFICES ASSUME PrivacyInit PROVE Evidence
      OBVIOUS
    <2>1. ASSUME NEW r \in Requests
          PROVE  Confirmed(r) = 0
      <3>1. {c \in Counterparties : conf[r][c] = "confirmed"} = {}
        BY DEF PrivacyInit, Init
      <3> QED
        BY <3>1, FS_EmptySet DEF Confirmed
    <2> QED
      BY <2>1, BoundsAssumption
      DEF PrivacyInit, Init, Evidence, ApprovedOnEvidence, BoundsAssumption
  <1>2. LockInv /\ Evidence /\ [PrivacyNext]_allVars => Evidence'
    <2> SUFFICES ASSUME LockInv, Evidence, [PrivacyNext]_allVars PROVE Evidence'
      OBVIOUS
    <2> TypeOK /\ ApprovalTypes /\ RequestTypes
      BY TypeParts DEF LockInv, PrivacyTypeOK
    <2>1. vouched \subseteq vouched'
      BY AnswersStep
    <2>2. \A r \in Requests : (Confirmed(r) >= MIN_REQUIRED)' => r \in vouched'
      BY <2>1, AnswersStep, FewerConfirmed DEF Evidence
    <2>3. \A a \in Admins : stage'[a] # "idle" => target'[a] \in vouched'
      <3>1. CASE \E a \in Admins : Approve(a)
        <4>1. PICK a \in Admins : Approve(a)
          BY <3>1
        <4>2. CASE \E r \in Requests : CountConfirmations(a, r)
          BY <2>1, <4>2 DEF CountConfirmations, Evidence, ApprovalTypes
        <4>3. CASE ~ \E r \in Requests : CountConfirmations(a, r)
          <5>1. stage[a] # "idle"
            BY <4>1, <4>3 DEF Approve, LockRequest, LockUser, LockValue, ReadOwner, Bind, Rollback
          <5> QED
            BY <2>1, <4>1, <5>1, ApprovalSteps DEF ApprovalStep, Evidence
        <4> QED
          BY <4>2, <4>3
      <3>2. CASE ~ \E a \in Admins : Approve(a)
        <4>1. UNCHANGED approvalVars
          BY <3>2, StepKinds, RequestStep, ErasureStep DEF Erased, LockInv, allVars, vars
        <4> QED
          BY <2>1, <4>1 DEF approvalVars, Evidence
      <3> QED
        BY <3>1, <3>2
    <2>4. ASSUME NEW r \in Requests, status'[r] = "approved", status[r] # "approved"
          PROVE  r \in vouched'
      <3>1. CASE Applicant \/ ExpireDue \/ (\E q \in Requests : TtlPasses(q) \/ SendToRevision(q))
        BY <2>4, <3>1, RequestStep
      <3>2. ASSUME NEW a \in Admins, Approve(a)
            PROVE  r \in vouched'
        BY <2>1, <2>4, <3>2, ApprovalSteps DEF ApprovalStep, Evidence, RequestTypes, ApprovalTypes
      <3>3. CASE Erasure
        BY <2>4, <3>3, ErasureStep DEF LockInv, Erased, MoveToSurrogate, requestVars
      <3> QED
        BY <2>4, <3>1, <3>2, <3>3, StepKinds DEF allVars, vars, requestVars
    <2> QED
      BY <2>1, <2>2, <2>3, <2>4 DEF Evidence, ApprovedOnEvidence
  <1>3. Evidence => ApprovedOnEvidence
    BY DEF Evidence
  <1> QED
    BY <1>1, <1>2, <1>3, LocksHold, PTL DEF PrivacySpec

\* Whoever holds a UID owns an approved request for it.
THEOREM BindingsAreApproved == PrivacySpec => []BoundByApproval
  <1>1. PrivacyInit => BoundByApproval
    BY DEF PrivacyInit, Init, BoundByApproval
  <1>2. LockInv /\ BoundByApproval /\ [PrivacyNext]_allVars => BoundByApproval'
    <2> SUFFICES ASSUME LockInv, BoundByApproval, [PrivacyNext]_allVars,
                        NEW o \in Owners, binding'[o] # NoUid
                 PROVE  \E r \in Requests :
                           status'[r] = "approved" /\ owner'[r] = o /\ uid'[r] = binding'[o]
      BY DEF BoundByApproval
    <2> TypeOK /\ ApprovalTypes /\ RequestTypes /\ BindingTypes
      BY TypeParts DEF LockInv, PrivacyTypeOK
    <2>1. CASE Applicant \/ ExpireDue \/ (\E q \in Requests : TtlPasses(q) \/ SendToRevision(q))
      <3>1. \A r \in Requests : status[r] = "approved" =>
               status'[r] = "approved" /\ owner'[r] = owner[r] /\ uid'[r] = uid[r]
        BY <2>1, RequestStep
      <3> QED
        BY <2>1, <3>1, RequestStep DEF BoundByApproval
    <2>2. ASSUME NEW a \in Admins, Approve(a)
          PROVE  \E r \in Requests :
                    status'[r] = "approved" /\ owner'[r] = o /\ uid'[r] = binding'[o]
      <3>1. ApprovalStep(a)
        BY <2>2, ApprovalSteps
      <3>2. CASE binding'[o] = binding[o]
        <4>1. PICK r \in Requests : status[r] = "approved" /\ owner[r] = o /\ uid[r] = binding[o]
          BY <3>2 DEF BoundByApproval
        <4>2. status'[r] = "approved"
          BY <3>1, <4>1 DEF ApprovalStep, LockInv, Held, RequestTypes, InTransaction, ApprovalTypes
        <4> QED
          BY <3>1, <3>2, <4>1, <4>2 DEF ApprovalStep
      <3>3. CASE binding'[o] # binding[o]
        BY <3>1, <3>3 DEF ApprovalStep, RequestTypes, ApprovalTypes, BindingTypes
      <3> QED
        BY <3>2, <3>3
    <2>3. ASSUME NEW u \in Users, Erased(u)
          PROVE  \E r \in Requests :
                    status'[r] = "approved" /\ owner'[r] = o /\ uid'[r] = binding'[o]
      <3>1. /\ Surrogate[u] \in Owners /\ Surrogate[u] # u /\ u \in Owners
            /\ status' = status /\ uid' = uid
            /\ binding' = [binding EXCEPT ![Surrogate[u]] = binding[u], ![u] = NoUid]
            /\ owner' = [r \in Requests |-> IF owner[r] = u THEN Surrogate[u] ELSE owner[r]]
        BY <2>3, SurrogateAssumption, PeopleAssumption
        DEF Erased, MoveToSurrogate, SurrogateAssumption, PeopleAssumption, Owners
      <3>2. CASE o = Surrogate[u]
        <4>1. binding'[o] = binding[u]
          BY <3>1, <3>2 DEF BindingTypes
        <4> QED
          BY <3>1, <3>2, <4>1 DEF BoundByApproval
      <3>3. CASE o # Surrogate[u]
        <4>1. o # u /\ binding'[o] = binding[o]
          BY <3>1, <3>3 DEF BindingTypes
        <4> QED
          BY <3>1, <4>1 DEF BoundByApproval
      <3> QED
        BY <3>2, <3>3
    <2>4. CASE UNCHANGED <<requestVars, binding>>
      BY <2>4 DEF BoundByApproval, requestVars
    <2> QED
      BY <2>1, <2>2, <2>3, <2>4, StepKinds, ErasureStep DEF allVars, vars, LockInv
  <1> QED
    BY <1>1, <1>2, LocksHold, PTL DEF PrivacySpec

-------------------------------------------------------------------------------
(* What an erasure commits, and what it waits for *)

\* The snapshot of the erasure under way is the plan that was approved.
Reviewed ==
  erasing # NoErasure =>
     /\ preq[erasing.user] = "approved"
     /\ approvedPlan[erasing.user].blocked = FALSE
     /\ approvedPlan[erasing.user].requests = {row[1] : row \in erasing.rows.requests}
     /\ approvedPlan[erasing.user].bound = (erasing.rows.uid # NoUid)

\* The rows of an account determine its plan, apart from the holds.
LEMMA PlanOfRows ==
  ASSUME NEW u \in Users
  PROVE  Plan(u) = [blocked |-> Blocked(u),
                    requests |-> {row[1] : row \in Rows(u).requests},
                    bound |-> Rows(u).uid # NoUid]
  <1>1. {row[1] : row \in Rows(u).requests} = RequestsOf(u)
    <2> DEFINE R == {<<r, status[r], conf[r]>> : r \in RequestsOf(u)}
    <2>1. Rows(u).requests = R
      BY DEF Rows
    <2>2. \A row \in R : row[1] \in RequestsOf(u)
      OBVIOUS
    <2>3. \A r \in RequestsOf(u) : \E row \in R : row[1] = r
      <3>1. \A r \in RequestsOf(u) :
               <<r, status[r], conf[r]>> \in R /\ <<r, status[r], conf[r]>>[1] = r
        OBVIOUS
      <3> QED
        BY <3>1
    <2> HIDE DEF R
    <2>4. {row[1] : row \in R} = RequestsOf(u)
      BY <2>2, <2>3
    <2> QED
      BY <2>1, <2>4
  <1> QED
    BY <1>1 DEF Plan, Rows

THEOREM ReviewsHold == PrivacySpec => []Reviewed
  <1>1. PrivacyInit => Reviewed
    BY DEF PrivacyInit, Reviewed
  <1>2. LockInv /\ Reviewed /\ [PrivacyNext]_allVars => Reviewed'
    <2> SUFFICES ASSUME LockInv, Reviewed, [PrivacyNext]_allVars PROVE Reviewed'
      OBVIOUS
    <2> /\ erasing # NoErasure => erasing \in Erasures
        /\ preq \in [Users -> {"none", "pending_review", "approved", "completed", "cancelled"}]
        /\ approvedPlan \in [Users -> Plans]
      BY DEF LockInv, PrivacyTypeOK
    <2>1. CASE UNCHANGED privacyVars
      BY <2>1 DEF Reviewed, privacyVars
    <2>2. ASSUME NEW u \in Users, RequestErasure(u) \/ CancelErasure(u)
          PROVE  Reviewed'
      BY <2>2 DEF RequestErasure, CancelErasure, Reviewed, Erasures
    <2>3. ASSUME NEW u \in Users, NEW o \in Operators, ApproveErasure(o, u)
          PROVE  Reviewed'
      BY <2>3 DEF ApproveErasure, Reviewed, Erasures
    <2>4. ASSUME NEW u \in Users, NEW o \in Operators, StartErasure(o, u)
          PROVE  Reviewed'
      BY <2>4, PlanOfRows DEF StartErasure, Reviewed
    <2>5. CASE erasing' = NoErasure
      BY <2>5 DEF Reviewed
    <2>6. CASE LockBinding /\ erasing' # NoErasure
      BY <2>6 DEF LockBinding, Abandon, Reviewed, Erasures
    <2>7. Redact \/ KillErasure => erasing' = NoErasure
      BY DEF Redact, KillErasure, Abandon
    <2> QED
      BY <2>1, <2>2, <2>3, <2>4, <2>5, <2>6, <2>7 DEF PrivacyNext, Erasure, allVars
  <1> QED
    BY <1>1, <1>2, LocksHold, PTL DEF PrivacySpec

\* An erasure erases what was reviewed: the account has the plan that was approved when
\* its rows move, and no verification of it waits for a decision.
THEOREM NothingElseErased == PrivacySpec => ErasedAsReviewed
  <1>1. LockInv /\ Reviewed /\ [PrivacyNext]_allVars =>
          [\A u \in Users :
             preq'[u] = "completed" /\ preq[u] # "completed"
                => Plan(u) = approvedPlan[u] /\ ~Blocked(u)]_allVars
    <2> SUFFICES ASSUME LockInv, Reviewed, [PrivacyNext]_allVars, NEW u \in Users,
                        preq'[u] = "completed", preq[u] # "completed"
                 PROVE  Plan(u) = approvedPlan[u] /\ ~Blocked(u)
      OBVIOUS
    <2> /\ preq \in [Users -> {"none", "pending_review", "approved", "completed", "cancelled"}]
        /\ approvedPlan \in [Users -> Plans]
      BY DEF LockInv, PrivacyTypeOK
    <2>1. Erased(u)
      <3>1. CASE UNCHANGED privacyVars
        BY <3>1 DEF privacyVars
      <3>2. CASE \E v \in Users, o \in Operators :
                    ApproveErasure(o, v) \/ StartErasure(o, v)
        BY <3>2 DEF ApproveErasure, StartErasure
      <3>3. CASE \E v \in Users : RequestErasure(v) \/ CancelErasure(v)
        BY <3>3 DEF RequestErasure, CancelErasure
      <3>4. CASE LockBinding \/ KillErasure
        BY <3>4 DEF LockBinding, KillErasure, Abandon
      <3>5. CASE Redact
        BY <3>5, RedactCases DEF Abandon, Erased, LockInv
      <3> QED
        BY <3>1, <3>2, <3>3, <3>4, <3>5 DEF PrivacyNext, Erasure, allVars
    <2>2. ~Blocked(u)
      BY <2>1, ErasedAreDecided DEF Blocked, Unresolved
    <2>3. approvedPlan[u] = Plan(u)
      <3>1. /\ approvedPlan[u].blocked = FALSE
            /\ approvedPlan[u].requests = {row[1] : row \in Rows(u).requests}
            /\ approvedPlan[u].bound = (Rows(u).uid # NoUid)
        BY <2>1 DEF Reviewed, Erased
      <3>2. approvedPlan[u] = [blocked |-> approvedPlan[u].blocked,
                               requests |-> approvedPlan[u].requests,
                               bound |-> approvedPlan[u].bound]
        BY DEF Plans
      <3>3. Blocked(u) = FALSE
        BY <2>2 DEF Blocked
      <3> QED
        BY <3>1, <3>2, <3>3, PlanOfRows, Zenon
    <2> QED
      BY <2>2, <2>3
  <1> QED
    BY <1>1, LocksHold, ReviewsHold, PTL DEF PrivacySpec, ErasedAsReviewed

\* The erasure waits for the row of a request its snapshot did not see, if for any.
LEMMA HeldIsUnseen ==
  ASSUME LockInv, erasing # NoErasure, NEW a \in Admins, stage[a] \in InTransaction,
         owner[target[a]] = erasing.user
  PROVE  SnapshotOutdated
  <1>1. target[a] \in RequestsOf(erasing.user) /\ status[target[a]] = "pending"
    BY DEF LockInv, Held, PrivacyTypeOK, TypeOK, RequestsOf, InTransaction
  <1>2. \A row \in erasing.rows.requests : row[1] # target[a]
    BY <1>1 DEF LockInv, Seen
  <1> QED
    BY <1>1, <1>2 DEF SnapshotOutdated

\* The erasure goes on, once it has its lock, or waits for a request it did not see.
LEMMA LockedErasure ==
  ASSUME LockInv, erasing # NoErasure, erasing.locked
  PROVE  ErasureProceeds \/ SnapshotOutdated
  <1>1. CASE \A r \in RequestsOf(erasing.user) : HoldsRow(r) = {}
    BY <1>1 DEF ErasureProceeds
  <1>2. CASE \E r \in RequestsOf(erasing.user) : HoldsRow(r) # {}
    BY <1>2, HeldIsUnseen DEF HoldsRow, RequestsOf
  <1> QED
    BY <1>1, <1>2

\* Whoever has the last of the locks goes on, or an erasure does that he waits for.
LEMMA HolderProceeds ==
  ASSUME LockInv, CheckInv, NEW a \in Admins, stage[a] \in {"value", "owner"}
  PROVE  Proceeds(a) \/ (erasing # NoErasure /\ (ErasureProceeds \/ SnapshotOutdated))
  <1>1. CASE pinned = {}
    BY <1>1 DEF Proceeds
  <1>2. CASE pinned # {}
    BY <1>2, LockedErasure DEF CheckInv, Pinned
  <1> QED
    BY <1>1, <1>2

\* Approvals and an erasure never wait for each other in a circle, except over a request
\* that came after the snapshot of the erasure.
THEOREM NobodyWaitsForever == PrivacySpec => []NoCircularWait
  <1>1. LockInv /\ CheckInv => NoCircularWait
    <2> SUFFICES ASSUME LockInv, CheckInv,
                        erasing # NoErasure \/ \E a \in Admins : stage[a] \in InTransaction
                 PROVE  \/ \E a \in Admins : stage[a] \in InTransaction /\ Proceeds(a)
                        \/ erasing # NoErasure /\ (ErasureProceeds \/ SnapshotOutdated)
      BY DEF NoCircularWait
    <2>1. CASE \E a \in Admins : stage[a] \in {"value", "owner"}
      BY <2>1, HolderProceeds DEF InTransaction
    <2>2. CASE ~ \E a \in Admins : stage[a] \in {"value", "owner"}
      <3>1. CASE \E a \in Admins : stage[a] = "user"
        BY <2>2, <3>1 DEF Proceeds, HoldsValue, InTransaction
      <3>2. CASE ~ (\E a \in Admins : stage[a] = "user") /\ \E a \in Admins : stage[a] = "row"
        BY <2>2, <3>2 DEF Proceeds, HoldsUser, InTransaction
      <3>3. CASE ~ \E a \in Admins : stage[a] \in InTransaction
        <4>1. /\ HoldsBinding(erasing.user) = {}
              /\ \A r \in RequestsOf(erasing.user) : HoldsRow(r) = {}
          BY <3>3 DEF HoldsBinding, HoldsRow, InTransaction
        <4> QED
          BY <3>3, <4>1 DEF ErasureProceeds
      <3> QED
        BY <2>2, <3>1, <3>2, <3>3 DEF InTransaction
    <2> QED
      BY <2>1, <2>2
  <1> QED
    BY <1>1, LocksHold, ChecksHold, PTL
===============================================================================
