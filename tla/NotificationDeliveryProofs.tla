--------------------- MODULE NotificationDeliveryProofs ---------------------
(* Theorems about NotificationDelivery, for any jobs, users, devices, rules and
   number of attempts, revocations and webhook calls. *)
EXTENDS NotificationDelivery, TLAPS

-----------------------------------------------------------------------------
(* Types of the registrations. *)

\* Only devices are listed.
LEMMA ListedAreDevices ==
    ASSUME PushTypeOK, NEW user PROVE listActivePushRegistrations(user) \in SUBSET Devices
<1> SUFFICES ASSUME NEW d \in listActivePushRegistrations(user) PROVE d \in Devices
  OBVIOUS
<1>1. PICK i \in DOMAIN pushLog : d = pushLog[i].token /\ d # Nobody
  BY DEF listActivePushRegistrations
<1>2. pushLog[i] \in Rows
  BY DEF PushTypeOK
<1> QED
  BY <1>1, <1>2 DEF Rows

DeviceState == [user : Users \cup {Nobody}, effect : Nat, status : {"none", "ready"}]
Call == [device : Devices, user : Users, effect : Nat, state : {"sent", "accepted", "lost"}]

\* PushTypeOK by its sets.
LEMMA PushTypeParts ==
    PushTypeOK <=> /\ pushLog \in Seq(Rows)
                   /\ device \in [Devices -> DeviceState]
                   /\ requests \subseteq Call
BY DEF PushTypeOK, DeviceState, Call

\* No registration yet.
LEMMA PushInitType == PushInit => PushTypeOK
<1> SUFFICES ASSUME PushInit PROVE PushTypeOK
  OBVIOUS
<1>1. pushLog \in Seq(Rows) /\ requests \subseteq Call
  BY DEF PushInit
<1>2. device \in [Devices -> DeviceState]
  BY DEF PushInit, DeviceState
<1> QED
  BY <1>1, <1>2, PushTypeParts

\* The log, the devices and the calls keep their types.
LEMMA PushStepType ==
    ASSUME PushTypeOK, PushNext PROVE PushTypeOK'
<1>0. /\ pushLog \in Seq(Rows)
      /\ device \in [Devices -> DeviceState]
      /\ requests \subseteq Call
  BY PushTypeParts
<1>a. ASSUME NEW row \in Rows PROVE Append(pushLog, row) \in Seq(Rows)
  BY <1>0
<1>1. ASSUME NEW d \in Devices, NEW user \in Users \cup {Nobody}, UseAddress(d, user)
      PROVE  PushTypeOK'
  <2> DEFINE next == [user |-> user, effect |-> device[d].effect + 1,
                      status |-> IF user = Nobody THEN "none" ELSE device[d].status]
             call == [device |-> d, user |-> user, state |-> "sent",
                      effect |-> device[d].effect + 1]
  <2>0. device[d].effect \in Nat /\ device[d].status \in {"none", "ready"}
    BY <1>0 DEF DeviceState
  <2>1. next \in DeviceState
    BY <2>0 DEF DeviceState
  <2>2. device' = [device EXCEPT ![d] = next] /\ UNCHANGED pushLog
    BY <1>1 DEF UseAddress
  <2>3. user # Nobody => call \in Call
    BY <2>0 DEF Call
  <2>4. requests' = IF user = Nobody THEN requests ELSE requests \cup {call}
    BY <1>1 DEF UseAddress
  <2> HIDE DEF next, call
  <2>5. device' \in [Devices -> DeviceState]
    BY <1>0, <2>1, <2>2
  <2>6. requests' \subseteq Call
    BY <1>0, <2>3, <2>4
  <2> QED
    BY <1>0, <2>2, <2>5, <2>6 DEF PushTypeOK, DeviceState, Call
<1>2. ASSUME NEW r \in requests, registerPushToken(r) PROVE PushTypeOK'
  <2> DEFINE row == [user |-> r.user, platform |-> PlatformOf[r.device], token |-> r.device]
             after == [r EXCEPT !.state = "accepted"]
  <2>0. r \in Call
    BY <1>0
  <2>1. row \in Rows
    BY <2>0 DEF Rows, Platforms, Call
  <2>2. after \in Call
    BY <2>0 DEF Call
  <2>3. pushLog' = Append(pushLog, row) /\ requests' = (requests \ {r}) \cup {after}
        /\ UNCHANGED device
    BY <1>2 DEF registerPushToken
  <2> HIDE DEF row, after
  <2>4. pushLog' \in Seq(Rows)
    BY <1>a, <2>1, <2>3
  <2>5. requests' \subseteq Call
    BY <1>0, <2>2, <2>3
  <2> QED
    BY <1>0, <2>3, <2>4, <2>5 DEF PushTypeOK, DeviceState, Call
<1>3. ASSUME NEW r \in requests, RequestLost(r) PROVE PushTypeOK'
  <2> DEFINE after == [r EXCEPT !.state = "lost"]
  <2>1. after \in Call
    BY <1>0 DEF Call
  <2>2. requests' = (requests \ {r}) \cup {after} /\ UNCHANGED <<device, pushLog>>
    BY <1>3 DEF RequestLost
  <2> HIDE DEF after
  <2>3. requests' \subseteq Call
    BY <1>0, <2>1, <2>2
  <2> QED
    BY <1>0, <2>2, <2>3 DEF PushTypeOK, DeviceState, Call
<1>4. ASSUME NEW r \in requests, Answered(r) PROVE PushTypeOK'
  <2> DEFINE status == IF r.effect # device[r.device].effect THEN device[r.device].status
                       ELSE IF r.state = "accepted" THEN "ready" ELSE "none"
  <2>1. r.device \in Devices
    BY <1>0 DEF Call
  <2>2. device[r.device] \in DeviceState
    BY <1>0, <2>1
  <2>3. status \in {"none", "ready"}
    BY <2>2 DEF DeviceState
  <2>4. device' = [device EXCEPT ![r.device].status = status]
    BY <1>4 DEF Answered
  <2> HIDE DEF status
  <2>5. [device[r.device] EXCEPT !.status = status] \in DeviceState
    BY <2>2, <2>3 DEF DeviceState
  <2>6. device' \in [Devices -> DeviceState]
    BY <1>0, <2>1, <2>4, <2>5
  <2>7. requests' \subseteq Call /\ UNCHANGED pushLog
    BY <1>0, <1>4 DEF Answered
  <2> QED
    BY <1>0, <2>6, <2>7 DEF PushTypeOK, DeviceState, Call
<1>5. ASSUME NEW user \in Users, NEW platform \in Platforms, Revoke(user, platform)
      PROVE  PushTypeOK'
  <2> DEFINE row == [user |-> user, platform |-> platform, token |-> Nobody]
  <2>1. row \in Rows
    BY DEF Rows
  <2>2. pushLog' = Append(pushLog, row) /\ UNCHANGED <<device, requests>>
    BY <1>5 DEF Revoke
  <2> HIDE DEF row
  <2>3. pushLog' \in Seq(Rows)
    BY <1>a, <2>1, <2>2
  <2> QED
    BY <1>0, <2>2, <2>3 DEF PushTypeOK, DeviceState, Call
<1> QED
  BY <1>1, <1>2, <1>3, <1>4, <1>5 DEF PushNext

-----------------------------------------------------------------------------
(* Types of the delivery. *)

\* A step of the delivery that leaves the registrations alone.
LEMMA PushUnchanged ==
    ASSUME PushTypeOK, UNCHANGED pushVars PROVE PushTypeOK'
BY DEF PushTypeOK, pushVars

\* The delivery's part of TypeOK.
DeliveryTypeOK ==
    /\ job \in [Jobs -> {"pending", "failed", "done"}]
    /\ tx \in [Jobs -> OpenTx \cup {NoTx}]
    /\ begun \in 0 .. MaxAttempts
    /\ notifications \subseteq Notification
    /\ mails \subseteq MailIds
    /\ pushes \subseteq [job : Jobs, attempt : 1 .. MaxAttempts, token : Devices]
    /\ webhookRows \in Seq([notification : MailIds \cup {NoMail}, emailId : MailIds])

\* The two parts of TypeOK.
LEMMA TypeParts == TypeOK <=> PushTypeOK /\ DeliveryTypeOK
BY DEF TypeOK, DeliveryTypeOK

\* An open transaction is a full record.
LEMMA OpenIsTx ==
    ASSUME TypeOK, NEW j \in Jobs, tx[j] # NoTx
    PROVE  tx[j] \in OpenTx
BY DEF TypeOK

\* A step names what is open.
LEMMA StepIsOpen ==
    ASSUME NEW j \in Jobs, tx[j].step \in {"email", "push", "commit"}
    PROVE  tx[j] # NoTx
BY DEF NoTx

\* Nothing done yet.
LEMMA InitType == Init => TypeOK
<1> SUFFICES ASSUME Init PROVE TypeOK
  OBVIOUS
<1>1. PushTypeOK
  BY PushInitType DEF Init
<1>2. job \in [Jobs -> {"pending", "failed", "done"}] /\ tx \in [Jobs -> OpenTx \cup {NoTx}]
  BY DEF Init
<1>3. begun \in 0 .. MaxAttempts
  BY DeliveryAssumption DEF Init
<1>4. /\ notifications \subseteq Notification /\ mails \subseteq MailIds
      /\ pushes \subseteq [job : Jobs, attempt : 1 .. MaxAttempts, token : Devices]
      /\ webhookRows \in Seq([notification : MailIds \cup {NoMail}, emailId : MailIds])
  BY DEF Init
<1> QED
  BY <1>1, <1>2, <1>3, <1>4 DEF TypeOK

\* BEGIN.
LEMMA BeginType ==
    ASSUME TypeOK, NEW j \in Jobs, NEW rule \in Rules, Begin(j, rule)
    PROVE  DeliveryTypeOK'
<1> DEFINE new == [step |-> "email", attempt |-> begun', rule |-> rule, email |-> "open",
                   push |-> "open", providerId |-> NoMail, tokens |-> {}, since |-> Len(pushLog)]
<1>1. /\ DeliveryTypeOK
      /\ pushLog \in Seq(Rows)
  BY TypeParts, PushTypeParts
<1>2. begun' \in 1 .. MaxAttempts /\ begun' \in 0 .. MaxAttempts
  <2>1. /\ begun \in 0 .. MaxAttempts /\ MaxAttempts \in Nat
        /\ begun < MaxAttempts /\ begun' = begun + 1
    BY <1>1, DeliveryAssumption DEF Begin, DeliveryTypeOK
  <2> QED
    BY <2>1
<1>3. new \in OpenTx
  <2>1. Len(pushLog) \in Nat
    BY <1>1
  <2> QED
    BY <1>2, <2>1 DEF OpenTx
<1>4. tx' = [tx EXCEPT ![j] = new]
  BY DEF Begin
<1> HIDE DEF new
<1>5. tx' \in [Jobs -> OpenTx \cup {NoTx}]
  BY <1>1, <1>3, <1>4 DEF DeliveryTypeOK
<1>6. UNCHANGED <<job, notifications, mails, pushes, webhookRows>>
  BY DEF Begin
<1> QED
  BY <1>1, <1>2, <1>5, <1>6 DEF DeliveryTypeOK

\* ROLLBACK.
LEMMA RolledBackType ==
    ASSUME TypeOK, NEW j \in Jobs, RolledBack(j)
    PROVE  /\ job' \in [Jobs -> {"pending", "failed", "done"}]
           /\ tx' \in [Jobs -> OpenTx \cup {NoTx}]
BY DEF TypeOK, RolledBack

\* A transaction whose e-mail call has returned.
ListedTokens(j) == IF PushEnabled(j) THEN listActivePushRegistrations(UserOf[j]) ELSE {}
AfterEmail(j, outcome, id) ==
    [tx[j] EXCEPT !.step = "push", !.email = outcome, !.providerId = id,
                  !.tokens = ListedTokens(j)]

\* The e-mail's outcome in an open transaction.
LEMMA EmailDoneType ==
    ASSUME TypeOK, NEW j \in Jobs, tx[j].step = "email", NEW outcome \in Outcomes,
           NEW id \in MailIds \cup {NoMail}, EmailDone(j, outcome, id)
    PROVE  /\ job' \in [Jobs -> {"pending", "failed", "done"}]
           /\ tx' \in [Jobs -> OpenTx \cup {NoTx}]
           /\ tx'[j] = AfterEmail(j, outcome, id)
           /\ \A k \in Jobs \ {j} : tx'[k] = tx[k]
<1>1. tx[j] \in OpenTx
  BY StepIsOpen, OpenIsTx
<1>2. ListedTokens(j) \in SUBSET Devices
  BY ListedAreDevices DEF TypeOK, ListedTokens
<1>3. tx' = [tx EXCEPT ![j] = AfterEmail(j, outcome, id)]
  BY <1>1 DEF EmailDone, TypeOK, AfterEmail, ListedTokens
<1>4. AfterEmail(j, outcome, id) \in OpenTx
  BY <1>1, <1>2 DEF OpenTx, AfterEmail
<1>5. UNCHANGED job
  BY DEF EmailDone
<1> QED
  BY <1>3, <1>4, <1>5 DEF TypeOK

\* What the e-mail call may store of mails it sent or not.
Tells(outcome, sent, unsent) ==
    /\ outcome = "delivered" => sent
    /\ outcome = "skipped" => unsent

\* The e-mail call: it ends the transaction or stores an outcome, of which only
\* "failed" does not tell whether the mail left.
LEMMA EmailOutcome ==
    ASSUME TypeOK, NEW j \in Jobs, sendEmailViaResend(j)
    PROVE  /\ tx[j] \in OpenTx /\ tx[j].step = "email"
           /\ mails \in SUBSET MailIds /\ <<j, Attempt(j)>> \in MailIds
           /\ UNCHANGED <<begun, notifications, pushes, webhookRows, pushVars>>
           /\ mails' = mails \/ (SendsEmail(j) /\ mails' = mails \cup {<<j, Attempt(j)>>})
           /\ \/ RolledBack(j)
              \/ \E outcome \in Outcomes, id \in {NoMail, <<j, Attempt(j)>>} :
                     /\ EmailDone(j, outcome, id)
                     /\ Tells(outcome, mails' = mails \cup {<<j, Attempt(j)>>}, mails' = mails)
<1>1. tx[j] \in OpenTx /\ tx[j].step = "email"
  BY StepIsOpen, OpenIsTx DEF sendEmailViaResend
<1>2. mails \in SUBSET MailIds /\ <<j, Attempt(j)>> \in MailIds
  BY <1>1 DEF TypeOK, MailIds, Attempt, OpenTx
<1> DEFINE own == <<j, Attempt(j)>>
           Sent == mails' = mails \cup {own}
           Unsent == mails' = mails
<1>3. \/ EmailDone(j, "skipped", NoMail) /\ Unsent
      \/ /\ SendsEmail(j) /\ Sent
         /\ \E id \in {NoMail, own} : EmailDone(j, "delivered", id)
      \/ /\ SendsEmail(j) /\ (Sent \/ Unsent)
         /\ EmailDone(j, "failed", NoMail) \/ RolledBack(j)
  BY DEF sendEmailViaResend
<1>4. UNCHANGED <<begun, notifications, pushes, webhookRows, pushVars>>
  BY DEF sendEmailViaResend
<1>5. {"skipped", "failed", "delivered"} \subseteq Outcomes
  BY DEF Outcomes
<1>6. \/ RolledBack(j)
      \/ \E outcome \in Outcomes, id \in {NoMail, own} :
             EmailDone(j, outcome, id) /\ Tells(outcome, Sent, Unsent)
  <2> HIDE DEF own, Sent, Unsent
  <2>1. CASE RolledBack(j)
    BY <2>1
  <2>2. CASE EmailDone(j, "skipped", NoMail) /\ Unsent
    <3>1. Tells("skipped", Sent, Unsent)
      BY <2>2 DEF Tells
    <3> QED
      BY <1>5, <2>2, <3>1
  <2>3. CASE Sent /\ \E id \in {NoMail, own} : EmailDone(j, "delivered", id)
    <3>1. Tells("delivered", Sent, Unsent)
      BY <2>3 DEF Tells
    <3> QED
      BY <1>5, <2>3, <3>1
  <2>4. CASE EmailDone(j, "failed", NoMail)
    <3>1. Tells("failed", Sent, Unsent)
      BY DEF Tells
    <3> QED
      BY <1>5, <2>4, <3>1
  <2> QED
    BY <1>3, <2>1, <2>2, <2>3, <2>4
<1>7. Unsent \/ (SendsEmail(j) /\ Sent)
  BY <1>3
<1> QED
  BY <1>1, <1>2, <1>4, <1>6, <1>7

\* The e-mail call keeps the types.
LEMMA EmailType ==
    ASSUME TypeOK, NEW j \in Jobs, sendEmailViaResend(j)
    PROVE  DeliveryTypeOK'
<1>1. job' \in [Jobs -> {"pending", "failed", "done"}] /\ tx' \in [Jobs -> OpenTx \cup {NoTx}]
  BY EmailOutcome, RolledBackType, EmailDoneType
<1>2. mails' \subseteq MailIds
  BY EmailOutcome
<1>3. UNCHANGED <<begun, notifications, pushes, webhookRows>>
  BY EmailOutcome
<1> QED
  BY <1>1, <1>2, <1>3 DEF TypeOK, DeliveryTypeOK

\* The push call: what was sent, and what is stored of it.
LEMMA PushOutcome ==
    ASSUME TypeOK, NEW j \in Jobs, sendPushNotifications(j)
    PROVE  /\ tx[j] \in OpenTx /\ tx[j].step = "push"
           /\ UNCHANGED <<job, begun, notifications, mails, webhookRows, pushVars>>
           /\ \E accepted \in SUBSET tx[j].tokens, outcome \in Outcomes :
                  /\ pushes' = pushes \cup
                         {[job |-> j, attempt |-> Attempt(j), token |-> d] : d \in accepted}
                  /\ outcome = "delivered" => accepted # {}
                  /\ outcome = "skipped" => accepted = {}
                  /\ tx' = [tx EXCEPT ![j].step = "commit", ![j].push = outcome,
                                      ![j].tokens = {}]
<1>1. tx[j] \in OpenTx /\ tx[j].step = "push"
  BY StepIsOpen, OpenIsTx DEF sendPushNotifications
<1>3. {"skipped", "failed", "delivered"} \subseteq Outcomes
  BY DEF Outcomes
<1>4. UNCHANGED <<job, begun, notifications, mails, webhookRows, pushVars>>
  BY DEF sendPushNotifications
<1> DEFINE Done(outcome) == tx' = [tx EXCEPT ![j].step = "commit", ![j].push = outcome,
                                             ![j].tokens = {}]
           Sent(accepted) == pushes' = pushes \cup
                {[job |-> j, attempt |-> Attempt(j), token |-> d] : d \in accepted}
<1>5. \/ Done("skipped") /\ pushes' = pushes
      \/ Done("failed") /\ pushes' = pushes
      \/ \E accepted \in SUBSET tx[j].tokens, outcome \in {"failed", "delivered"} :
             Sent(accepted) /\ (outcome = "delivered" => accepted # {}) /\ Done(outcome)
  BY DEF sendPushNotifications
<1>6. \E accepted \in SUBSET tx[j].tokens, outcome \in Outcomes :
          /\ Sent(accepted) /\ Done(outcome)
          /\ outcome = "delivered" => accepted # {}
          /\ outcome = "skipped" => accepted = {}
  <2>0. {} \in SUBSET tx[j].tokens /\ (pushes' = pushes => Sent({}))
    OBVIOUS
  <2> HIDE DEF Done, Sent
  <2> QED
    BY <1>3, <1>5, <2>0
<1> QED
  BY <1>1, <1>4, <1>6

\* The push call keeps the types.
LEMMA PushSentType ==
    ASSUME TypeOK, NEW j \in Jobs, sendPushNotifications(j)
    PROVE  DeliveryTypeOK'
<1> PICK accepted \in SUBSET tx[j].tokens, outcome \in Outcomes :
        /\ pushes' = pushes \cup
               {[job |-> j, attempt |-> Attempt(j), token |-> d] : d \in accepted}
        /\ tx' = [tx EXCEPT ![j].step = "commit", ![j].push = outcome, ![j].tokens = {}]
  BY PushOutcome
<1>1. tx[j] \in OpenTx
  BY PushOutcome
<1>2. tx[j].tokens \in SUBSET Devices /\ Attempt(j) \in 1 .. MaxAttempts
  BY <1>1 DEF OpenTx, Attempt
<1>3. pushes' \subseteq [job : Jobs, attempt : 1 .. MaxAttempts, token : Devices]
  BY <1>2 DEF TypeOK
<1>4. [tx[j] EXCEPT !.step = "commit", !.push = outcome, !.tokens = {}] \in OpenTx
  BY <1>1 DEF OpenTx
<1>5. tx' = [tx EXCEPT ![j] = [tx[j] EXCEPT !.step = "commit", !.push = outcome, !.tokens = {}]]
  BY DEF TypeOK
<1>6. tx' \in [Jobs -> OpenTx \cup {NoTx}]
  BY <1>4, <1>5 DEF TypeOK
<1>7. UNCHANGED <<job, begun, notifications, mails, webhookRows>>
  BY PushOutcome
<1> QED
  BY <1>3, <1>6, <1>7 DEF TypeOK, DeliveryTypeOK

\* The outcomes stored in a transaction: those not there yet are not committed.
StoredOutcomes ==
    \A j \in Jobs :
        /\ tx[j].step \in {"push", "commit"} => tx[j].email \in Outcomes
        /\ tx[j].step = "commit" => tx[j].push \in Outcomes

\* The row that COMMIT makes visible.
Row(j) == [job |-> j, attempt |-> Attempt(j), email |-> tx[j].email, push |-> tx[j].push,
           providerId |-> tx[j].providerId, rule |-> tx[j].rule]

\* COMMIT keeps the types, once both outcomes are there.
LEMMA CommitType ==
    ASSUME TypeOK, StoredOutcomes, NEW j \in Jobs, Commit(j)
    PROVE  DeliveryTypeOK' /\ Row(j) \in Notification
<1>1. tx[j] \in OpenTx /\ tx[j].step = "commit"
  BY StepIsOpen, OpenIsTx DEF Commit
<1>2. tx[j].email \in Outcomes /\ tx[j].push \in Outcomes
  BY <1>1 DEF StoredOutcomes
<1>3. Row(j) \in Notification
  BY <1>1, <1>2 DEF Row, Notification, OpenTx, Attempt
<1>4. notifications' = notifications \cup {Row(j)}
  BY DEF Commit, Row
<1>5. tx' \in [Jobs -> OpenTx \cup {NoTx}] /\ job' \in [Jobs -> {"pending", "failed", "done"}]
  BY DEF Commit, TypeOK
<1>6. UNCHANGED <<begun, mails, pushes, webhookRows>>
  BY DEF Commit
<1> QED
  BY <1>3, <1>4, <1>5, <1>6 DEF TypeOK, DeliveryTypeOK

\* A webhook keeps the types.
LEMMA WebhookType ==
    ASSUME TypeOK, NEW id \in mails, recordNotificationWebhookEvent(id)
    PROVE  DeliveryTypeOK'
<1>1. PICK n \in {<<m.job, m.attempt>> : m \in Matching(id)} \cup
                      IF Matching(id) = {} THEN {NoMail} ELSE {} :
           webhookRows' = Append(webhookRows, [notification |-> n, emailId |-> id])
  BY DEF recordNotificationWebhookEvent
<1>2. n \in MailIds \cup {NoMail}
  BY <1>1 DEF Matching, TypeOK, Notification, MailIds
<1>3. [notification |-> n, emailId |-> id]
          \in [notification : MailIds \cup {NoMail}, emailId : MailIds]
  BY <1>2 DEF TypeOK
<1>4. webhookRows' \in Seq([notification : MailIds \cup {NoMail}, emailId : MailIds])
  BY <1>1, <1>3 DEF TypeOK
<1>5. UNCHANGED <<job, tx, begun, notifications, mails, pushes>>
  BY DEF recordNotificationWebhookEvent
<1> QED
  BY <1>4, <1>5 DEF TypeOK, DeliveryTypeOK

-----------------------------------------------------------------------------
(* The inductive invariant. *)

\* The rule switches the channel off.
Off(rule, channel) == channel \in DOMAIN rule /\ ~rule[channel]

\* Attempts are numbered, a job with an open transaction is pending and one with a
\* notification is done: no attempt is used twice, no notification made twice.
Numbered ==
    /\ \A j \in Jobs : tx[j] # NoTx => job[j] = "pending" /\ tx[j].attempt <= begun
    /\ \A id \in mails : id[2] <= begun
    /\ \A p \in pushes : p.attempt <= begun
    /\ \A n \in notifications : n.attempt <= begun /\ job[n.job] = "done"
    /\ \A m, n \in notifications : m.job = n.job => m = n

\* What an open transaction stores is what it has sent.
TxIsTrue(j) ==
    LET sent == {p \in pushes : p.job = j /\ p.attempt = Attempt(j)}
        own == <<j, Attempt(j)>>
    IN  /\ tx[j].providerId \in {NoMail, own}
        /\ Off(tx[j].rule, "email") => own \notin mails
        /\ Off(tx[j].rule, "push") => tx[j].tokens = {} /\ sent = {}
        /\ tx[j].step = "email" => own \notin mails
        /\ tx[j].step \in {"push", "commit"} =>
               Tells(tx[j].email, own \in mails, own \notin mails)
        /\ tx[j].step \in {"email", "push"} => sent = {}
        /\ tx[j].step = "commit" => Tells(tx[j].push, sent # {}, sent = {})

\* And so is what a notification says.
RowIsTrue(n) ==
    LET sent == {p \in pushes : p.job = n.job /\ p.attempt = n.attempt}
        own == <<n.job, n.attempt>>
    IN  /\ n.providerId \in {NoMail, own}
        /\ Off(n.rule, "email") => own \notin mails
        /\ Off(n.rule, "push") => sent = {}
        /\ Tells(n.email, own \in mails, own \notin mails)
        /\ Tells(n.push, sent # {}, sent = {})

Truthful ==
    /\ \A j \in Jobs : tx[j] # NoTx => TxIsTrue(j)
    /\ \A n \in notifications : RowIsTrue(n)

WebhooksMatch ==
    \A i \in DOMAIN webhookRows : webhookRows[i].notification \in {NoMail, webhookRows[i].emailId}

IInv == TypeOK /\ StoredOutcomes /\ Numbered /\ Truthful /\ WebhooksMatch

\* No transaction, no row.
LEMMA InitInv == Init => IInv
<1> SUFFICES ASSUME Init PROVE IInv
  OBVIOUS
<1>1. TypeOK
  BY InitType
<1>2. \A j \in Jobs : tx[j] = NoTx
  BY DEF Init
<1>3. StoredOutcomes
  BY <1>2 DEF StoredOutcomes, NoTx
<1>4. Numbered /\ Truthful
  BY <1>2 DEF Init, Numbered, Truthful
<1>5. WebhooksMatch
  BY DEF Init, WebhooksMatch
<1> QED
  BY <1>1, <1>3, <1>4, <1>5 DEF IInv

-----------------------------------------------------------------------------
(* The steps of an open transaction. *)

\* What transaction j may touch while it is open: its own e-mail and pushes.
WithinTx(j) ==
    /\ mails \subseteq mails' /\ pushes \subseteq pushes'
    /\ \A id \in mails' : id \in mails \/ id = <<j, Attempt(j)>>
    /\ \A p \in pushes' : p \in pushes \/ (p.job = j /\ p.attempt = Attempt(j))
    /\ \A k \in Jobs \ {j} : tx'[k] = tx[k] /\ job'[k] = job[k]
    /\ UNCHANGED begun

\* The other transactions and the notifications of other jobs do not notice.
LEMMA OthersStayTrue ==
    ASSUME NEW j \in Jobs, WithinTx(j), Truthful
    PROVE  /\ \A k \in Jobs \ {j} : tx'[k] # NoTx => TxIsTrue(k)'
           /\ \A n \in notifications : n.job # j => RowIsTrue(n)'
<1>1. ASSUME NEW k \in Jobs \ {j}, tx'[k] # NoTx PROVE TxIsTrue(k)'
  <2>1. tx'[k] = tx[k] /\ TxIsTrue(k)
    BY <1>1 DEF WithinTx, Truthful
  <2>2. <<k, tx[k].attempt>> # <<j, Attempt(j)>>
    BY <1>1
  <2>3. (<<k, tx[k].attempt>> \in mails') = (<<k, tx[k].attempt>> \in mails)
    BY <2>2 DEF WithinTx
  <2>4. {p \in pushes' : p.job = k /\ p.attempt = tx[k].attempt}
            = {p \in pushes : p.job = k /\ p.attempt = tx[k].attempt}
    BY <1>1 DEF WithinTx
  <2> QED
    BY <2>1, <2>3, <2>4 DEF TxIsTrue, Attempt
<1>2. ASSUME NEW n \in notifications, n.job # j PROVE RowIsTrue(n)'
  <2>1. <<n.job, n.attempt>> # <<j, Attempt(j)>>
    BY <1>2
  <2>2. (<<n.job, n.attempt>> \in mails') = (<<n.job, n.attempt>> \in mails)
    BY <2>1 DEF WithinTx
  <2>3. {p \in pushes' : p.job = n.job /\ p.attempt = n.attempt}
            = {p \in pushes : p.job = n.job /\ p.attempt = n.attempt}
    BY <1>2 DEF WithinTx
  <2> QED
    BY <1>2, <2>2, <2>3 DEF Truthful, RowIsTrue
<1> QED
  BY <1>1, <1>2

\* A step inside transaction j that keeps it true, or ends it.
LEMMA TxStep ==
    ASSUME IInv, NEW j \in Jobs, tx[j] # NoTx, WithinTx(j), UNCHANGED notifications,
           \/ tx'[j] = NoTx
           \/ /\ TxIsTrue(j)' /\ UNCHANGED job /\ tx'[j].attempt = tx[j].attempt
              /\ tx'[j].step \in {"push", "commit"} => tx'[j].email \in Outcomes
              /\ tx'[j].step = "commit" => tx'[j].push \in Outcomes
    PROVE  StoredOutcomes' /\ Numbered' /\ Truthful'
<1>0. job[j] = "pending" /\ Attempt(j) <= begun
  BY DEF IInv, Numbered, Attempt
<1>1. \A n \in notifications : n.job # j
  BY <1>0 DEF IInv, Numbered
<1>2. Truthful'
  BY <1>1, OthersStayTrue DEF Truthful, IInv
<1>3. StoredOutcomes'
  BY DEF IInv, StoredOutcomes, WithinTx, NoTx
<1>4. Numbered'
  <2>1. \A k \in Jobs : tx'[k] # NoTx => job'[k] = "pending" /\ tx'[k].attempt <= begun'
    BY <1>0 DEF IInv, Numbered, WithinTx, Attempt
  <2>2. \A id \in mails' : id[2] <= begun'
    BY <1>0 DEF IInv, Numbered, WithinTx
  <2>3. \A p \in pushes' : p.attempt <= begun'
    BY <1>0 DEF IInv, Numbered, WithinTx
  <2>4. \A n \in notifications' : n.attempt <= begun' /\ job'[n.job] = "done"
    <3>1. \A n \in notifications : n.job \in Jobs
      BY DEF IInv, TypeOK, Notification
    <3> QED
      BY <1>1, <3>1 DEF IInv, Numbered, WithinTx
  <2>5. \A m, n \in notifications' : m.job = n.job => m = n
    BY DEF IInv, Numbered
  <2> QED
    BY <2>1, <2>2, <2>3, <2>4, <2>5 DEF Numbered
<1> QED
  BY <1>2, <1>3, <1>4

\* ROLLBACK, whatever left before.
LEMMA RollbackStep ==
    ASSUME IInv, NEW j \in Jobs, tx[j] # NoTx, RolledBack(j),
           mails' \in {mails, mails \cup {<<j, Attempt(j)>>}},
           UNCHANGED <<notifications, pushes, begun>>
    PROVE  StoredOutcomes' /\ Numbered' /\ Truthful'
<1>1. tx'[j] = NoTx /\ WithinTx(j)
  BY DEF RolledBack, WithinTx, IInv, TypeOK
<1> QED
  BY <1>1, TxStep

\* The rule off means that the channel is not used.
LEMMA OffIsOff ==
    ASSUME NEW rule, NEW type, NEW channel, Off(rule, channel)
    PROVE  ~resolveNotificationChannelPolicy(rule, type, channel)
BY DEF Off, resolveNotificationChannelPolicy

\* The e-mail.
LEMMA EmailStep ==
    ASSUME IInv, NEW j \in Jobs, sendEmailViaResend(j)
    PROVE  StoredOutcomes' /\ Numbered' /\ Truthful'
<1> DEFINE own == <<j, Attempt(j)>>
<1>0. /\ TypeOK /\ tx[j] \in OpenTx /\ tx[j].step = "email" /\ tx[j] # NoTx
      /\ mails' = mails \/ (SendsEmail(j) /\ mails' = mails \cup {own})
      /\ UNCHANGED <<begun, notifications, pushes>>
  BY EmailOutcome, StepIsOpen DEF IInv
<1>1. CASE RolledBack(j)
  BY <1>0, <1>1, RollbackStep
<1>2. ASSUME NEW outcome \in Outcomes, NEW id \in {NoMail, own}, EmailDone(j, outcome, id),
             Tells(outcome, mails' = mails \cup {own}, mails' = mails)
      PROVE  StoredOutcomes' /\ Numbered' /\ Truthful'
  <2>1. id \in MailIds \cup {NoMail}
    BY <1>0, EmailOutcome
  <2>2. /\ tx'[j] = AfterEmail(j, outcome, id)
        /\ \A k \in Jobs \ {j} : tx'[k] = tx[k]
    BY <1>0, <1>2, <2>1, EmailDoneType
  <2>3. Off(tx[j].rule, "push") => ListedTokens(j) = {}
    BY OffIsOff DEF PushEnabled, ListedTokens
  <2>4. Off(tx[j].rule, "email") => mails' = mails
    BY <1>0, OffIsOff DEF SendsEmail
  <2>5. TxIsTrue(j)
    BY <1>0 DEF IInv, Truthful
  <2>6. UNCHANGED job
    BY <1>2 DEF EmailDone
  <2>7. /\ tx'[j].step = "push" /\ tx'[j].email = outcome /\ tx'[j].providerId = id
        /\ tx'[j].tokens = ListedTokens(j)
        /\ tx'[j].rule = tx[j].rule /\ tx'[j].attempt = tx[j].attempt
    BY <1>0, <2>2 DEF OpenTx, AfterEmail
  <2>8. own \notin mails
    BY <1>0, <2>5 DEF TxIsTrue
  <2>9. TxIsTrue(j)'
    <3>1. Tells(outcome, own \in mails', own \notin mails')
      BY <1>2, <2>8 DEF Tells
    <3> QED
      BY <1>0, <2>3, <2>4, <2>5, <2>7, <3>1 DEF TxIsTrue, Attempt
  <2>10. WithinTx(j)
    BY <1>0, <2>2, <2>6 DEF WithinTx
  <2> QED
    BY <1>0, <2>6, <2>7, <2>9, <2>10, TxStep
<1> QED
  BY <1>0, <1>1, <1>2, EmailOutcome

\* The pushes.
LEMMA PushStep ==
    ASSUME IInv, NEW j \in Jobs, sendPushNotifications(j)
    PROVE  StoredOutcomes' /\ Numbered' /\ Truthful'
<1> DEFINE Push(d) == [job |-> j, attempt |-> Attempt(j), token |-> d]
<1> PICK accepted \in SUBSET tx[j].tokens, outcome \in Outcomes :
        /\ pushes' = pushes \cup {Push(d) : d \in accepted}
        /\ outcome = "delivered" => accepted # {}
        /\ outcome = "skipped" => accepted = {}
        /\ tx' = [tx EXCEPT ![j].step = "commit", ![j].push = outcome, ![j].tokens = {}]
  BY PushOutcome DEF IInv
<1>0. /\ TypeOK /\ tx[j] \in OpenTx /\ tx[j].step = "push" /\ tx[j] # NoTx
      /\ UNCHANGED <<job, begun, notifications, mails>>
  BY PushOutcome, StepIsOpen DEF IInv
<1>1. TxIsTrue(j)
  BY <1>0 DEF IInv, Truthful
<1>2. /\ tx'[j].step = "commit" /\ tx'[j].push = outcome /\ tx'[j].tokens = {}
      /\ tx'[j].rule = tx[j].rule /\ tx'[j].attempt = tx[j].attempt
      /\ tx'[j].email = tx[j].email /\ tx'[j].providerId = tx[j].providerId
      /\ \A k \in Jobs \ {j} : tx'[k] = tx[k]
  BY <1>0 DEF TypeOK, OpenTx
<1>3. \A p \in pushes' : p \in pushes \/ (p.job = j /\ p.attempt = Attempt(j))
  OBVIOUS
<1>4. WithinTx(j)
  BY <1>0, <1>2, <1>3 DEF WithinTx
<1>5. {p \in pushes' : p.job = j /\ p.attempt = Attempt(j)} = {Push(d) : d \in accepted}
  <2>1. {p \in pushes : p.job = j /\ p.attempt = Attempt(j)} = {}
    BY <1>0, <1>1 DEF TxIsTrue
  <2> QED
    BY <2>1
<1>6. Off(tx[j].rule, "push") => {Push(d) : d \in accepted} = {}
  BY <1>1 DEF TxIsTrue
<1>7. Tells(outcome, {Push(d) : d \in accepted} # {}, {Push(d) : d \in accepted} = {})
  BY DEF Tells
<1> HIDE DEF Push
<1>8. TxIsTrue(j)'
  <2> DEFINE sent == {p \in pushes' : p.job = j /\ p.attempt = tx[j].attempt}
  <2>1. /\ Off(tx[j].rule, "push") => sent = {}
        /\ Tells(outcome, sent # {}, sent = {})
    BY <1>5, <1>6, <1>7 DEF Attempt
  <2>2. /\ tx[j].providerId \in {NoMail, <<j, tx[j].attempt>>}
        /\ Off(tx[j].rule, "email") => <<j, tx[j].attempt>> \notin mails
        /\ Tells(tx[j].email, <<j, tx[j].attempt>> \in mails, <<j, tx[j].attempt>> \notin mails)
    BY <1>0, <1>1 DEF TxIsTrue, Attempt
  <2>3. sent = {p \in pushes' : p.job = j /\ p.attempt = tx'[j].attempt}
    BY <1>2
  <2>4. /\ tx'[j].tokens = {} /\ tx'[j].step = "commit" /\ mails' = mails
        /\ tx'[j].push = outcome /\ tx'[j].email = tx[j].email
        /\ tx'[j].attempt = tx[j].attempt /\ tx'[j].rule = tx[j].rule
        /\ tx'[j].providerId = tx[j].providerId
    BY <1>0, <1>2
  <2> HIDE DEF sent
  <2> DEFINE own == <<j, tx[j].attempt>>
             ownNext == <<j, tx'[j].attempt>>
  <2>a. ownNext = own
    BY <2>4
  <2> HIDE DEF own, ownNext
  <2>5. /\ Tells(tx'[j].email, ownNext \in mails', ownNext \notin mails')
        /\ Off(tx'[j].rule, "email") => ownNext \notin mails'
        /\ tx'[j].providerId \in {NoMail, ownNext}
    <3>1. /\ tx[j].providerId \in {NoMail, own}
          /\ Off(tx[j].rule, "email") => own \notin mails
          /\ Tells(tx[j].email, own \in mails, own \notin mails)
      BY <2>2 DEF own
    <3> QED
      BY <2>4, <2>a, <3>1 DEF Tells
  <2>6. /\ Tells(tx'[j].push, sent # {}, sent = {})
        /\ Off(tx'[j].rule, "push") => sent = {}
    BY <2>1, <2>4, Zenon
  <2> QED
    BY <2>3, <2>4, <2>5, <2>6 DEF TxIsTrue, Attempt, ownNext
<1>9. tx'[j].email \in Outcomes
  BY <1>0, <1>2 DEF IInv, StoredOutcomes
<1> QED
  BY <1>0, <1>2, <1>4, <1>8, <1>9, TxStep

\* BEGIN, with a number nothing has yet.
LEMMA BeginStep ==
    ASSUME IInv, NEW j \in Jobs, NEW rule \in Rules, Begin(j, rule)
    PROVE  StoredOutcomes' /\ Numbered' /\ Truthful'
<1>0. /\ TypeOK /\ job[j] = "pending" /\ tx[j] = NoTx /\ begun' = begun + 1 /\ begun \in Nat
      /\ UNCHANGED <<job, notifications, mails, pushes>>
  BY DEF Begin, IInv, TypeOK
<1>1. /\ tx'[j].step = "email" /\ tx'[j].attempt = begun' /\ tx'[j].providerId = NoMail
      /\ tx'[j].tokens = {}
      /\ \A k \in Jobs \ {j} : tx'[k] = tx[k]
  BY <1>0 DEF Begin, TypeOK
<1>2. TxIsTrue(j)'
  <2>1. <<j, begun'>> \notin mails'
    BY <1>0 DEF IInv, Numbered, TypeOK, MailIds
  <2>2. {p \in pushes' : p.job = j /\ p.attempt = begun'} = {}
    BY <1>0 DEF IInv, Numbered, TypeOK
  <2> QED
    BY <1>1, <2>1, <2>2 DEF TxIsTrue, Attempt
<1>3. \A k \in Jobs \ {j} : tx'[k] # NoTx => TxIsTrue(k)'
  BY <1>0, <1>1 DEF IInv, Truthful, TxIsTrue, Attempt
<1>4. \A n \in notifications : RowIsTrue(n)'
  BY <1>0 DEF IInv, Truthful, RowIsTrue
<1>5. StoredOutcomes'
  BY <1>1 DEF IInv, StoredOutcomes
<1>6. Numbered'
  <2>1. \A k \in Jobs : tx'[k] # NoTx => job'[k] = "pending" /\ tx'[k].attempt <= begun'
    <3>1. ASSUME NEW k \in Jobs \ {j}, tx[k] # NoTx
          PROVE  job[k] = "pending" /\ tx[k].attempt <= begun /\ tx[k].attempt \in Nat
      BY <1>0, <3>1, OpenIsTx DEF IInv, Numbered, OpenTx
    <3> QED
      BY <1>0, <1>1, <3>1
  <2>2. \A id \in mails' : id[2] <= begun'
    BY <1>0 DEF IInv, Numbered, TypeOK, MailIds
  <2>3. \A p \in pushes' : p.attempt <= begun'
    BY <1>0 DEF IInv, Numbered, TypeOK
  <2>4. \A n \in notifications' : n.attempt <= begun' /\ job'[n.job] = "done"
    BY <1>0 DEF IInv, Numbered, TypeOK, Notification
  <2>5. \A m, n \in notifications' : m.job = n.job => m = n
    BY <1>0 DEF IInv, Numbered
  <2> QED
    BY <2>1, <2>2, <2>3, <2>4, <2>5 DEF Numbered
<1> QED
  BY <1>0, <1>2, <1>3, <1>4, <1>5, <1>6 DEF Truthful

\* COMMIT: the row says what the transaction knew.
LEMMA CommitStep ==
    ASSUME IInv, NEW j \in Jobs, Commit(j)
    PROVE  StoredOutcomes' /\ Numbered' /\ Truthful'
<1>0. /\ TypeOK /\ tx[j] \in OpenTx /\ tx[j].step = "commit" /\ tx[j] # NoTx
      /\ job[j] = "pending" /\ Attempt(j) <= begun
      /\ notifications' = notifications \cup {Row(j)}
      /\ UNCHANGED <<begun, mails, pushes>>
  BY StepIsOpen, OpenIsTx DEF Commit, Row, IInv, Numbered, Attempt
<1>1. tx'[j] = NoTx /\ job'[j] = "done"
  BY <1>0 DEF Commit, TypeOK
<1>2. WithinTx(j)
  BY <1>0 DEF Commit, WithinTx, TypeOK
<1>3. \A n \in notifications : n.job # j /\ n.job \in Jobs
  BY <1>0 DEF IInv, Numbered, TypeOK, Notification
<1>4. \A n : n = Row(j) => RowIsTrue(n)'
  <2>1. TxIsTrue(j)
    BY <1>0 DEF IInv, Truthful
  <2>2. /\ Row(j).job = j /\ Row(j).attempt = Attempt(j) /\ Row(j).email = tx[j].email
        /\ Row(j).push = tx[j].push /\ Row(j).providerId = tx[j].providerId
        /\ Row(j).rule = tx[j].rule
    BY DEF Row
  <2> QED
    BY <1>0, <2>1, <2>2 DEF TxIsTrue, RowIsTrue
<1>5. Truthful'
  <2>1. \A k \in Jobs : tx'[k] # NoTx => TxIsTrue(k)'
    BY <1>1, <1>2, OthersStayTrue DEF IInv
  <2>2. \A n \in notifications' : RowIsTrue(n)'
    BY <1>0, <1>2, <1>3, <1>4, OthersStayTrue DEF IInv
  <2> QED
    BY <2>1, <2>2 DEF Truthful
<1>6. StoredOutcomes'
  BY <1>1, <1>2 DEF IInv, StoredOutcomes, WithinTx, NoTx
<1>7. Numbered'
  <2>1. \A k \in Jobs : tx'[k] # NoTx => job'[k] = "pending" /\ tx'[k].attempt <= begun'
    BY <1>0, <1>1, <1>2 DEF IInv, Numbered, WithinTx
  <2>2. /\ \A id \in mails' : id[2] <= begun'
        /\ \A p \in pushes' : p.attempt <= begun'
    BY <1>0 DEF IInv, Numbered
  <2>3. \A n \in notifications' : n.attempt <= begun' /\ job'[n.job] = "done"
    BY <1>0, <1>1, <1>2, <1>3 DEF IInv, Numbered, WithinTx, Row
  <2>4. \A m, n \in notifications' : m.job = n.job => m = n
    BY <1>0, <1>3 DEF IInv, Numbered, Row
  <2> QED
    BY <2>1, <2>2, <2>3, <2>4 DEF Numbered
<1> QED
  BY <1>5, <1>6, <1>7

\* A step that touches no transaction, e-mail, push or notification.
LEMMA QuietStep ==
    ASSUME IInv, UNCHANGED <<job, tx, begun, notifications, mails, pushes>>
    PROVE  StoredOutcomes' /\ Numbered' /\ Truthful'
BY DEF IInv, StoredOutcomes, Numbered, Truthful, TxIsTrue, RowIsTrue, Attempt

\* A webhook is filed under the notification whose e-mail it names, or under none.
LEMMA WebhookStep ==
    ASSUME IInv, NEW id \in mails, recordNotificationWebhookEvent(id)
    PROVE  WebhooksMatch'
<1>1. PICK n \in {<<m.job, m.attempt>> : m \in Matching(id)} \cup
                      IF Matching(id) = {} THEN {NoMail} ELSE {} :
           webhookRows' = Append(webhookRows, [notification |-> n, emailId |-> id])
  BY DEF recordNotificationWebhookEvent
<1>2. n \in {NoMail, id}
  <2>1. ASSUME NEW m \in Matching(id) PROVE <<m.job, m.attempt>> = id
    <3>1. /\ m \in notifications /\ m.providerId = id
          /\ m.providerId \in {NoMail, <<m.job, m.attempt>>}
      BY DEF Matching, IInv, Truthful, RowIsTrue
    <3>2. id # NoMail
      <4>1. id \in Jobs \X (1 .. MaxAttempts)
        BY DEF IInv, TypeOK, MailIds
      <4>2. DOMAIN id = {1, 2}
        BY <4>1
      <4>3. DOMAIN NoMail = {}
        BY DEF NoMail
      <4> QED
        BY <4>2, <4>3
    <3> QED
      BY <3>1, <3>2
  <2> QED
    BY <1>1, <2>1
<1>3. webhookRows \in Seq([notification : MailIds \cup {NoMail}, emailId : MailIds])
  BY DEF IInv, TypeOK
<1>4. \A i \in DOMAIN webhookRows' :
          \/ i \in DOMAIN webhookRows /\ webhookRows'[i] = webhookRows[i]
          \/ webhookRows'[i] = [notification |-> n, emailId |-> id]
  BY <1>1, <1>3
<1> QED
  BY <1>2, <1>4 DEF IInv, WebhooksMatch

\* A crash or a failing statement.
LEMMA FailStep ==
    ASSUME IInv, NEW j \in Jobs, Fail(j)
    PROVE  StoredOutcomes' /\ Numbered' /\ Truthful' /\ DeliveryTypeOK'
<1>1. StoredOutcomes' /\ Numbered' /\ Truthful'
  BY RollbackStep DEF Fail
<1>2. job' \in [Jobs -> {"pending", "failed", "done"}] /\ tx' \in [Jobs -> OpenTx \cup {NoTx}]
  BY RolledBackType DEF Fail, IInv
<1>3. DeliveryTypeOK'
  BY <1>2 DEF Fail, IInv, TypeOK, DeliveryTypeOK
<1> QED
  BY <1>1, <1>3

\* Every step keeps the invariant.
LEMMA StepInv == IInv /\ [Next]_vars => IInv'
<1> SUFFICES ASSUME IInv, [Next]_vars PROVE IInv'
  OBVIOUS
<1>0. TypeOK /\ PushTypeOK /\ DeliveryTypeOK /\ StoredOutcomes
  BY TypeParts DEF IInv
<1>a. UNCHANGED webhookRows => WebhooksMatch'
  BY DEF IInv, WebhooksMatch
<1>1. CASE PushNext /\ UNCHANGED deliveryVars
  <2>1. PushTypeOK' /\ DeliveryTypeOK'
    BY <1>0, <1>1, PushStepType DEF DeliveryTypeOK, deliveryVars
  <2> QED
    BY <1>1, <1>a, <2>1, TypeParts, QuietStep DEF IInv, deliveryVars, TypeOK, DeliveryTypeOK
<1>2. ASSUME NEW j \in Jobs, NEW rule \in Rules, Begin(j, rule) PROVE IInv'
  <2>1. DeliveryTypeOK' /\ PushTypeOK'
    BY <1>0, <1>2, BeginType, PushUnchanged DEF Begin
  <2>2. UNCHANGED webhookRows
    BY <1>2 DEF Begin
  <2> QED
    BY <1>2, <1>a, <2>1, <2>2, BeginStep DEF IInv, TypeOK, DeliveryTypeOK
<1>3. ASSUME NEW j \in Jobs, sendEmailViaResend(j) PROVE IInv'
  <2>1. DeliveryTypeOK' /\ PushTypeOK' /\ UNCHANGED webhookRows
    BY <1>0, <1>3, EmailType, EmailOutcome, PushUnchanged
  <2> QED
    BY <1>3, <1>a, <2>1, EmailStep DEF IInv, TypeOK, DeliveryTypeOK
<1>4. ASSUME NEW j \in Jobs, sendPushNotifications(j) PROVE IInv'
  <2>1. DeliveryTypeOK' /\ PushTypeOK' /\ UNCHANGED webhookRows
    BY <1>0, <1>4, PushSentType, PushOutcome, PushUnchanged
  <2> QED
    BY <1>4, <1>a, <2>1, PushStep DEF IInv, TypeOK, DeliveryTypeOK
<1>5. ASSUME NEW j \in Jobs, Commit(j) PROVE IInv'
  <2>1. DeliveryTypeOK' /\ PushTypeOK'
    BY <1>0, <1>5, CommitType, PushUnchanged DEF Commit
  <2>2. UNCHANGED webhookRows
    BY <1>5 DEF Commit
  <2> QED
    BY <1>5, <1>a, <2>1, <2>2, CommitStep DEF IInv, TypeOK, DeliveryTypeOK
<1>6. ASSUME NEW j \in Jobs, Fail(j) PROVE IInv'
  <2>1. PushTypeOK' /\ UNCHANGED webhookRows
    BY <1>0, <1>6, PushUnchanged DEF Fail
  <2> QED
    BY <1>6, <1>a, <2>1, FailStep DEF IInv, TypeOK, DeliveryTypeOK
<1>7. ASSUME NEW id \in mails, recordNotificationWebhookEvent(id) PROVE IInv'
  <2>1. DeliveryTypeOK' /\ PushTypeOK'
    BY <1>0, <1>7, WebhookType, PushUnchanged DEF recordNotificationWebhookEvent
  <2>2. UNCHANGED <<job, tx, begun, notifications, mails, pushes>>
    BY <1>7 DEF recordNotificationWebhookEvent
  <2> QED
    BY <1>7, <2>1, <2>2, QuietStep, WebhookStep DEF IInv, TypeOK, DeliveryTypeOK
<1>8. CASE UNCHANGED vars
  <2>1. PushTypeOK' /\ DeliveryTypeOK'
    BY <1>0, <1>8, PushUnchanged DEF DeliveryTypeOK, vars, deliveryVars
  <2> QED
    BY <1>8, <1>a, <2>1, QuietStep DEF IInv, vars, deliveryVars, TypeOK, DeliveryTypeOK
<1> QED
  BY <1>1, <1>2, <1>3, <1>4, <1>5, <1>6, <1>7, <1>8 DEF Next

\* What every reachable state satisfies.
LEMMA Invariant == Spec => []IInv
BY InitInv, StepInv, PTL DEF Spec

-----------------------------------------------------------------------------
\* Whatever fails, crashes or answers late, registrations, transactions and rows
\* keep their types.
THEOREM TypeCorrect == Spec => []TypeOK
BY Invariant, PTL DEF IInv

\* Whatever other attempts of the job sent or lost, a committed notification says
\* "delivered" only of what was accepted and "skipped" only of what never left.
THEOREM StoredOutcomeAlwaysTrue == Spec => []StoredOutcomeIsTrue
<1>1. IInv => StoredOutcomeIsTrue
  <2> SUFFICES ASSUME IInv, NEW n \in notifications
               PROVE  LET pushed == \E p \in pushes :
                                        <<p.job, p.attempt>> = <<n.job, n.attempt>>
                      IN  /\ n.email = "delivered" => <<n.job, n.attempt>> \in mails
                          /\ n.email = "skipped" => <<n.job, n.attempt>> \notin mails
                          /\ n.push = "delivered" => pushed
                          /\ n.push = "skipped" => ~pushed
    BY DEF StoredOutcomeIsTrue
  <2>1. RowIsTrue(n)
    BY DEF IInv, Truthful
  <2> QED
    BY <2>1 DEF RowIsTrue, Tells
<1> QED
  BY <1>1, Invariant, PTL

\* A channel the rule switches off is silent in the attempt that committed.
THEOREM SwitchedOffStaysSilent == Spec => []SwitchedOffIsSilent
<1>1. IInv => SwitchedOffIsSilent
  <2> SUFFICES ASSUME IInv, NEW n \in notifications
               PROVE  /\ "email" \in DOMAIN n.rule /\ ~n.rule["email"]
                             => <<n.job, n.attempt>> \notin mails
                      /\ "push" \in DOMAIN n.rule /\ ~n.rule["push"]
                             => \A p \in pushes : <<p.job, p.attempt>> # <<n.job, n.attempt>>
    BY DEF SwitchedOffIsSilent
  <2>1. RowIsTrue(n)
    BY DEF IInv, Truthful
  <2> QED
    BY <2>1 DEF RowIsTrue, Off
<1> QED
  BY <1>1, Invariant, PTL

\* A delivery status is filed under the notification whose e-mail it is about.
THEOREM StatusAlwaysOfOwnMail == Spec => []StatusIsOfOwnMail
<1>1. IInv => StatusIsOfOwnMail
  BY DEF IInv, WebhooksMatch, StatusIsOfOwnMail
<1> QED
  BY <1>1, Invariant, PTL

-----------------------------------------------------------------------------
(* The promise. *)

\* A job has one notification at most, so that what CHOOSE picks is that one.
LEMMA OnlyOne ==
    ASSUME NEW rows, \A m, n \in rows : m.job = n.job => m = n, NEW row \in rows
    PROVE  (CHOOSE n \in rows : n.job = row.job) = row
<1>1. \E n \in rows : n.job = row.job
  OBVIOUS
<1> DEFINE picked == CHOOSE n \in rows : n.job = row.job
<1>2. picked \in rows /\ picked.job = row.job
  BY <1>1
<1> HIDE DEF picked
<1>3. picked = row
  BY <1>2
<1> QED
  BY <1>3 DEF picked

\* So what the submitter is told is that notification's e-mail outcome.
LEMMA ToldIsEmail ==
    ASSUME Numbered PROVE \A n \in notifications : Told(n.job) = n.email
<1> SUFFICES ASSUME NEW n \in notifications PROVE Told(n.job) = n.email
  OBVIOUS
<1>1. (CHOOSE m \in notifications : m.job = n.job) = n
  BY OnlyOne DEF Numbered
<1>2. Told(n.job) = (CHOOSE m \in notifications : m.job = n.job).email
  BY DEF Told
<1> QED
  BY <1>1, <1>2

\* The same of the next state.
LEMMA ToldIsEmailNext ==
    ASSUME Numbered' PROVE \A n \in notifications' : Told(n.job)' = n.email
<1> SUFFICES ASSUME NEW n \in notifications' PROVE Told(n.job)' = n.email
  OBVIOUS
<1>1. (CHOOSE m \in notifications' : m.job = n.job) = n
  BY OnlyOne DEF Numbered
<1>2. Told(n.job)' = (CHOOSE m \in notifications' : m.job = n.job).email
  BY DEF Told
<1> QED
  BY <1>1, <1>2

\* Nothing promised yet.
LEMMA PromiseInit == Init => Promise!Init
BY DEF Init, Promise!Init, Told

\* An e-mail leaves before anything is told; COMMIT tells; nothing else shows.
LEMMA PromiseStep ==
    IInv /\ IInv' /\ [Next]_vars
        => [Promise!Next]_<<{id[1] : id \in mails}, [j \in Jobs |-> Told(j)]>>
<1> SUFFICES ASSUME IInv, IInv', [Next]_vars
             PROVE  \/ Promise!Next
                    \/ UNCHANGED <<{id[1] : id \in mails}, [j \in Jobs |-> Told(j)]>>
  OBVIOUS
<1>0. UNCHANGED <<mails, notifications>>
          => UNCHANGED <<{id[1] : id \in mails}, [j \in Jobs |-> Told(j)]>>
  BY DEF Told
<1>a. ASSUME NEW j \in Jobs, tx[j] # NoTx
      PROVE  Told(j) = "no" /\ \A n \in notifications : n.job # j
  <2>1. \A n \in notifications : n.job # j
    BY <1>a DEF IInv, Numbered
  <2> QED
    BY <2>1 DEF Told
<1>1. ASSUME NEW j \in Jobs, sendEmailViaResend(j), mails' # mails PROVE Promise!Next
  <2>1. mails' = mails \cup {<<j, Attempt(j)>>} /\ UNCHANGED notifications /\ tx[j] # NoTx
    BY <1>1, EmailOutcome, StepIsOpen DEF IInv
  <2>2. {id[1] : id \in mails'} = {id[1] : id \in mails} \cup {j}
    <3> DEFINE own == <<j, Attempt(j)>>
    <3>1. own[1] = j /\ mails' = mails \cup {own}
      BY <2>1
    <3> HIDE DEF own
    <3> QED
      BY <3>1
  <2>3. [k \in Jobs |-> Told(k)][j] = "no"
    BY <1>a, <2>1
  <2>4. [k \in Jobs |-> Told(k)]' = [k \in Jobs |-> Told(k)]
    BY <2>1 DEF Told
  <2>5. Promise!Mail(j)
    BY <2>2, <2>3, <2>4 DEF Promise!Mail
  <2> QED
    BY <2>5 DEF Promise!Next
<1>2. ASSUME NEW j \in Jobs, Commit(j) PROVE Promise!Next
  <2>1. /\ tx[j] \in OpenTx /\ tx[j] # NoTx /\ tx[j].step = "commit"
        /\ tx[j].email \in Outcomes /\ UNCHANGED mails
        /\ notifications' = notifications \cup {Row(j)}
        /\ Row(j).job = j /\ Row(j).email = tx[j].email
    BY <1>2, StepIsOpen, OpenIsTx DEF Commit, Row, IInv, StoredOutcomes
  <2>2. Told(j) = "no" /\ \A n \in notifications : n.job # j
    BY <1>a, <2>1
  <2>3. Told(j)' = tx[j].email
    <3> DEFINE row == Row(j)
    <3>1. \A n \in notifications' : Told(n.job)' = n.email
      BY ToldIsEmailNext DEF IInv
    <3>2. row \in notifications' /\ row.job = j /\ row.email = tx[j].email
      BY <2>1
    <3> HIDE DEF row
    <3> QED
      BY <3>1, <3>2
  <2>4. ASSUME NEW k \in Jobs \ {j} PROVE Told(k)' = Told(k)
    <3>1. CASE \E n \in notifications : n.job = k
      <4>1. PICK n \in notifications : n.job = k
        BY <3>1
      <4>2. n \in notifications'
        BY <2>1
      <4> QED
        BY <4>1, <4>2, ToldIsEmail, ToldIsEmailNext DEF IInv
    <3>2. CASE ~ \E n \in notifications : n.job = k
      <4>1. ~ \E n \in notifications' : n.job = k
        BY <2>1, <3>2
      <4> QED
        BY <3>2, <4>1 DEF Told
    <3> QED
      BY <3>1, <3>2
  <2>5. [k \in Jobs |-> Told(k)]' = [[k \in Jobs |-> Told(k)] EXCEPT ![j] = tx[j].email]
    BY <2>3, <2>4
  <2>6. tx[j].email = "delivered" => j \in {id[1] : id \in mails}
    <3>1. TxIsTrue(j)
      BY <2>1 DEF IInv, Truthful
    <3>2. tx[j].email = "delivered" => <<j, Attempt(j)>> \in mails
      BY <2>1, <3>1 DEF TxIsTrue, Tells
    <3> QED
      BY <3>2
  <2>7. Promise!Tell(j, tx[j].email)
    BY <2>1, <2>2, <2>5, <2>6 DEF Promise!Tell
  <2> QED
    BY <2>1, <2>7 DEF Promise!Next
<1>3. \/ UNCHANGED <<mails, notifications>>
      \/ \E j \in Jobs : Commit(j)
      \/ \E j \in Jobs : sendEmailViaResend(j)
  BY DEF Next, vars, deliveryVars, Begin, sendPushNotifications, Fail,
         recordNotificationWebhookEvent
<1>4. ASSUME NEW j \in Jobs, sendEmailViaResend(j), mails' = mails
      PROVE  UNCHANGED <<mails, notifications>>
  BY <1>4, EmailOutcome DEF IInv
<1> QED
  BY <1>0, <1>1, <1>2, <1>3, <1>4

\* The delivery, its retries, crashes and lost answers included, implements what a
\* submitter is promised: e-mails only before the notification, one notification,
\* "delivered" only of an e-mail that left.
THEOREM ImplementsPromise == Spec => KeepsThePromise
<1>1. Spec => []IInv
  BY Invariant
<1> QED
  BY <1>1, PromiseInit, PromiseStep, PTL DEF Spec, KeepsThePromise, Promise!Spec

-----------------------------------------------------------------------------
(* Revocations. *)

\* Row i of the log registers d for the user of j and stands for the first rows.
Stands(j, d, i, length) ==
    /\ i \in DOMAIN pushLog
    /\ pushLog[i].user = UserOf[j] /\ pushLog[i].token = d
    /\ \A k \in i + 1 .. length :
           <<pushLog[k].user, pushLog[k].platform>> # <<pushLog[i].user, pushLog[i].platform>>

Stood(j, d) == \E i \in DOMAIN pushLog : Stands(j, d, i, tx[j].since)

\* What an open transaction may send to, and what it has sent to, was registered
\* when it began or later.
Standing ==
    \A j \in Jobs : tx[j] # NoTx =>
        /\ tx[j].since <= Len(pushLog)
        /\ \A d \in tx[j].tokens : Stood(j, d)
        /\ \A p \in pushes : p.job = j /\ p.attempt = Attempt(j) => Stood(j, p.token)

\* No transaction is open.
LEMMA InitStanding == Init => Standing
BY DEF Init, Standing

\* What stands in a log stands in a longer one.
LEMMA LongerLog ==
    ASSUME IInv, IInv', Len(pushLog) <= Len(pushLog'),
           \A i \in DOMAIN pushLog : pushLog'[i] = pushLog[i],
           NEW j \in Jobs, tx[j] # NoTx, tx'[j] # NoTx, tx'[j].since = tx[j].since,
           tx[j].since <= Len(pushLog), NEW d, Stood(j, d)
    PROVE  Stood(j, d)'
<1>0. pushLog \in Seq(Rows) /\ pushLog' \in Seq(Rows) /\ tx[j].since \in Nat
  BY PushTypeParts, OpenIsTx DEF IInv, TypeOK, PushTypeOK, OpenTx
<1>1. PICK i \in DOMAIN pushLog : Stands(j, d, i, tx[j].since)
  BY DEF Stood
<1>2. i \in DOMAIN pushLog' /\ i \in Nat
  BY <1>0
<1>3. \A k \in i + 1 .. tx[j].since : k \in DOMAIN pushLog
  BY <1>0, <1>1, <1>2
<1>4. Stands(j, d, i, tx[j].since)'
  BY <1>1, <1>2, <1>3 DEF Stands
<1> QED
  BY <1>2, <1>4 DEF Stood, Stands

\* The log only grows.
LEMMA LogGrows ==
    ASSUME IInv, [Next]_vars
    PROVE  /\ Len(pushLog) <= Len(pushLog')
           /\ \A i \in DOMAIN pushLog : pushLog'[i] = pushLog[i]
<1>0. pushLog \in Seq(Rows)
  BY DEF IInv, TypeOK, PushTypeOK
<1>1. UNCHANGED pushLog \/ \E row \in Rows : pushLog' = Append(pushLog, row)
  <2>1. CASE PushNext
    <3>1. ASSUME NEW r \in requests, registerPushToken(r)
          PROVE  \E row \in Rows : pushLog' = Append(pushLog, row)
      BY <3>1, PushTypeParts DEF IInv, TypeOK, registerPushToken, Rows, Platforms, Call
    <3>2. ASSUME NEW user \in Users, NEW platform \in Platforms, Revoke(user, platform)
          PROVE  \E row \in Rows : pushLog' = Append(pushLog, row)
      BY <3>2 DEF Revoke, Rows
    <3> QED
      BY <2>1, <3>1, <3>2 DEF PushNext, UseAddress, RequestLost, Answered
  <2>2. CASE UNCHANGED pushVars
    BY <2>2 DEF pushVars
  <2>3. PushNext \/ UNCHANGED pushVars
    BY DEF Next, vars, Begin, sendEmailViaResend, sendPushNotifications, Commit, Fail,
           recordNotificationWebhookEvent
  <2> QED
    BY <2>1, <2>2, <2>3
<1> QED
  BY <1>0, <1>1

\* A transaction and its pushes in the next state: as they were, just begun, with
\* the tokens of the moment, or with some of its tokens pushed to.
LEMMA TxMoves ==
    ASSUME IInv, [Next]_vars, NEW j \in Jobs, tx'[j] # NoTx
    PROVE  LET sent == {p \in pushes : p.job = j /\ p.attempt = Attempt(j)}
               sentNext == {p \in pushes' : p.job = j /\ p.attempt = tx'[j].attempt}
           IN  \/ /\ tx[j] # NoTx /\ tx'[j].since = tx[j].since
                  /\ tx'[j].tokens = tx[j].tokens /\ sentNext = sent
               \/ /\ tx[j] # NoTx /\ tx'[j].since = tx[j].since /\ UNCHANGED pushLog
                  /\ tx'[j].tokens = ListedTokens(j) /\ sentNext = sent
               \/ /\ tx[j] # NoTx /\ tx'[j].since = tx[j].since
                  /\ tx'[j].tokens = {}
                  /\ \A p \in sentNext : p.token \in tx[j].tokens
               \/ /\ tx'[j].since = Len(pushLog') /\ tx'[j].tokens = {} /\ sentNext = {}
<1> DEFINE sent == {p \in pushes : p.job = j /\ p.attempt = Attempt(j)}
           sentNext == {p \in pushes' : p.job = j /\ p.attempt = tx'[j].attempt}
<1>0. TypeOK
  BY DEF IInv
<1>1. CASE tx'[j] = tx[j] /\ pushes' = pushes
  BY <1>1 DEF Attempt
<1>2. ASSUME NEW rule \in Rules, Begin(j, rule)
      PROVE  tx'[j].since = Len(pushLog') /\ tx'[j].tokens = {} /\ sentNext = {}
  <2>1. begun \in Nat /\ begun' = begun + 1 /\ UNCHANGED <<pushes, pushLog>>
    BY <1>0, <1>2 DEF Begin, TypeOK, pushVars
  <2>2. tx'[j].since = Len(pushLog) /\ tx'[j].tokens = {} /\ tx'[j].attempt = begun'
    BY <1>0, <1>2 DEF Begin, TypeOK
  <2>3. \A p \in pushes : p.attempt # begun'
    BY <1>0, <2>1 DEF IInv, Numbered, TypeOK
  <2> QED
    BY <2>1, <2>2, <2>3
<1>3. ASSUME sendEmailViaResend(j)
      PROVE  /\ tx[j] # NoTx /\ tx'[j].since = tx[j].since /\ UNCHANGED pushLog
             /\ tx'[j].tokens = ListedTokens(j) /\ sentNext = sent
  <2>1. /\ tx[j] \in OpenTx /\ tx[j].step = "email" /\ tx[j] # NoTx
        /\ UNCHANGED <<pushes, pushVars>>
    BY <1>0, <1>3, EmailOutcome, StepIsOpen
  <2>2. ~RolledBack(j)
    BY <1>0 DEF RolledBack, TypeOK
  <2>3. PICK outcome \in Outcomes, id \in {NoMail, <<j, Attempt(j)>>} : EmailDone(j, outcome, id)
    BY <1>0, <1>3, <2>2, EmailOutcome
  <2>4. <<j, Attempt(j)>> \in MailIds
    BY <1>0, <1>3, EmailOutcome
  <2>5. tx'[j] = AfterEmail(j, outcome, id)
    BY <1>0, <2>1, <2>3, <2>4, EmailDoneType
  <2>6. /\ tx'[j].since = tx[j].since /\ tx'[j].tokens = ListedTokens(j)
        /\ tx'[j].attempt = tx[j].attempt
    BY <2>1, <2>5 DEF AfterEmail, OpenTx
  <2> QED
    BY <2>1, <2>6 DEF Attempt, pushVars
<1>4. ASSUME sendPushNotifications(j)
      PROVE  /\ tx[j] # NoTx /\ tx'[j].since = tx[j].since /\ tx'[j].tokens = {}
             /\ \A p \in sentNext : p.token \in tx[j].tokens
  <2>1. /\ tx[j] \in OpenTx /\ tx[j].step = "push" /\ tx[j] # NoTx
    BY <1>0, <1>4, PushOutcome, StepIsOpen
  <2>2. PICK accepted \in SUBSET tx[j].tokens, outcome \in Outcomes :
          /\ pushes' = pushes \cup
                 {[job |-> j, attempt |-> Attempt(j), token |-> d] : d \in accepted}
          /\ tx' = [tx EXCEPT ![j].step = "commit", ![j].push = outcome, ![j].tokens = {}]
    BY <1>0, <1>4, PushOutcome
  <2>3. tx'[j].since = tx[j].since /\ tx'[j].tokens = {} /\ tx'[j].attempt = Attempt(j)
    BY <1>0, <2>1, <2>2 DEF TypeOK, OpenTx, Attempt
  <2>4. sent = {}
    BY <2>1 DEF IInv, Truthful, TxIsTrue
  <2>5. \A p \in sentNext : p.token \in tx[j].tokens
    BY <2>2, <2>3, <2>4
  <2> QED
    BY <2>1, <2>3, <2>5
<1>5. ASSUME NEW k \in Jobs \ {j}, sendPushNotifications(k)
      PROVE  tx'[j] = tx[j] /\ sentNext = sent
  <2>1. PICK accepted \in SUBSET tx[k].tokens, outcome \in Outcomes :
          /\ pushes' = pushes \cup
                 {[job |-> k, attempt |-> Attempt(k), token |-> d] : d \in accepted}
          /\ tx' = [tx EXCEPT ![k].step = "commit", ![k].push = outcome, ![k].tokens = {}]
    BY <1>0, <1>5, PushOutcome
  <2>2. tx'[j] = tx[j]
    BY <1>0, <2>1 DEF TypeOK
  <2>3. \A p \in pushes' : p \in pushes \/ p.job = k
    BY <2>1
  <2>4. pushes \subseteq pushes'
    BY <2>1
  <2> QED
    BY <2>2, <2>3, <2>4 DEF Attempt
<1>6. ASSUME NEW k \in Jobs \ {j}, sendEmailViaResend(k)
      PROVE  tx'[j] = tx[j] /\ pushes' = pushes
  BY <1>0, <1>6 DEF sendEmailViaResend, EmailDone, RolledBack, TypeOK
<1>7. ASSUME NEW k \in Jobs, Commit(k) \/ Fail(k)
      PROVE  tx'[j] = tx[j] /\ pushes' = pushes
  BY <1>0, <1>7 DEF Commit, Fail, RolledBack, TypeOK
<1>8. ASSUME NEW k \in Jobs \ {j}, NEW rule \in Rules, Begin(k, rule)
      PROVE  tx'[j] = tx[j] /\ pushes' = pushes
  BY <1>0, <1>8 DEF Begin, TypeOK
<1>9. ASSUME \/ PushNext /\ UNCHANGED deliveryVars
             \/ \E id \in mails : recordNotificationWebhookEvent(id)
             \/ UNCHANGED vars
      PROVE  tx'[j] = tx[j] /\ pushes' = pushes
  BY <1>9 DEF deliveryVars, vars, recordNotificationWebhookEvent
<1>10. tx[j] = NoTx => tx'[j] # tx[j]
  OBVIOUS
<1> HIDE DEF sent, sentNext
<1>11. \/ tx'[j] = tx[j] /\ sentNext = sent
       \/ /\ tx[j] # NoTx /\ tx'[j].since = tx[j].since /\ UNCHANGED pushLog
          /\ tx'[j].tokens = ListedTokens(j) /\ sentNext = sent
       \/ /\ tx[j] # NoTx /\ tx'[j].since = tx[j].since /\ tx'[j].tokens = {}
          /\ \A p \in sentNext : p.token \in tx[j].tokens
       \/ /\ tx'[j].since = Len(pushLog') /\ tx'[j].tokens = {} /\ sentNext = {}
  <2>1. tx'[j] = tx[j] /\ pushes' = pushes => sentNext = sent
    BY DEF sent, sentNext, Attempt
  <2> QED
    BY <1>2, <1>3, <1>4, <1>5, <1>6, <1>7, <1>8, <1>9, <2>1 DEF Next
<1> QED
  BY <1>10, <1>11 DEF sent, sentNext

\* What is listed stands at that moment, and so since the transaction began.
LEMMA ListedStand ==
    ASSUME IInv, NEW j \in Jobs, tx[j] # NoTx, tx[j].since <= Len(pushLog),
           NEW d \in ListedTokens(j)
    PROVE  Stood(j, d)
<1>0. pushLog \in Seq(Rows) /\ tx[j].since \in Nat
  BY OpenIsTx DEF IInv, TypeOK, PushTypeOK, OpenTx
<1>1. d \in listActivePushRegistrations(UserOf[j])
  BY DEF ListedTokens
<1>2. PICK i \in DOMAIN pushLog : /\ IsLatest(i, Len(pushLog))
                                   /\ pushLog[i].user = UserOf[j] /\ pushLog[i].token = d
  BY <1>1 DEF listActivePushRegistrations
<1>3. \A k \in i + 1 .. tx[j].since : k \in i + 1 .. Len(pushLog)
  BY <1>0
<1>4. Stands(j, d, i, tx[j].since)
  BY <1>2, <1>3 DEF Stands, IsLatest
<1> QED
  BY <1>4 DEF Stood

\* Every step keeps to the registrations that stand.
LEMMA StepStanding == IInv /\ IInv' /\ Standing /\ [Next]_vars => Standing'
<1> SUFFICES ASSUME IInv, IInv', Standing, [Next]_vars, NEW j \in Jobs, tx'[j] # NoTx
             PROVE  /\ tx'[j].since <= Len(pushLog')
                    /\ \A d \in tx'[j].tokens : Stood(j, d)'
                    /\ \A p \in pushes' : p.job = j /\ p.attempt = tx'[j].attempt
                           => Stood(j, p.token)'
  BY DEF Standing, Attempt
<1> DEFINE sent == {p \in pushes : p.job = j /\ p.attempt = Attempt(j)}
           sentNext == {p \in pushes' : p.job = j /\ p.attempt = tx'[j].attempt}
<1>0. /\ pushLog \in Seq(Rows) /\ pushLog' \in Seq(Rows)
  BY DEF IInv, TypeOK, PushTypeOK
<1>1. Len(pushLog) <= Len(pushLog') /\ Len(pushLog) \in Nat /\ Len(pushLog') \in Nat
  BY <1>0, LogGrows
<1>2. tx[j] # NoTx => /\ tx[j].since \in Nat /\ tx[j].since <= Len(pushLog)
                      /\ \A d \in tx[j].tokens : Stood(j, d)
                      /\ \A p \in sent : Stood(j, p.token)
  BY OpenIsTx DEF IInv, Standing, OpenTx
<1>3. ASSUME NEW d, tx[j] # NoTx, Stood(j, d), tx'[j].since = tx[j].since PROVE Stood(j, d)'
  BY <1>1, <1>2, <1>3, LogGrows, LongerLog
<1>4. ASSUME NEW d \in ListedTokens(j), tx[j] # NoTx PROVE Stood(j, d)
  BY <1>2, <1>4, ListedStand
<1>5. \/ /\ tx[j] # NoTx /\ tx'[j].since = tx[j].since
         /\ tx'[j].tokens = tx[j].tokens /\ sentNext = sent
      \/ /\ tx[j] # NoTx /\ tx'[j].since = tx[j].since
         /\ tx'[j].tokens = ListedTokens(j) /\ sentNext = sent
      \/ /\ tx[j] # NoTx /\ tx'[j].since = tx[j].since
         /\ tx'[j].tokens = {}
         /\ \A p \in sentNext : p.token \in tx[j].tokens
      \/ /\ tx'[j].since = Len(pushLog') /\ tx'[j].tokens = {} /\ sentNext = {}
  BY TxMoves
<1> HIDE DEF sent, sentNext
<1>6. tx'[j].since <= Len(pushLog')
  BY <1>1, <1>2, <1>5
<1>7. \A d \in tx'[j].tokens : Stood(j, d)'
  BY <1>2, <1>3, <1>4, <1>5
<1>8. \A p \in sentNext : Stood(j, p.token)'
  BY <1>2, <1>3, <1>5
<1> QED
  BY <1>6, <1>7, <1>8 DEF sentNext

\* A push goes only where the user had a registration that stood when the
\* transaction began, or made one since: a revocation committed before silences.
THEOREM RevokedStaysSilent == Spec => []RevokedDeviceIsSilent
<1>1. IInv /\ Standing => RevokedDeviceIsSilent
  <2> SUFFICES ASSUME Standing, NEW j \in Jobs, tx[j] # NoTx, NEW p \in pushes,
                      <<p.job, p.attempt>> = <<j, Attempt(j)>>
               PROVE  \E i \in DOMAIN pushLog : Stands(j, p.token, i, tx[j].since)
    BY DEF RevokedDeviceIsSilent, Stands
  <2>1. p.job = j /\ p.attempt = Attempt(j)
    OBVIOUS
  <2> QED
    BY <2>1 DEF Standing, Stood
<1>2. Spec => []Standing
  BY Invariant, InitStanding, StepStanding, PTL DEF Spec
<1> QED
  BY <1>1, <1>2, Invariant, PTL

-----------------------------------------------------------------------------
(* Devices that say they are ready. *)

\* The log has a latest row of the user's installation, whichever device it names.
Known(user, platform) ==
    \E i \in DOMAIN pushLog : /\ IsLatest(i, Len(pushLog))
                              /\ pushLog[i].user = user /\ pushLog[i].platform = platform

\* Row i names the installation of its device.
RowOK(i) == pushLog[i].token # Nobody => pushLog[i].platform = PlatformOf[pushLog[i].token]

\* A call is of this run of the effect, with its address, or of a former run; once
\* accepted its installation stays in the log.
CallOK(r) ==
    /\ r.effect <= device[r.device].effect
    /\ r.effect = device[r.device].effect => r.user = device[r.device].user
    /\ r.state = "accepted" => Known(r.user, PlatformOf[r.device])

\* A device without an open call of this run of the effect is ready only if its
\* installation is in the log.
DeviceOK(d) ==
    /\ device[d].status = "ready"
    /\ \A r \in requests : r.device = d => r.effect # device[d].effect
    => device[d].user # Nobody /\ Known(device[d].user, PlatformOf[d])

Registered ==
    /\ \A i \in DOMAIN pushLog : RowOK(i)
    /\ \A r \in requests : CallOK(r)
    /\ \A d \in Devices : DeviceOK(d)

LEMMA RegisteredInit == PushInit => Registered
<1> SUFFICES ASSUME PushInit PROVE Registered
  OBVIOUS
<1>1. DOMAIN pushLog = {} /\ requests = {} /\ \A d \in Devices : device[d].status = "none"
  BY DEF PushInit
<1> QED
  BY <1>1 DEF Registered, DeviceOK

\* A registration or a revocation is the latest of its installation, and leaves the
\* others' latest rows as they were.
LEMMA RowAppended ==
    ASSUME pushLog \in Seq(Rows), NEW row \in Rows, pushLog' = Append(pushLog, row)
    PROVE  /\ Known(row.user, row.platform)'
           /\ \A user, platform : Known(user, platform) => Known(user, platform)'
           /\ (\A i \in DOMAIN pushLog : RowOK(i)) /\ 
                  (row.token # Nobody => row.platform = PlatformOf[row.token])
                  => \A i \in DOMAIN pushLog' : RowOK(i)'
<1> DEFINE last == Len(pushLog) + 1
<1>1. /\ pushLog' \in Seq(Rows) /\ Len(pushLog') = last /\ Len(pushLog) \in Nat
      /\ DOMAIN pushLog' = 1 .. last /\ DOMAIN pushLog = 1 .. Len(pushLog)
      /\ pushLog'[last] = row /\ \A i \in DOMAIN pushLog : pushLog'[i] = pushLog[i]
  OBVIOUS
<1>2. Known(row.user, row.platform)'
  <2>1. PICK i \in DOMAIN pushLog' : i = last
    BY <1>1
  <2>2. IsLatest(i, Len(pushLog))'
    BY <1>1, <2>1 DEF IsLatest
  <2> QED
    BY <1>1, <2>1, <2>2 DEF Known
<1>3. ASSUME NEW user, NEW platform, Known(user, platform) PROVE Known(user, platform)'
  <2>1. PICK i \in DOMAIN pushLog : /\ IsLatest(i, Len(pushLog))
                                   /\ pushLog[i].user = user /\ pushLog[i].platform = platform
    BY <1>3 DEF Known
  <2>2. CASE row.user = user /\ row.platform = platform
    BY <1>2, <2>2
  <2>3. CASE <<row.user, row.platform>> # <<user, platform>>
    <3>1. \A j \in i + 1 .. last : j \in i + 1 .. Len(pushLog) \/ j = last
      BY <1>1
    <3>2. \A j \in i + 1 .. Len(pushLog) : j \in DOMAIN pushLog
      BY <1>1
    <3>3. IsLatest(i, Len(pushLog))' /\ i \in DOMAIN pushLog'
      BY <1>1, <2>1, <2>3, <3>1, <3>2 DEF IsLatest
    <3> QED
      BY <1>1, <2>1, <3>3 DEF Known
  <2> QED
    BY <2>2, <2>3
<1>4. ASSUME \A i \in DOMAIN pushLog : RowOK(i),
             row.token # Nobody => row.platform = PlatformOf[row.token],
             NEW i \in DOMAIN pushLog'
      PROVE  RowOK(i)'
  <2>1. CASE i = last
    BY <1>1, <1>4, <2>1 DEF RowOK
  <2>2. CASE i \in DOMAIN pushLog
    BY <1>1, <1>4, <2>2 DEF RowOK
  <2> QED
    BY <1>1, <2>1, <2>2
<1> QED
  BY <1>2, <1>3, <1>4

\* Every step of the registrations keeps them so.
LEMMA RegisteredStep == PushTypeOK /\ Registered /\ PushNext => Registered'
<1> SUFFICES ASSUME PushTypeOK, Registered, PushNext PROVE Registered'
  OBVIOUS
<1>0. /\ pushLog \in Seq(Rows)
      /\ device \in [Devices -> DeviceState]
      /\ requests \subseteq Call
  BY PushTypeParts
<1>a. /\ \A d \in Devices : device[d].effect \in Nat
      /\ \A r \in requests : r.device \in Devices /\ r.user \in Users /\ r.effect \in Nat
      /\ Nobody \notin Users
  BY <1>0, PushAssumption DEF DeviceState, Call
<1>1. ASSUME NEW d \in Devices, NEW user \in Users \cup {Nobody}, UseAddress(d, user)
      PROVE  Registered'
  <2> DEFINE call == [device |-> d, user |-> user, state |-> "sent",
                      effect |-> device[d].effect + 1]
  <2>1. /\ device'[d].user = user /\ device'[d].effect = device[d].effect + 1
        /\ user = Nobody => device'[d].status = "none"
        /\ \A e \in Devices \ {d} : device'[e] = device[e]
    BY <1>0, <1>1 DEF UseAddress, DeviceState
  <2>2. requests' = (IF user = Nobody THEN requests ELSE requests \cup {call})
        /\ UNCHANGED pushLog
    BY <1>1 DEF UseAddress
  <2>3. /\ call.device = d /\ call.user = user /\ call.effect = device[d].effect + 1
        /\ call.state = "sent"
    OBVIOUS
  <2> HIDE DEF call
  <2>4. \A i \in DOMAIN pushLog' : RowOK(i)'
    BY <2>2 DEF Registered, RowOK
  <2>5. \A u, platform : Known(u, platform)' <=> Known(u, platform)
    BY <2>2 DEF Known, IsLatest
  <2>6. ASSUME NEW r \in requests' PROVE CallOK(r)'
    <3>1. CASE r \in requests
      <4>1. CallOK(r)
        BY <3>1 DEF Registered
      <4>2. CASE r.device = d
        <5>1. r.effect < device'[d].effect
          BY <1>a, <2>1, <3>1, <4>1, <4>2 DEF CallOK
        <5> QED
          BY <1>a, <2>1, <2>5, <3>1, <4>1, <4>2, <5>1 DEF CallOK
      <4>3. CASE r.device # d
        BY <1>a, <2>1, <2>5, <3>1, <4>1, <4>3 DEF CallOK
      <4> QED
        BY <4>2, <4>3
    <3>2. CASE r = call
      BY <1>a, <2>1, <2>3, <3>2 DEF CallOK
    <3> QED
      BY <2>2, <3>1, <3>2
  <2>7. ASSUME NEW e \in Devices PROVE DeviceOK(e)'
    <3>1. CASE e = d
      BY <2>1, <2>2, <2>3, <3>1 DEF DeviceOK
    <3>2. CASE e # d
      <4>1. DeviceOK(e) /\ device'[e] = device[e]
        BY <2>1, <3>2 DEF Registered
      <4>2. \A r \in requests : r \in requests'
        BY <2>2
      <4> QED
        BY <2>5, <4>1, <4>2 DEF DeviceOK
    <3> QED
      BY <3>1, <3>2
  <2> QED
    BY <2>4, <2>6, <2>7 DEF Registered
<1>2. ASSUME NEW row \in Rows, pushLog' = Append(pushLog, row), UNCHANGED device,
             row.token # Nobody => row.platform = PlatformOf[row.token],
             \A r \in requests' : \/ r \in requests
                                 \/ \E old \in requests :
                                        /\ r.device = old.device /\ r.user = old.user
                                        /\ r.effect = old.effect
                                        /\ r.user = row.user
                                        /\ PlatformOf[r.device] = row.platform,
             \A old \in requests : \E r \in requests' : r.device = old.device
                                                        /\ r.effect = old.effect
      PROVE  Registered'
  <2>1. /\ Known(row.user, row.platform)'
        /\ \A user, platform : Known(user, platform) => Known(user, platform)'
        /\ \A i \in DOMAIN pushLog' : RowOK(i)'
    BY <1>0, <1>2, RowAppended DEF Registered
  <2>2. ASSUME NEW r \in requests' PROVE CallOK(r)'
    BY <1>2, <2>1 DEF Registered, CallOK
  <2>3. ASSUME NEW d \in Devices PROVE DeviceOK(d)'
    BY <1>2, <2>1 DEF Registered, DeviceOK
  <2> QED
    BY <2>1, <2>2, <2>3 DEF Registered
<1>3. ASSUME NEW r \in requests, registerPushToken(r) PROVE Registered'
  <2> DEFINE row == [user |-> r.user, platform |-> PlatformOf[r.device], token |-> r.device]
             after == [r EXCEPT !.state = "accepted"]
  <2>1. /\ pushLog' = Append(pushLog, row) /\ UNCHANGED device
        /\ requests' = (requests \ {r}) \cup {after}
    BY <1>3 DEF registerPushToken
  <2>2. /\ row \in Rows /\ row.user = r.user /\ row.platform = PlatformOf[r.device]
        /\ row.token = r.device
    BY <1>a DEF Rows, Platforms
  <2>3. after.device = r.device /\ after.user = r.user /\ after.effect = r.effect
    BY <1>0 DEF Call
  <2> HIDE DEF row, after
  <2> QED
    BY <1>2, <2>1, <2>2, <2>3
<1>4. ASSUME NEW r \in requests, RequestLost(r) PROVE Registered'
  <2> DEFINE after == [r EXCEPT !.state = "lost"]
  <2>1. requests' = (requests \ {r}) \cup {after} /\ UNCHANGED <<pushLog, device>>
    BY <1>4 DEF RequestLost
  <2>2. after.device = r.device /\ after.user = r.user /\ after.effect = r.effect
        /\ after.state = "lost"
    BY <1>0 DEF Call
  <2> HIDE DEF after
  <2>3. \A user, platform : Known(user, platform)' <=> Known(user, platform)
    BY <2>1 DEF Known, IsLatest
  <2>4. \A i \in DOMAIN pushLog' : RowOK(i)'
    BY <2>1 DEF Registered, RowOK
  <2>5. \A q \in requests' : CallOK(q)'
    BY <2>1, <2>2, <2>3 DEF Registered, CallOK
  <2>6. \A d \in Devices : DeviceOK(d)'
    BY <2>1, <2>2, <2>3 DEF Registered, DeviceOK
  <2> QED
    BY <2>4, <2>5, <2>6 DEF Registered
<1>5. ASSUME NEW r \in requests, Answered(r) PROVE Registered'
  <2> DEFINE d == r.device
  <2>1. /\ requests' = requests \ {r} /\ UNCHANGED pushLog
        /\ \A e \in Devices : device'[e].user = device[e].user
                              /\ device'[e].effect = device[e].effect
        /\ \A e \in Devices \ {d} : device'[e] = device[e]
        /\ r.effect # device[d].effect => device'[d].status = device[d].status
        /\ r.effect = device[d].effect /\ r.state # "accepted" => device'[d].status = "none"
    BY <1>0, <1>a, <1>5 DEF Answered, DeviceState
  <2>2. \A user, platform : Known(user, platform)' <=> Known(user, platform)
    BY <2>1 DEF Known, IsLatest
  <2>3. \A i \in DOMAIN pushLog' : RowOK(i)'
    BY <2>1 DEF Registered, RowOK
  <2>4. \A q \in requests' : CallOK(q)'
    BY <1>a, <2>1, <2>2 DEF Registered, CallOK
  <2>5. ASSUME NEW e \in Devices PROVE DeviceOK(e)'
    <3>1. DeviceOK(e) /\ CallOK(r)
      BY DEF Registered
    <3>2. CASE e # d \/ r.effect # device[d].effect
      <4>1. device'[e].status = device[e].status /\ device'[e].user = device[e].user
            /\ device'[e].effect = device[e].effect
        BY <1>a, <2>1, <3>2
      <4>2. \A q \in requests : q.device = e /\ q.effect = device[e].effect => q \in requests'
        BY <2>1, <3>2
      <4> QED
        BY <2>2, <3>1, <4>1, <4>2 DEF DeviceOK
    <3>3. CASE e = d /\ r.effect = device[d].effect
      BY <1>a, <2>1, <2>2, <3>1, <3>3 DEF DeviceOK, CallOK
    <3> QED
      BY <3>2, <3>3
  <2> QED
    BY <2>3, <2>4, <2>5 DEF Registered
<1>6. ASSUME NEW user \in Users, NEW platform \in Platforms, Revoke(user, platform)
      PROVE  Registered'
  <2> DEFINE row == [user |-> user, platform |-> platform, token |-> Nobody]
  <2>1. pushLog' = Append(pushLog, row) /\ UNCHANGED <<device, requests>>
    BY <1>6 DEF Revoke
  <2>2. row \in Rows /\ row.token = Nobody
    BY DEF Rows
  <2> HIDE DEF row
  <2> QED
    BY <1>2, <2>1, <2>2
<1> QED
  BY <1>1, <1>3, <1>4, <1>5, <1>6 DEF PushNext

\* "Push alerts ready" is true once the call of the present address is over: the
\* device is where the address's pushes go, or a revocation came later. Neither the
\* answers of former addresses, late or lost, nor other devices' calls change that.
THEOREM ReadyStaysRegistered ==
    ASSUME OneDevicePerPlatform
    PROVE  Spec => []PushReadyIsRegistered
<1>1. Init => Registered
  BY RegisteredInit DEF Init
<1>2. IInv /\ Registered /\ [Next]_vars => Registered'
  <2> SUFFICES ASSUME IInv, Registered, [Next]_vars PROVE Registered'
    OBVIOUS
  <2>1. CASE PushNext
    BY <2>1, RegisteredStep DEF IInv, TypeOK
  <2>2. CASE UNCHANGED pushVars
    BY <2>2 DEF pushVars, Registered, RowOK, CallOK, DeviceOK, Known, IsLatest
  <2>3. PushNext \/ UNCHANGED pushVars
    BY DEF Next, vars, Begin, sendEmailViaResend, sendPushNotifications, Commit, Fail,
           recordNotificationWebhookEvent
  <2> QED
    BY <2>1, <2>2, <2>3
<1>3. IInv /\ Registered => PushReadyIsRegistered
  <2> SUFFICES ASSUME IInv, Registered, NEW d \in Devices, device[d].status = "ready",
                      \A r \in requests : r.device = d => r.effect # device[d].effect
               PROVE  LET user == device[d].user
                      IN  /\ user # Nobody
                          /\ \/ d \in listActivePushRegistrations(user)
                             \/ \E i \in RevokedRows : /\ IsLatest(i, Len(pushLog))
                                                       /\ pushLog[i].user = user
                                                       /\ pushLog[i].platform = PlatformOf[d]
    BY DEF PushReadyIsRegistered
  <2>1. device[d].user # Nobody /\ Known(device[d].user, PlatformOf[d])
    BY DEF Registered, DeviceOK
  <2>2. PICK i \in DOMAIN pushLog : /\ IsLatest(i, Len(pushLog))
                                   /\ pushLog[i].user = device[d].user
                                   /\ pushLog[i].platform = PlatformOf[d]
    BY <2>1 DEF Known
  <2>3. CASE pushLog[i].token = Nobody
    BY <2>1, <2>2, <2>3 DEF RevokedRows
  <2>4. CASE pushLog[i].token # Nobody
    <3>0. pushLog[i] \in Rows
      BY DEF IInv, TypeOK, PushTypeOK
    <3>1. pushLog[i].token \in Devices
      BY <2>4, <3>0 DEF Rows
    <3>2. PlatformOf[pushLog[i].token] = PlatformOf[d]
      BY <2>2, <2>4 DEF Registered, RowOK
    <3>3. pushLog[i].token = d
      BY <3>1, <3>2 DEF OneDevicePerPlatform
    <3>4. d \in listActivePushRegistrations(device[d].user)
      BY <2>2, <2>4, <3>3 DEF listActivePushRegistrations
    <3> QED
      BY <2>1, <3>4
  <2> QED
    BY <2>3, <2>4
<1>4. Spec => []Registered
  BY <1>1, <1>2, Invariant, PTL DEF Spec
<1> QED
  BY <1>3, <1>4, Invariant, PTL

=============================================================================
