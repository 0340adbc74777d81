------------------------ MODULE NotificationDelivery ------------------------
(* createAndDeliverNotification (notification-delivery.js, push-delivery.js): a
   handler's transaction inserts the notification, calls the e-mail and the push
   provider, stores what they answered, and commits, or is rolled back after the
   messages have left. The provider's webhooks come back in any order, late, more
   than once (notification-webhook.js).

   A job is the event or approval action that notifies; what else its handler
   does is SubmissionWorkflow's. PushTokens has the registrations. *)
EXTENDS PushTokens

CONSTANTS
    Jobs,
    UserOf,         \* the submitter each job notifies
    TypeOf,         \* the type of each job's notification
    Rules,          \* notificationRule objects of the effective policies
    EmailSet,       \* RESEND_API_KEY and NOTIFICATION_FROM_EMAIL are set
    PushMode,       \* "disabled", "unsupported-provider" or "expo"
    Channels,       \* "email", "push"
    MaxAttempts,    \* bound: transactions begun, of all jobs
    MaxWebhooks     \* bound: webhook calls

Types == {"submission_review_started", "submission_published",
          "submission_rejected", "submission_changes_requested"}

\* A rule is a function on the keys present; absent is not false.
ASSUME DeliveryAssumption ==
    /\ UserOf \in [Jobs -> Users] /\ TypeOf \in [Jobs -> Types]
    /\ \A rule \in Rules : /\ DOMAIN rule \subseteq Channels \cup {"eventChannels"}
                           /\ \A c \in Channels \cap DOMAIN rule : rule[c] \in BOOLEAN
    /\ Channels = {"email", "push"} /\ EmailSet \in BOOLEAN
    /\ PushMode \in {"disabled", "unsupported-provider", "expo"}
    /\ MaxAttempts \in Nat /\ MaxWebhooks \in Nat

VARIABLES
    job,            \* per job: whether it is still to be done
    tx,             \* per job: the open transaction
    begun,          \* transactions begun, which numbers them
    notifications,  \* committed rows, with their two audit rows
    mails,          \* e-mails the provider accepted
    pushes,         \* pushes Expo was sent
    webhookRows     \* audit rows of webhooks, in order

deliveryVars == <<job, tx, begun, notifications, mails, pushes, webhookRows>>
vars == <<pushVars, deliveryVars>>

\* A mail's id names the transaction that sent it.
MailIds == Jobs \X (1 .. MaxAttempts)
NoMail == <<>>

Outcomes == {"delivered", "skipped", "failed"}
NoTx == [step |-> "none"]
OpenTx == [step : {"email", "push", "commit"}, attempt : 1 .. MaxAttempts, rule : Rules,
           email : Outcomes \cup {"open"}, push : Outcomes \cup {"open"},
           providerId : MailIds \cup {NoMail},
           tokens : SUBSET Devices, since : Nat]
Notification == [job : Jobs, attempt : 1 .. MaxAttempts, email : Outcomes,
                 providerId : MailIds \cup {NoMail}, push : Outcomes, rule : Rules]

TypeOK ==
    /\ PushTypeOK
    /\ job \in [Jobs -> {"pending", "failed", "done"}]
    /\ tx \in [Jobs -> OpenTx \cup {NoTx}]
    /\ begun \in 0 .. MaxAttempts
    /\ notifications \subseteq Notification
    /\ mails \subseteq MailIds
    /\ pushes \subseteq [job : Jobs, attempt : 1 .. MaxAttempts, token : Devices]
    /\ webhookRows \in Seq([notification : MailIds \cup {NoMail},
                            emailId : MailIds])

-----------------------------------------------------------------------------
\* Mutant: an event's channels replace the rule's.
resolveByEventFirst(rule, type, channel) ==
    IF "eventChannels" \in DOMAIN rule /\ type \in DOMAIN rule["eventChannels"]
    THEN channel \in DOMAIN rule["eventChannels"][type] => rule["eventChannels"][type][channel]
    ELSE channel \in DOMAIN rule => rule[channel]

resolveNotificationChannelPolicy(rule, type, channel) ==
    /\ channel \in DOMAIN rule => rule[channel]
    /\ "eventChannels" \in DOMAIN rule /\ type \in DOMAIN rule["eventChannels"] =>
           LET event == rule["eventChannels"][type]
           IN  channel \in DOMAIN event => event[channel]

Attempt(j) == tx[j].attempt

Init ==
    /\ PushInit
    /\ job = [j \in Jobs |-> "pending"]
    /\ tx = [j \in Jobs |-> NoTx]
    /\ begun = 0
    /\ notifications = {}
    /\ mails = {}
    /\ pushes = {}
    /\ webhookRows = <<>>

\* BEGIN, the effective policy, and the notification's INSERT.
Begin(j, rule) ==
    /\ job[j] = "pending" /\ tx[j] = NoTx
    /\ begun < MaxAttempts
    /\ begun' = begun + 1
    /\ tx' = [tx EXCEPT ![j] =
                 [step |-> "email", attempt |-> begun', rule |-> rule, email |-> "open",
                  push |-> "open", providerId |-> NoMail, tokens |-> {},
                  since |-> Len(pushLog)]]
    /\ UNCHANGED <<job, notifications, mails, pushes, webhookRows, pushVars>>

PushEnabled(j) == resolveNotificationChannelPolicy(tx[j].rule, TypeOf[j], "push")

\* The e-mail's outcome is stored and the registrations are read.
EmailDone(j, outcome, id) ==
    /\ tx' = [tx EXCEPT ![j].step = "push", ![j].email = outcome, ![j].providerId = id,
                        ![j].tokens = IF PushEnabled(j)
                                      THEN listActivePushRegistrations(UserOf[j]) ELSE {}]
    /\ UNCHANGED job

SendsEmail(j) ==
    EmailSet /\ resolveNotificationChannelPolicy(tx[j].rule, TypeOf[j], "email")

\* ROLLBACK. The worker's markEventFailed ends the job; after a crash, when that
\* update fails too, or when the reviewer tries again, it is still to be done.
RolledBack(j) ==
    /\ tx' = [tx EXCEPT ![j] = NoTx]
    /\ \E state \in {"pending", "failed"} : job' = [job EXCEPT ![j] = state]

\* Mutant: response.ok is not looked at, any answer counts as delivered.
sendEmailUnchecked(j) ==
    /\ tx[j].step = "email"
    /\ \/ /\ ~SendsEmail(j)
          /\ EmailDone(j, "skipped", NoMail)
          /\ UNCHANGED mails
       \/ /\ SendsEmail(j)
          /\ mails' \in {mails, mails \cup {<<j, Attempt(j)>>}}
          /\ EmailDone(j, "delivered", NoMail) \/ RolledBack(j)
    /\ UNCHANGED <<begun, notifications, pushes, webhookRows, pushVars>>

\* sendEmailViaResend. An OK answer, which may lack an id, means that the mail was
\* accepted. Any other status is stored "failed" and a rejected fetch throws, and
\* after both the provider may have accepted the mail nevertheless.
sendEmailViaResend(j) ==
    /\ tx[j].step = "email"
    /\ \/ /\ ~SendsEmail(j)
          /\ EmailDone(j, "skipped", NoMail)
          /\ UNCHANGED mails
       \/ /\ SendsEmail(j)
          /\ mails' = mails \cup {<<j, Attempt(j)>>}
          /\ \E id \in {NoMail, <<j, Attempt(j)>>} : EmailDone(j, "delivered", id)
       \/ /\ SendsEmail(j)
          /\ mails' \in {mails, mails \cup {<<j, Attempt(j)>>}}
          /\ EmailDone(j, "failed", NoMail) \/ RolledBack(j)
    /\ UNCHANGED <<begun, notifications, pushes, webhookRows, pushVars>>

\* sendPushNotifications never throws. Expo takes each token or refuses it; should
\* its answer be lost, the outcome is "failed" whatever Expo took.
sendPushNotifications(j) ==
    LET tokens == tx[j].tokens
        Done(outcome) == tx' = [tx EXCEPT ![j].step = "commit", ![j].push = outcome,
                                          ![j].tokens = {}]
    IN  /\ tx[j].step = "push"
        /\ \/ /\ tokens = {} \/ PushMode = "disabled"
              /\ Done("skipped")
              /\ UNCHANGED pushes
           \/ /\ tokens # {} /\ PushMode = "unsupported-provider"
              /\ Done("failed")
              /\ UNCHANGED pushes
           \/ /\ tokens # {} /\ PushMode = "expo"
              /\ \E accepted \in SUBSET tokens :
                     /\ pushes' = pushes \cup
                            {[job |-> j, attempt |-> Attempt(j), token |-> d] : d \in accepted}
                     /\ \E outcome \in {"failed", "delivered"} :
                            (outcome = "delivered" => accepted # {}) /\ Done(outcome)
        /\ UNCHANGED <<job, begun, notifications, mails, webhookRows, pushVars>>

\* COMMIT, which also marks the event processed.
Commit(j) ==
    /\ tx[j].step = "commit"
    /\ notifications' = notifications \cup
           {[job |-> j, attempt |-> Attempt(j), email |-> tx[j].email, push |-> tx[j].push,
             providerId |-> tx[j].providerId, rule |-> tx[j].rule]}
    /\ tx' = [tx EXCEPT ![j] = NoTx]
    /\ job' = [job EXCEPT ![j] = "done"]
    /\ UNCHANGED <<begun, mails, pushes, webhookRows, pushVars>>

\* Mutant: the row is inserted outside the handler's transaction.
FailAfterInsert(j) ==
    /\ tx[j].step = "commit"
    /\ notifications' = notifications \cup
           {[job |-> j, attempt |-> Attempt(j), email |-> tx[j].email, push |-> tx[j].push,
             providerId |-> tx[j].providerId, rule |-> tx[j].rule]}
    /\ RolledBack(j)
    /\ UNCHANGED <<begun, mails, pushes, webhookRows, pushVars>>

\* The process crashes, or a later statement of the handler fails.
Fail(j) ==
    /\ tx[j] # NoTx
    /\ RolledBack(j)
    /\ UNCHANGED <<begun, notifications, mails, pushes, webhookRows, pushVars>>

\* Mutant: the match is by recipient, latest first.
MatchingUser(id) ==
    {n \in notifications : n.email = "delivered" /\ UserOf[n.job] = UserOf[id[1]]}

Matching(id) == {n \in notifications : n.email = "delivered" /\ n.providerId = id}

\* POST /webhooks/resend for a mail the provider accepted: matched with a
\* committed notification, if there is one.
recordNotificationWebhookEvent(id) ==
    /\ id \in mails
    /\ Len(webhookRows) < MaxWebhooks
    /\ \E n \in {<<m.job, m.attempt>> : m \in Matching(id)} \cup
                  IF Matching(id) = {} THEN {NoMail} ELSE {} :
           webhookRows' = Append(webhookRows,
                              [notification |-> n, emailId |-> id])
    /\ UNCHANGED <<job, tx, begun, notifications, mails, pushes, pushVars>>

Next ==
    \/ PushNext /\ UNCHANGED deliveryVars
    \/ \E j \in Jobs, rule \in Rules : Begin(j, rule)
    \/ \E j \in Jobs : \/ sendEmailViaResend(j) \/ sendPushNotifications(j)
                       \/ Commit(j) \/ Fail(j)
    \/ \E id \in mails : recordNotificationWebhookEvent(id)

Spec == Init /\ [][Next]_vars

-----------------------------------------------------------------------------
\* A delivery status the submitter is shown is about the e-mail of that very
\* notification, though webhooks come late, twice and out of order and the same
\* person has several notifications (notification-webhook.js).
StatusIsOfOwnMail ==
    \A i \in DOMAIN webhookRows :
        webhookRows[i].notification \in {NoMail, webhookRows[i].emailId}

\* Of the attempt that committed, whatever earlier attempts sent, "delivered" is said
\* only of what was accepted and "skipped" only of what never left; "failed" leaves
\* open which, since a refusal and a lost answer are stored alike.
StoredOutcomeIsTrue ==
    \A n \in notifications :
        LET pushed == \E p \in pushes : <<p.job, p.attempt>> = <<n.job, n.attempt>>
        IN  /\ n.email = "delivered" => <<n.job, n.attempt>> \in mails
            /\ n.email = "skipped" => <<n.job, n.attempt>> \notin mails
            /\ n.push = "delivered" => pushed
            /\ n.push = "skipped" => ~pushed

\* A channel the policy switches off stays silent in the attempt that committed,
\* whatever the rule says of single events.
SwitchedOffIsSilent ==
    \A n \in notifications :
        /\ "email" \in DOMAIN n.rule /\ ~n.rule["email"] => <<n.job, n.attempt>> \notin mails
        /\ "push" \in DOMAIN n.rule /\ ~n.rule["push"] =>
               \A p \in pushes : <<p.job, p.attempt>> # <<n.job, n.attempt>>

\* A push goes to a device only if its registration for the user stood when the
\* transaction began or was made since: a revocation committed before counts, and
\* so does another device that took the installation over.
RevokedDeviceIsSilent ==
    \A j \in Jobs : tx[j] # NoTx =>
        \A p \in pushes : <<p.job, p.attempt>> = <<j, Attempt(j)>> =>
            \E i \in DOMAIN pushLog :
                /\ pushLog[i].user = UserOf[j] /\ pushLog[i].token = p.token
                /\ \A k \in i + 1 .. tx[j].since :
                       <<pushLog[k].user, pushLog[k].platform>> #
                           <<pushLog[i].user, pushLog[i].platform>>

\* What the submitter is promised: e-mails before the notification exists, one
\* notification, and "delivered" only of an e-mail that left.
Told(j) == IF \E n \in notifications : n.job = j
           THEN (CHOOSE n \in notifications : n.job = j).email ELSE "no"
Promise == INSTANCE NotificationPromise WITH
               mailed <- {id[1] : id \in mails},
               told <- [j \in Jobs |-> Told(j)]
KeepsThePromise == Promise!Spec

=============================================================================
