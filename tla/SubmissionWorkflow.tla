------------------------ MODULE SubmissionWorkflow ------------------------
(***************************************************************************)
(* The life of a submission: the API endpoints that create, decide and     *)
(* resubmit it, and the worker that reviews and publishes it, over the     *)
(* tables they share.                                                      *)
(*                                                                         *)
(* An API handler runs in one transaction that locks the rows it decides   *)
(* on (SELECT ... FOR UPDATE) before it reads them, so a handler is one    *)
(* action.  A worker tick is not: it reads the submission without a lock,  *)
(* waits for an AI review or other queries, and writes later.  Claim       *)
(* is the read, the Finish actions are the writes and the COMMIT, and      *)
(* anything may happen in between.                                         *)
(*                                                                         *)
(* Left out, because no decision reads them back: review_runs and          *)
(* findings, publishing_jobs (written beside posts), media, notifications, *)
(* and the events approval.requested, published and publish.failed, whose  *)
(* handlers are empty.                                                     *)
(***************************************************************************)
EXTENDS ApproverDirectory

CONSTANTS
    Submissions,        \* ids of the submissions that may be created
    ContentTypeOf,      \* [Submissions -> ContentTypes]
    TeamOf,             \* the submission's team_id, or Null
    RequestIds,         \* ids available to approval_requests
    EventIds,           \* ids available to submission_events
    Ticks,              \* ticks of the worker that may run at the same time
    Policies,           \* effective policies the club may have
    Reviews,            \* outcomes of the AI review
    NoRow,              \* an id not yet inserted
    MaxRevision,        \* bound: revisions of one submission
    MaxRetries,         \* bound: retries by an operator
    MaxInterruptions    \* bound: ticks cut short by a crash or a lost connection

\* Roles a policy or the AI review may name are reviewer roles: the policy
\* endpoints and normalizeApproverRole accept no others.
ASSUME WorkflowAssumption ==
    /\ MaxRevision \in Nat \ {0}
    /\ \A p \in Policies : secondApproverRole(p) \in ReviewerRoles
    /\ \A p \in Policies, v \in Visibilities, review \in Reviews, c \in ContentTypes :
          chooseRoutingDecision(p, v, review, c) \in ReviewerRoles
    /\ ContentTypeOf \in [Submissions -> ContentTypes]

VARIABLES
    policy,         \* the club's effective workflow policy
    status,         \* submissions.status, "none" before the INSERT
    visibility,     \* submissions.visibility_target
    revision,       \* which text submissions.raw_text holds: 1, 2, ...
    requests,       \* approval_requests by id
    actions,        \* approval_actions: who did what on which request
    autoApproved,   \* submissions with an audit_logs row auto_approved
    events,         \* submission_events by id
    posts,          \* number of published_posts rows, by destination type
    phase,          \* what a tick is doing
    claimed,        \* the event a tick works on
    seen,           \* the submission as the tick read it when it claimed the event
    retries,        \* retries so far (bounds only)
    interruptions,  \* interruptions so far (bounds only)
    cleared         \* history: the revisions whose publication was approved

rowVars == <<status, visibility, revision, requests, actions, autoApproved, events, posts>>
tickVars == <<phase, claimed, seen>>
boundVars == <<retries, interruptions>>
vars == <<policy, rowVars, tickVars, boundVars, cleared>>

Statuses == {"none", "received", "needs_human_review", "needs_metadata",
             "approved_internal", "rejected", "published", "publish_failed"}
Request == [submission : Submissions, approver : Users, approverRole : ReviewerRoles,
            stage : {"primary", "secondary"},
            state : {"pending", "approved", "rejected", "changes_requested"}]
Action == [request : RequestIds, user : Users,
           action : {"approve", "reject", "request_changes"}]
\* processed_at NULL is pending; set, processing_error tells done from failed.
Event == [submission : Submissions, name : {"created", "approved"},
          state : {"pending", "done", "failed"}]
\* An absent row is no row.
ASSUME NoRowAssumption == NoRow \notin Request \cup Event \cup EventIds

Snapshot == [visibility : Visibilities, revision : 0..MaxRevision]

Published(s) == \E d \in DOMAIN posts[s] : posts[s][d] > 0

Init ==
    /\ policy \in Policies
    /\ status = [s \in Submissions |-> "none"]
    /\ visibility = [s \in Submissions |-> "internal"]
    /\ revision = [s \in Submissions |-> 0]
    /\ requests = [r \in RequestIds |-> NoRow]
    /\ actions = {}
    /\ autoApproved = {}
    /\ events = [e \in EventIds |-> NoRow]
    /\ posts = [s \in Submissions |-> [d \in ActiveDestinations |-> 0]]
    /\ phase = [t \in Ticks |-> "idle"]
    /\ claimed = [t \in Ticks |-> NoRow]
    /\ seen = [t \in Ticks |-> [visibility |-> "internal", revision |-> 0]]
    /\ retries = 0
    /\ interruptions = 0
    /\ cleared = [s \in Submissions |-> {}]

-----------------------------------------------------------------------------
(* Rows and locks.                                                          *)

\* Mutant: INSERT ... ON CONFLICT DO NOTHING on (submission_id, event_name).
WithEventOnce(table, e, s, name) ==
    IF \E f \in EventIds : /\ table[f] # NoRow
                           /\ table[f].submission = s
                           /\ table[f].name = name
    THEN table
    ELSE [table EXCEPT ![e] = [submission |-> s, name |-> name, state |-> "pending"]]

\* events after INSERT INTO submission_events, given the table it starts from.
WithEvent(table, e, s, name) ==
    [table EXCEPT ![e] = [submission |-> s, name |-> name, state |-> "pending"]]

\* Mutant: the stage is told from the approver's role.
WithRequestStageByRole(table, r, s, approver, stage) ==
    [table EXCEPT ![r] = [submission |-> s, approver |-> approver.user,
                          approverRole |-> approver.role,
                          stage |-> IF approver.role = "club_admin" THEN "secondary" ELSE stage,
                          state |-> "pending"]]

WithRequest(table, r, s, approver, stage) ==
    [table EXCEPT ![r] = [submission |-> s, approver |-> approver.user,
                          approverRole |-> approver.role, stage |-> stage,
                          state |-> "pending"]]

\* Mutants: no FOR UPDATE SKIP LOCKED; the failed transaction is still open when
\* another one marks its event.
NeverLocked(e) == FALSE
LockedUntilReleased(e) == \E t \in Ticks : phase[t] # "idle" /\ claimed[t] = e

\* The tick's open transaction holds the event row FOR UPDATE.
Locked(e) == \E t \in Ticks : phase[t] = "handling" /\ claimed[t] = e

-----------------------------------------------------------------------------
(* API endpoints.                                                           *)

\* POST /submissions
Create(s, v) ==
    /\ status[s] = "none"
    /\ status' = [status EXCEPT ![s] = "received"]
    /\ visibility' = [visibility EXCEPT ![s] = v]
    /\ revision' = [revision EXCEPT ![s] = 1]
    /\ \E e \in EventIds : /\ events[e] = NoRow
                           /\ events' = WithEvent(events, e, s, "created")
    /\ UNCHANGED <<policy, requests, actions, autoApproved, posts, tickVars,
                   boundVars, cleared>>

\* POST /submissions/:id/resubmit by the original submitter, with any
\* visibility; the review fields the UPDATE clears are not modelled.
Resubmit(s, v) ==
    /\ status[s] = "needs_metadata"
    /\ revision[s] < MaxRevision
    /\ status' = [status EXCEPT ![s] = "received"]
    /\ visibility' = [visibility EXCEPT ![s] = v]
    /\ revision' = [revision EXCEPT ![s] = @ + 1]
    /\ \E e \in EventIds : /\ events[e] = NoRow
                           /\ events' = WithEvent(events, e, s, "created")
    /\ UNCHANGED <<policy, requests, actions, autoApproved, posts, tickVars,
                   boundVars, cleared>>

stateMap == [approve |-> "approved", reject |-> "rejected",
             request_changes |-> "changes_requested"]
\* Mutant: a change request leaves the item under review.
submissionStatusMapStay == [approve |-> "approved_internal", reject |-> "rejected",
                            request_changes |-> "needs_human_review"]

submissionStatusMap == [approve |-> "approved_internal", reject |-> "rejected",
                        request_changes |-> "needs_metadata"]

\* Mutant: anybody may act.
RecordActionUnchecked(r, user, action) ==
    /\ requests[r] # NoRow
    /\ actions' = actions \cup {[request |-> r, user |-> user, action |-> action]}

\* What every approval action writes.  The request need not be pending, and
\* the submission need not be under review: the code checks neither.
RecordAction(r, user, action) ==
    /\ requests[r] # NoRow
    /\ MayActOn(user, requests[r].approverRole, TeamOf[requests[r].submission])
    /\ actions' = actions \cup {[request |-> r, user |-> user, action |-> action]}

Decided(r, action) == [requests EXCEPT ![r].state = stateMap[action]]

requiresSecondApproval(r) ==
    LET s == requests[r].submission
    IN  shouldRequireSecondApprovalForAction(
            policy, requests[r].stage, visibility[s], ContentTypeOf[s])

\* POST /approval-requests/:id/actions, approve, no further stage required
Approve(r, user) ==
    LET s == requests[r].submission
    IN  /\ RecordAction(r, user, "approve")
        /\ ~requiresSecondApproval(r)
        /\ requests' = Decided(r, "approve")
        /\ status' = [status EXCEPT ![s] = submissionStatusMap["approve"]]
        /\ \E e \in EventIds : /\ events[e] = NoRow
                               /\ events' = WithEvent(events, e, s, "approved")
        /\ cleared' = [cleared EXCEPT ![s] = @ \cup {revision[s]}]
        /\ UNCHANGED <<policy, visibility, revision, autoApproved, posts, tickVars,
                       boundVars>>

\* approve of a first stage that the policy wants followed by a second one;
\* with no second approver the handler throws and nothing is written
ApproveFirstStage(r, user) ==
    LET s == requests[r].submission
        approver == findApprovalStageApprover(secondApproverRole(policy), TeamOf[s])
    IN  /\ RecordAction(r, user, "approve")
        /\ requiresSecondApproval(r)
        /\ approver # Null
        /\ \E r2 \in RequestIds :
              /\ requests[r2] = NoRow
              /\ requests' = WithRequest(Decided(r, "approve"), r2, s, approver, "secondary")
        /\ status' = [status EXCEPT ![s] = "needs_human_review"]
        /\ UNCHANGED <<policy, visibility, revision, autoApproved, events, posts,
                       tickVars, boundVars, cleared>>

\* reject or request_changes
SendBack(r, user, action) ==
    LET s == requests[r].submission
    IN  /\ RecordAction(r, user, action)
        /\ requests' = Decided(r, action)
        /\ status' = [status EXCEPT ![s] = submissionStatusMap[action]]
        /\ UNCHANGED <<policy, visibility, revision, autoApproved, events, posts,
                       tickVars, boundVars, cleared>>

\* POST /workflow-events/:id/retry of any event, whatever became of it; on a
\* pending event the UPDATE changes nothing
RetryWorkflowEvent(e) ==
    /\ events[e] # NoRow
    /\ ~Locked(e)
    /\ events[e].state # "pending"
    /\ retries < MaxRetries
    /\ events' = [events EXCEPT ![e].state = "pending"]
    /\ retries' = retries + 1
    /\ UNCHANGED <<policy, status, visibility, revision, requests, actions,
                   autoApproved, posts, tickVars, interruptions, cleared>>

\* PATCH of the organization's or the club's policy, seen through its effect
UpdateWorkflowPolicy ==
    /\ policy' \in Policies \ {policy}
    /\ UNCHANGED <<rowVars, tickVars, boundVars, cleared>>

-----------------------------------------------------------------------------
(* The worker.                                                              *)

\* BEGIN; SELECT ... WHERE processed_at IS NULL ... FOR UPDATE SKIP LOCKED,
\* then the handler's unlocked SELECT of the submission.  created_at is the
\* time the inserting transaction began, which lock waits detach from the
\* order of commits, so any visible pending event may be the oldest.
Claim(t, e) ==
    /\ phase[t] = "idle"
    /\ events[e] # NoRow
    /\ events[e].state = "pending"
    /\ ~Locked(e)
    /\ phase' = [phase EXCEPT ![t] = "handling"]
    /\ claimed' = [claimed EXCEPT ![t] = e]
    /\ seen' = [seen EXCEPT ![t] = [visibility |-> visibility[events[e].submission],
                                    revision |-> revision[events[e].submission]]]
    /\ UNCHANGED <<policy, rowVars, boundVars, cleared>>

Handling(t, name) == phase[t] = "handling" /\ events[claimed[t]].name = name
ClaimedSubmission(t) == events[claimed[t]].submission
EventDone(t) == [events EXCEPT ![claimed[t]].state = "done"]

\* Mutant: the phase is not reset.
ReleaseTickKeepsPhase(t) ==
    /\ claimed' = [claimed EXCEPT ![t] = NoRow]
    /\ seen' = [seen EXCEPT ![t] = [visibility |-> "internal", revision |-> 0]]
    /\ UNCHANGED phase

ReleaseTick(t) ==
    /\ phase' = [phase EXCEPT ![t] = "idle"]
    /\ claimed' = [claimed EXCEPT ![t] = NoRow]
    /\ seen' = [seen EXCEPT ![t] = [visibility |-> "internal", revision |-> 0]]

\* processSubmissionCreated: the review found the item safe to approve
FinishWithAutoApproval(t, review) ==
    LET s == ClaimedSubmission(t)
    IN  /\ Handling(t, "created")
        /\ shouldAutoApproveSubmission(policy, seen[t].visibility, review, ContentTypeOf[s])
        /\ status' = [status EXCEPT ![s] = "approved_internal"]
        /\ \E e \in EventIds : /\ events[e] = NoRow
                               /\ events' = WithEvent(EventDone(t), e, s, "approved")
        /\ autoApproved' = autoApproved \cup {s}
        /\ cleared' = [cleared EXCEPT ![s] = @ \cup {seen[t].revision}]
        /\ ReleaseTick(t)
        /\ UNCHANGED <<policy, visibility, revision, requests, actions, posts, boundVars>>

\* processSubmissionCreated: a reviewer has to look at it
FinishWithReviewRequest(t, review) ==
    LET s == ClaimedSubmission(t)
        approver == findApprover(chooseRoutingDecision(
                        policy, seen[t].visibility, review, ContentTypeOf[s]))
    IN  /\ Handling(t, "created")
        /\ ~shouldAutoApproveSubmission(policy, seen[t].visibility, review, ContentTypeOf[s])
        /\ approver # Null
        /\ status' = [status EXCEPT ![s] = "needs_human_review"]
        /\ \E r \in RequestIds :
              /\ requests[r] = NoRow
              /\ requests' = WithRequest(requests, r, s, approver, "primary")
        /\ events' = EventDone(t)
        /\ ReleaseTick(t)
        /\ UNCHANGED <<policy, visibility, revision, actions, autoApproved, posts,
                       boundVars, cleared>>

\* processSubmissionApproved: publish to the plan's active destinations until
\* one fails.  What the submission has become since it was approved is not asked.
FinishPublishing(t) ==
    LET s == ClaimedSubmission(t)
        plan == choosePublishingPlan(policy, seen[t].visibility)
    IN  /\ Handling(t, "approved")
        /\ Targets(plan) # {}
        /\ posts' = [posts EXCEPT ![s] =
                        [d \in ActiveDestinations |->
                            @[d] + IF d \in PublishedTypes(plan) THEN 1 ELSE 0]]
        /\ status' = [status EXCEPT ![s] =
                        IF FailingTargets(plan) = {} THEN "published" ELSE "publish_failed"]
        /\ events' = EventDone(t)
        /\ ReleaseTick(t)
        /\ UNCHANGED <<policy, visibility, revision, requests, actions, autoApproved,
                       boundVars, cleared>>

\* The handler throws (no approver, no destination, a failed query or
\* notification): ROLLBACK, and the event is free again until MarkEventFailed.
HandlerThrows(t) ==
    /\ phase[t] = "handling"
    /\ phase' = [phase EXCEPT ![t] = "failing"]
    /\ UNCHANGED <<policy, rowVars, claimed, seen, boundVars, cleared>>

\* Mutants: the error is not stored; the event is left to the next tick.
MarkEventDone(t) ==
    /\ phase[t] = "failing"
    /\ ~Locked(claimed[t])
    /\ events' = [events EXCEPT ![claimed[t]].state = "done"]
    /\ ReleaseTick(t)
    /\ UNCHANGED <<policy, status, visibility, revision, requests, actions,
                   autoApproved, posts, boundVars, cleared>>
LeaveEventPending(t) ==
    /\ phase[t] = "failing"
    /\ ReleaseTick(t)
    /\ UNCHANGED <<policy, rowVars, boundVars, cleared>>

\* A transaction of its own, which says nothing of what the event has become.
MarkEventFailed(t) ==
    /\ phase[t] = "failing"
    /\ ~Locked(claimed[t])
    /\ events' = [events EXCEPT ![claimed[t]].state = "failed"]
    /\ ReleaseTick(t)
    /\ UNCHANGED <<policy, status, visibility, revision, requests, actions,
                   autoApproved, posts, boundVars, cleared>>

\* A crash, a failed COMMIT or a failed MarkEventFailed: nothing is written.
Interrupt(t) ==
    /\ phase[t] # "idle"
    /\ interruptions < MaxInterruptions
    /\ interruptions' = interruptions + 1
    /\ ReleaseTick(t)
    /\ UNCHANGED <<policy, rowVars, retries, cleared>>

-----------------------------------------------------------------------------
Member ==
    \/ \E s \in Submissions, v \in Visibilities : Create(s, v) \/ Resubmit(s, v)
    \/ \E r \in RequestIds, u \in Users :
          \/ Approve(r, u)
          \/ ApproveFirstStage(r, u)
          \/ \E a \in {"reject", "request_changes"} : SendBack(r, u, a)
    \/ \E e \in EventIds : RetryWorkflowEvent(e)
    \/ UpdateWorkflowPolicy

Finish(t) ==
    \/ \E review \in Reviews : \/ FinishWithAutoApproval(t, review)
                               \/ FinishWithReviewRequest(t, review)
    \/ FinishPublishing(t)
    \/ HandlerThrows(t)

Worker(t) ==
    \/ \E e \in EventIds : Claim(t, e)
    \/ Finish(t)
    \/ MarkEventFailed(t)

Next ==
    \/ Member
    \/ \E t \in Ticks : Worker(t) \/ Interrupt(t)

Spec == Init /\ [][Next]_vars

\* setInterval keeps calling tick, and every query of a tick returns or fails.
Fairness == \A t \in Ticks : WF_vars(Worker(t))

FairSpec == Spec /\ Fairness

-----------------------------------------------------------------------------
(* Properties.                                                              *)

\* The tables stay well-formed: a claimed event exists, a request belongs to a
\* created submission, counters stay in their bounds.
TypeOK ==
    /\ policy \in Policies
    /\ status \in [Submissions -> Statuses]
    /\ visibility \in [Submissions -> Visibilities]
    /\ revision \in [Submissions -> 0..MaxRevision]
    /\ requests \in [RequestIds -> Request \cup {NoRow}]
    /\ actions \subseteq Action
    /\ autoApproved \subseteq Submissions
    /\ events \in [EventIds -> Event \cup {NoRow}]
    /\ posts \in [Submissions -> [ActiveDestinations -> Nat]]
    /\ phase \in [Ticks -> {"idle", "handling", "failing"}]
    /\ claimed \in [Ticks -> EventIds \cup {NoRow}]
    /\ \A t \in Ticks :
          phase[t] # "idle" => claimed[t] # NoRow /\ events[claimed[t]] # NoRow
    /\ seen \in [Ticks -> Snapshot]
    /\ retries \in Nat
    /\ interruptions \in Nat
    /\ cleared \in [Submissions -> SUBSET (0..MaxRevision)]

EventOf(e, s, name) ==
    events[e] # NoRow /\ events[e].submission = s /\ events[e].name = name
RequestOf(r, s) == requests[r] # NoRow /\ requests[r].submission = s

\* Whatever retries, stale ticks and repeated decisions do, an item that reads
\* "received" still has a created event that is pending or listed as failed.
ReceivedHasWork ==
    \A s \in Submissions : status[s] = "received" =>
        \E e \in EventIds : EventOf(e, s, "created") /\ events[e].state # "done"

\* An item under human review is never missing from the approval queue, which
\* lists pending requests only: the status and the request move together.
ReviewHasRequest ==
    \A s \in Submissions : status[s] = "needs_human_review" =>
        \E r \in RequestIds : RequestOf(r, s) /\ requests[r].state = "pending"

\* An approved item still has an approved event to publish it, or one listed as
\* failed that an operator can retry: approval is never lost to a race.
ApprovedHasWork ==
    \A s \in Submissions : status[s] = "approved_internal" =>
        \E e \in EventIds : EventOf(e, s, "approved") /\ events[e].state # "done"

\* Nothing reaches the feed unless the auto-approval rule released the item or a
\* reviewer entitled to decide one of its requests approved it.
PostsAreReleased ==
    \A s \in Submissions : Published(s) =>
        \/ s \in autoApproved
        \/ \E a \in actions :
              /\ a.action = "approve"
              /\ RequestOf(a.request, s)
              /\ MayActOn(a.user, requests[a.request].approverRole, TeamOf[s])

\* "published" is only said of an item that some destination shows.
PublishedIsLive == \A s \in Submissions : status[s] = "published" => Published(s)

\* A second-stage request exists only where a first-stage request of the same
\* item was approved; no other decision opens the second stage.
SecondStageFollowsFirst ==
    \A r \in RequestIds :
        requests[r] # NoRow /\ requests[r].stage = "secondary" =>
            \E a \in actions :
                /\ a.action = "approve"
                /\ RequestOf(a.request, requests[r].submission)
                /\ requests[a.request].stage = "primary"

\* Publishing twice takes a second approval or an operator's retry: ticks that
\* overlap, handlers that throw and ticks cut short never repeat a post.
RepeatedPostsAreAsked ==
    \A s \in Submissions, d \in ActiveDestinations :
        posts[s][d] <= retries + Cardinality({e \in EventIds :
                           EventOf(e, s, "approved") /\ events[e].state # "pending"})

\* PublicationPromise: an approval or a retry owes one publication, and each posts at
\* most once and in one step, however the ticks overlap, throw, are cut short or mark a
\* failure late; only a publication that posted something says "published".
Owed(s) ==
    {e \in EventIds : EventOf(e, s, "approved") /\ events[e].state = "pending"}
Paid(s) ==
    {e \in EventIds : EventOf(e, s, "approved") /\ events[e].state # "pending"}
Promise == INSTANCE PublicationPromise WITH
    Items <- Submissions, Destinations <- ActiveDestinations, Tickets <- EventIds,
    owed <- [s \in Submissions |-> Owed(s)],
    paid <- [s \in Submissions |-> Paid(s)],
    shown <- posts,
    said <- {s \in Submissions : status[s] = "published"}
PublishesAsPromised == Promise!Spec

\* The worker gets to every received item: it is reviewed, or its event is listed
\* as failed for an operator.
ReceivedIsHandled ==
    \A s \in Submissions :
        status[s] = "received" ~>
            \/ status[s] # "received"
            \/ \E e \in EventIds : EventOf(e, s, "created") /\ events[e].state = "failed"

\* The worker gets to every approved item: it is published, or the failure shows
\* in its status or in a failed event.
ApprovedIsHandled ==
    \A s \in Submissions :
        status[s] = "approved_internal" ~>
            \/ status[s] # "approved_internal"
            \/ \E e \in EventIds : EventOf(e, s, "approved") /\ events[e].state = "failed"

-----------------------------------------------------------------------------
(* What the product says of a decision; the code does not keep these.       *)

\* The e-mail of a rejection: the item will not be published in its current form.
RejectedIsNotPublished ==
    [][\A s \in Submissions : status[s] = "rejected" => posts'[s] = posts[s]]_vars

\* The plan's rule for public posting: the text a public item shows on the feed is
\* one that a reviewer, or the auto-approval rule, approved.
PublicPostsAreApproved ==
    \A s \in Submissions :
        Published(s) /\ visibility[s] = "public" => revision[s] \in cleared[s]

=============================================================================
