---------------------- MODULE SubmissionWorkflowProofs ----------------------
(***************************************************************************)
(* Theorems about SubmissionWorkflow, for any submissions, policies,       *)
(* memberships, reviews and any number of overlapping ticks.               *)
(***************************************************************************)
EXTENDS SubmissionWorkflow, TLAPS

-----------------------------------------------------------------------------
(* Who gets a request.                                                      *)

\* Among rows of the table the first holder of a role chain is a user with a
\* reviewer role, or nobody.
LEMMA FirstHolderType ==
    ASSUME NEW candidates \in SUBSET Memberships, NEW preferred \in ReviewerRoles
    PROVE  FirstHolder(candidates, preferred) \in Approver \cup {Null}
<1> DEFINE roles == FallbackRoles(preferred)
           held == {i \in DOMAIN roles : \E m \in candidates : m.role = roles[i]}
           first == CHOOSE i \in held : \A j \in held : i <= j
           rows == {m \in candidates : m.role = roles[first]}
<1>1. CASE held = {}
  BY <1>1 DEF FirstHolder
<1>2. CASE held # {}
  <2>1. held \in SUBSET {1, 2, 3}
    BY DEF FallbackRoles
  <2>2. \E i \in held : \A j \in held : i <= j
    BY <1>2, <2>1
  <2>3. first \in held
    BY <2>2
  <2>4. roles[first] \in ReviewerRoles
    BY <2>1, <2>3 DEF FallbackRoles, ReviewerRoles
  <2>5. rows # {} /\ rows \in SUBSET Memberships
    BY <2>3
  <2>6. Oldest(rows) \in rows
    BY <2>5, MembershipAssumption DEF Oldest
  <2>7. [user |-> Oldest(rows).user, role |-> roles[first]] \in Approver
    BY <2>4, <2>5, <2>6 DEF Approver, Users
  <2> QED
    BY <1>2, <2>7 DEF FirstHolder
<1> QED
  BY <1>1, <1>2

\* The worker's first-stage approver.
LEMMA FirstStageApproverType ==
    ASSUME NEW preferred \in ReviewerRoles
    PROVE  findApprover(preferred) \in Approver \cup {Null}
BY FirstHolderType DEF findApprover

\* The API's second-stage approver.
LEMMA SecondStageApproverType ==
    ASSUME NEW preferred \in ReviewerRoles, NEW team
    PROVE  findApprovalStageApprover(preferred, team) \in Approver \cup {Null}
<1>1. {m \in Memberships : InScope(m, team)} \in SUBSET Memberships
  OBVIOUS
<1> QED
  BY <1>1, FirstHolderType DEF findApprovalStageApprover

-----------------------------------------------------------------------------
(* Rows.                                                                    *)

\* An INSERT of an event keeps the table well-formed.
LEMMA WithEventType ==
    ASSUME NEW table \in [EventIds -> Event \cup {NoRow}], NEW e \in EventIds,
           NEW s \in Submissions, NEW name \in {"created", "approved"}
    PROVE  WithEvent(table, e, s, name) \in [EventIds -> Event \cup {NoRow}]
BY NoRowAssumption DEF WithEvent, Event

\* An INSERT of a request for an approver found keeps the table well-formed.
LEMMA WithRequestType ==
    ASSUME NEW table \in [RequestIds -> Request \cup {NoRow}], NEW r \in RequestIds,
           NEW s \in Submissions, NEW approver \in Approver,
           NEW stage \in {"primary", "secondary"}
    PROVE  WithRequest(table, r, s, approver, stage) \in [RequestIds -> Request \cup {NoRow}]
BY DEF WithRequest, Request, Approver

\* Recording a decision keeps the table well-formed.
LEMMA DecidedType ==
    ASSUME requests \in [RequestIds -> Request \cup {NoRow}], NEW r \in RequestIds,
           requests[r] # NoRow, NEW a \in {"approve", "reject", "request_changes"}
    PROVE  Decided(r, a) \in [RequestIds -> Request \cup {NoRow}]
<1>1. stateMap[a] \in {"approved", "rejected", "changes_requested"}
  BY DEF stateMap
<1>2. requests[r] \in Request
  OBVIOUS
<1>3. [requests[r] EXCEPT !.state = stateMap[a]] \in Request
  BY <1>1, <1>2 DEF Request
<1> QED
  BY <1>3 DEF Decided

\* A member who may act on a request is a user of the directory.
LEMMA ActorIsUser ==
    ASSUME NEW user, NEW role, NEW team, MayActOn(user, role, team)
    PROVE  user \in Users
BY DEF MayActOn, Users

-----------------------------------------------------------------------------
(* Type correctness.                                                        *)

\* The initial tables are well-formed.
LEMMA InitTypeOK == Init => TypeOK
BY WorkflowAssumption, NoRowAssumption DEF Init, TypeOK, Statuses, Visibilities, Snapshot

\* What an approval action may be recorded with.
LEMMA RecordActionType ==
    ASSUME TypeOK, NEW r \in RequestIds, NEW user \in Users,
           NEW a \in {"approve", "reject", "request_changes"}, RecordAction(r, user, a)
    PROVE  /\ requests[r] \in Request
           /\ requests[r].submission \in Submissions
           /\ actions' \subseteq Action
BY DEF TypeOK, RecordAction, Request, Action

\* The submission a tick works on.
LEMMA HandledType ==
    ASSUME TypeOK, NEW t \in Ticks, phase[t] # "idle"
    PROVE  /\ claimed[t] \in EventIds
           /\ events[claimed[t]] \in Event
           /\ ClaimedSubmission(t) \in Submissions
BY DEF TypeOK, Event, ClaimedSubmission

\* Changing only the state of an event keeps the table well-formed.
LEMMA EventStateType ==
    ASSUME events \in [EventIds -> Event \cup {NoRow}], NEW e \in EventIds,
           events[e] \in Event, NEW st \in {"pending", "done", "failed"}
    PROVE  [events EXCEPT ![e].state = st] \in [EventIds -> Event \cup {NoRow}]
<1>1. [events[e] EXCEPT !.state = st] \in Event
  BY DEF Event
<1> QED
  BY <1>1

\* Freeing a tick keeps the ticks well-formed.
LEMMA ReleaseTickType ==
    ASSUME TypeOK, NEW t \in Ticks, ReleaseTick(t)
    PROVE  /\ phase' \in [Ticks -> {"idle", "handling", "failing"}]
           /\ claimed' \in [Ticks -> EventIds \cup {NoRow}]
           /\ seen' \in [Ticks -> Snapshot]
           /\ \A u \in Ticks : phase'[u] # "idle" =>
                 /\ u # t
                 /\ phase'[u] = phase[u]
                 /\ claimed'[u] = claimed[u]
BY WorkflowAssumption DEF TypeOK, ReleaseTick, Snapshot, Visibilities

\* Every step of the system keeps the tables well-formed.
LEMMA NextTypeOK == TypeOK /\ [Next]_vars => TypeOK'
<1> SUFFICES ASSUME TypeOK, [Next]_vars
             PROVE  TypeOK'
  OBVIOUS
<1> USE NoRowAssumption
<1>1. ASSUME NEW s \in Submissions, NEW v \in Visibilities, Create(s, v)
      PROVE  TypeOK'
  <2>1. PICK e \in EventIds : events[e] = NoRow /\ events' = WithEvent(events, e, s, "created")
    BY <1>1 DEF Create
  <2>2. events' \in [EventIds -> Event \cup {NoRow}]
    BY <2>1, WithEventType DEF TypeOK
  <2>3. \A f \in EventIds : events[f] # NoRow => events'[f] # NoRow
    BY <2>1 DEF WithEvent, TypeOK
  <2> QED
    BY <1>1, <2>2, <2>3, WorkflowAssumption
    DEF Create, TypeOK, tickVars, boundVars, Statuses
<1>2. ASSUME NEW s \in Submissions, NEW v \in Visibilities, Resubmit(s, v)
      PROVE  TypeOK'
  <2>1. PICK e \in EventIds : events[e] = NoRow /\ events' = WithEvent(events, e, s, "created")
    BY <1>2 DEF Resubmit
  <2>2. events' \in [EventIds -> Event \cup {NoRow}]
    BY <2>1, WithEventType DEF TypeOK
  <2>3. \A f \in EventIds : events[f] # NoRow => events'[f] # NoRow
    BY <2>1 DEF WithEvent, TypeOK
  <2> QED
    BY <1>2, <2>2, <2>3, WorkflowAssumption
    DEF Resubmit, TypeOK, tickVars, boundVars, Statuses
<1>3. ASSUME NEW r \in RequestIds, NEW u \in Users, Approve(r, u)
      PROVE  TypeOK'
  <2> DEFINE s == requests[r].submission
  <2>1. requests[r] # NoRow /\ s \in Submissions /\ actions' \subseteq Action
    BY <1>3, RecordActionType DEF Approve, RecordAction
  <2>2. PICK e \in EventIds : events[e] = NoRow /\ events' = WithEvent(events, e, s, "approved")
    BY <1>3 DEF Approve
  <2>3. events' \in [EventIds -> Event \cup {NoRow}]
    BY <2>1, <2>2, WithEventType DEF TypeOK
  <2>4. \A f \in EventIds : events[f] # NoRow => events'[f] # NoRow
    BY <2>2 DEF WithEvent, TypeOK
  <2>5. requests' \in [RequestIds -> Request \cup {NoRow}]
    BY <1>3, <2>1, DecidedType DEF Approve, TypeOK
  <2>6. status' \in [Submissions -> Statuses]
    BY <1>3, <2>1 DEF Approve, TypeOK, Statuses, submissionStatusMap
  <2>7. cleared' \in [Submissions -> SUBSET (0..MaxRevision)]
    BY <1>3, <2>1 DEF Approve, TypeOK
  <2> QED
    BY <1>3, <2>1, <2>3, <2>4, <2>5, <2>6, <2>7
    DEF Approve, TypeOK, tickVars, boundVars
<1>4. ASSUME NEW r \in RequestIds, NEW u \in Users, ApproveFirstStage(r, u)
      PROVE  TypeOK'
  <2> DEFINE s == requests[r].submission
             approver == findApprovalStageApprover(secondApproverRole(policy), TeamOf[s])
  <2>1. requests[r] # NoRow /\ s \in Submissions /\ actions' \subseteq Action
    BY <1>4, RecordActionType DEF ApproveFirstStage, RecordAction
  <2>2. approver \in Approver
    BY <1>4, SecondStageApproverType, WorkflowAssumption DEF ApproveFirstStage, TypeOK
  <2>3. Decided(r, "approve") \in [RequestIds -> Request \cup {NoRow}]
    BY <2>1, DecidedType DEF TypeOK
  <2>4. requests' \in [RequestIds -> Request \cup {NoRow}]
    BY <1>4, <2>1, <2>2, <2>3, WithRequestType DEF ApproveFirstStage
  <2> QED
    BY <1>4, <2>1, <2>4 DEF ApproveFirstStage, TypeOK, tickVars, boundVars, Statuses
<1>5. ASSUME NEW r \in RequestIds, NEW u \in Users,
             NEW a \in {"reject", "request_changes"}, SendBack(r, u, a)
      PROVE  TypeOK'
  <2> DEFINE s == requests[r].submission
  <2>1. requests[r] # NoRow /\ s \in Submissions /\ actions' \subseteq Action
    BY <1>5, RecordActionType DEF SendBack, RecordAction
  <2>2. requests' \in [RequestIds -> Request \cup {NoRow}]
    BY <1>5, <2>1, DecidedType DEF SendBack, TypeOK
  <2>3. submissionStatusMap[a] \in Statuses
    BY DEF submissionStatusMap, Statuses
  <2> QED
    BY <1>5, <2>1, <2>2, <2>3 DEF SendBack, TypeOK, tickVars, boundVars
<1>6. ASSUME NEW e \in EventIds, RetryWorkflowEvent(e)
      PROVE  TypeOK'
  <2>1. events' \in [EventIds -> Event \cup {NoRow}]
    BY <1>6, EventStateType DEF RetryWorkflowEvent, TypeOK
  <2>2. \A f \in EventIds : events[f] # NoRow => events'[f] # NoRow
    BY <1>6, EventStateType DEF RetryWorkflowEvent, TypeOK, Event
  <2> QED
    BY <1>6, <2>1, <2>2 DEF RetryWorkflowEvent, TypeOK, tickVars
<1>7. CASE UpdateWorkflowPolicy
  BY <1>7 DEF UpdateWorkflowPolicy, TypeOK, rowVars, tickVars, boundVars
<1>8. ASSUME NEW t \in Ticks, NEW e \in EventIds, Claim(t, e)
      PROVE  TypeOK'
  <2>1. events[e] \in Event /\ events[e].submission \in Submissions
    BY <1>8 DEF Claim, TypeOK, Event
  <2> QED
    BY <1>8, <2>1 DEF Claim, TypeOK, rowVars, boundVars, Snapshot
<1>9. ASSUME NEW t \in Ticks, NEW review \in Reviews, FinishWithAutoApproval(t, review)
      PROVE  TypeOK'
  <2> DEFINE s == ClaimedSubmission(t)
  <2>1. claimed[t] \in EventIds /\ events[claimed[t]] \in Event /\ s \in Submissions
    BY <1>9, HandledType DEF FinishWithAutoApproval, Handling
  <2>2. EventDone(t) \in [EventIds -> Event \cup {NoRow}]
    BY <2>1, EventStateType DEF TypeOK, EventDone
  <2>3. PICK e \in EventIds : /\ events[e] = NoRow
                              /\ events' = WithEvent(EventDone(t), e, s, "approved")
    BY <1>9 DEF FinishWithAutoApproval
  <2>4. events' \in [EventIds -> Event \cup {NoRow}]
    BY <2>1, <2>2, <2>3, WithEventType
  <2>5. \A f \in EventIds : events[f] # NoRow => events'[f] # NoRow
    BY <2>1, <2>2, <2>3 DEF WithEvent, EventDone, TypeOK, Event
  <2>6. ReleaseTick(t)
    BY <1>9 DEF FinishWithAutoApproval
  <2>7. seen[t].revision \in 0..MaxRevision
    BY DEF TypeOK, Snapshot
  <2>8. cleared' \in [Submissions -> SUBSET (0..MaxRevision)]
    BY <1>9, <2>1, <2>7 DEF FinishWithAutoApproval, TypeOK
  <2>9. /\ autoApproved' \subseteq Submissions
        /\ status' \in [Submissions -> Statuses]
    BY <1>9, <2>1 DEF FinishWithAutoApproval, TypeOK, Statuses
  <2> QED
    BY <1>9, <2>4, <2>5, <2>6, <2>8, <2>9, ReleaseTickType
    DEF FinishWithAutoApproval, TypeOK, boundVars
<1>10. ASSUME NEW t \in Ticks, NEW review \in Reviews, FinishWithReviewRequest(t, review)
       PROVE  TypeOK'
  <2> DEFINE s == ClaimedSubmission(t)
             role == chooseRoutingDecision(policy, seen[t].visibility, review, ContentTypeOf[s])
             approver == findApprover(role)
  <2>1. claimed[t] \in EventIds /\ events[claimed[t]] \in Event /\ s \in Submissions
    BY <1>10, HandledType DEF FinishWithReviewRequest, Handling
  <2>2. events' \in [EventIds -> Event \cup {NoRow}]
    BY <1>10, <2>1, EventStateType DEF TypeOK, EventDone, FinishWithReviewRequest
  <2>3. \A f \in EventIds : events[f] # NoRow => events'[f] # NoRow
    BY <1>10, <2>1, <2>2 DEF FinishWithReviewRequest, EventDone, TypeOK, Event
  <2>4. ReleaseTick(t)
    BY <1>10 DEF FinishWithReviewRequest
  <2>5. seen[t].visibility \in Visibilities /\ policy \in Policies /\ ContentTypeOf[s] \in ContentTypes
    BY <2>1, WorkflowAssumption DEF TypeOK, Snapshot
  <2>6. role \in ReviewerRoles
    BY <2>5, WorkflowAssumption
  <2>7. approver \in Approver
    BY <1>10, <2>6, FirstStageApproverType DEF FinishWithReviewRequest
  <2>8. requests' \in [RequestIds -> Request \cup {NoRow}]
    BY <1>10, <2>1, <2>7, WithRequestType DEF FinishWithReviewRequest, TypeOK
  <2>9. status' \in [Submissions -> Statuses]
    BY <1>10, <2>1 DEF FinishWithReviewRequest, TypeOK, Statuses
  <2> QED
    BY <1>10, <2>2, <2>3, <2>4, <2>8, <2>9, ReleaseTickType
    DEF FinishWithReviewRequest, TypeOK, boundVars
<1>11. ASSUME NEW t \in Ticks, FinishPublishing(t)
       PROVE  TypeOK'
  <2> DEFINE s == ClaimedSubmission(t)
  <2>1. claimed[t] \in EventIds /\ events[claimed[t]] \in Event /\ s \in Submissions
    BY <1>11, HandledType DEF FinishPublishing, Handling
  <2>2. events' \in [EventIds -> Event \cup {NoRow}]
    BY <1>11, <2>1, EventStateType DEF TypeOK, EventDone, FinishPublishing
  <2>3. \A f \in EventIds : events[f] # NoRow => events'[f] # NoRow
    BY <1>11, <2>1, <2>2 DEF FinishPublishing, EventDone, TypeOK, Event
  <2>4. ReleaseTick(t)
    BY <1>11 DEF FinishPublishing
  <2>5. posts' \in [Submissions -> [ActiveDestinations -> Nat]]
    BY <1>11, <2>1 DEF FinishPublishing, TypeOK
  <2>6. status' \in [Submissions -> Statuses]
    BY <1>11, <2>1 DEF FinishPublishing, TypeOK, Statuses
  <2> QED
    BY <1>11, <2>2, <2>3, <2>4, <2>5, <2>6, ReleaseTickType
    DEF FinishPublishing, TypeOK, boundVars
<1>12. ASSUME NEW t \in Ticks, HandlerThrows(t)
       PROVE  TypeOK'
  BY <1>12 DEF HandlerThrows, TypeOK, rowVars, boundVars
<1>13. ASSUME NEW t \in Ticks, MarkEventFailed(t)
       PROVE  TypeOK'
  <2>1. claimed[t] \in EventIds /\ events[claimed[t]] \in Event
    BY <1>13, HandledType DEF MarkEventFailed
  <2>2. events' \in [EventIds -> Event \cup {NoRow}]
    BY <1>13, <2>1, EventStateType DEF TypeOK, MarkEventFailed
  <2>3. \A f \in EventIds : events[f] # NoRow => events'[f] # NoRow
    BY <1>13, <2>1, <2>2 DEF MarkEventFailed, TypeOK, Event
  <2>4. ReleaseTick(t)
    BY <1>13 DEF MarkEventFailed
  <2> QED
    BY <1>13, <2>2, <2>3, <2>4, ReleaseTickType DEF MarkEventFailed, TypeOK, boundVars
<1>14. ASSUME NEW t \in Ticks, Interrupt(t)
       PROVE  TypeOK'
  <2>1. ReleaseTick(t)
    BY <1>14 DEF Interrupt
  <2> QED
    BY <1>14, <2>1, ReleaseTickType DEF Interrupt, TypeOK, rowVars
<1>15. CASE UNCHANGED vars
  BY <1>15 DEF TypeOK, vars, rowVars, tickVars, boundVars
<1> QED
  BY <1>1, <1>2, <1>3, <1>4, <1>5, <1>6, <1>7, <1>8, <1>9, <1>10, <1>11, <1>12,
     <1>13, <1>14, <1>15 DEF Next, Member, Worker, Finish

\* The tables stay well-formed in every behaviour.
THEOREM TypeCorrect == Spec => []TypeOK
<1>1. Init => TypeOK
  BY InitTypeOK
<1>2. TypeOK /\ [Next]_vars => TypeOK'
  BY NextTypeOK
<1> QED
  BY <1>1, <1>2, PTL DEF Spec

-----------------------------------------------------------------------------
(* Nothing is stranded: each unfinished status has a row that moves it on.  *)

\* A step that inserts an event keeps the others, and the new one is pending.
LEMMA InsertedEvent ==
    ASSUME NEW table \in [EventIds -> Event \cup {NoRow}], NEW e \in EventIds,
           NEW s \in Submissions, NEW name \in {"created", "approved"}
    PROVE  LET after == WithEvent(table, e, s, name) IN
           /\ after[e] # NoRow
           /\ after[e].submission = s /\ after[e].name = name
           /\ after[e].state = "pending"
           /\ \A f \in EventIds : f # e => after[f] = table[f]
BY NoRowAssumption DEF WithEvent, Event

\* Work(s, name): a row that the worker or an operator can still act on.
Work(s, name) ==
    \E e \in EventIds : EventOf(e, s, name) /\ events[e].state # "done"

\* The three ways a tick commits the handler of the event it claimed.
Commits(t) ==
    \/ \E review \in Reviews : \/ FinishWithAutoApproval(t, review)
                               \/ FinishWithReviewRequest(t, review)
    \/ FinishPublishing(t)

\* Such an event stays until a tick commits the handler of one.
LEMMA WorkStays ==
    ASSUME TypeOK, [Next]_vars, NEW s \in Submissions, NEW name \in {"created", "approved"},
           Work(s, name),
           \A t \in Ticks : Handling(t, name) /\ ClaimedSubmission(t) = s => ~Commits(t)
    PROVE  Work(s, name)'
<1> USE NoRowAssumption DEF EventOf
<1>1. PICK e \in EventIds : EventOf(e, s, name) /\ events[e].state # "done"
  BY DEF Work
<1>2. events[e] \in Event
  BY <1>1 DEF TypeOK
<1> SUFFICES EventOf(e, s, name)' /\ events'[e].state # "done"
  BY DEF Work
<1>3. ASSUME NEW f \in EventIds, NEW x \in Submissions, NEW n \in {"created", "approved"},
             events[f] = NoRow, events' = WithEvent(events, f, x, n)
      PROVE  EventOf(e, s, name)' /\ events'[e].state # "done"
  <2>1. events'[e] = events[e]
    BY <1>1, <1>3 DEF WithEvent, TypeOK
  <2> QED
    BY <1>1, <2>1
<1>4. ASSUME NEW f \in EventIds, NEW st \in {"pending", "failed"}, events[f] # NoRow,
             events' = [events EXCEPT ![f].state = st]
      PROVE  EventOf(e, s, name)' /\ events'[e].state # "done"
  <2>1. events[f] \in Event
    BY <1>4 DEF TypeOK
  <2>2. CASE f = e
    <3>1. events'[e] = [events[e] EXCEPT !.state = st]
      BY <1>4, <2>2 DEF TypeOK
    <3>2. /\ events'[e] \in Event
          /\ events'[e].submission = events[e].submission
          /\ events'[e].name = events[e].name
          /\ events'[e].state = st
      BY <1>2, <3>1 DEF Event
    <3> QED
      BY <1>1, <3>2
  <2>3. CASE f # e
    BY <1>1, <1>4, <2>1, <2>3 DEF TypeOK
  <2> QED
    BY <2>2, <2>3
<1>5. CASE events' = events
  BY <1>1, <1>5
<1>6. ASSUME NEW t \in Ticks, Commits(t)
      PROVE  EventOf(e, s, name)' /\ events'[e].state # "done"
  <2>1. phase[t] = "handling"
    BY <1>6 DEF Commits, FinishWithAutoApproval, FinishWithReviewRequest, FinishPublishing,
       Handling
  <2>2. claimed[t] \in EventIds /\ events[claimed[t]] \in Event /\ ClaimedSubmission(t) \in Submissions
    BY <2>1, HandledType
  <2>3. claimed[t] # e
    BY <1>1, <1>6, <2>1 DEF Handling, ClaimedSubmission
  <2>4. EventDone(t) \in [EventIds -> Event \cup {NoRow}] /\ EventDone(t)[e] = events[e]
    <3>1. EventDone(t) \in [EventIds -> Event \cup {NoRow}]
      BY <2>2, EventStateType DEF EventDone, TypeOK
    <3>2. EventDone(t)[e] = events[e]
      BY <2>2, <2>3 DEF EventDone, TypeOK
    <3> QED
      BY <3>1, <3>2
  <2>5. events'[e] = events[e]
    <3>1. CASE events' = EventDone(t)
      BY <2>4, <3>1
    <3>2. ASSUME NEW f \in EventIds, events[f] = NoRow,
                 events' = WithEvent(EventDone(t), f, ClaimedSubmission(t), "approved")
          PROVE  events'[e] = events[e]
      <4>1. f # e
        BY <1>1, <3>2
      <4> QED
        BY <2>4, <3>2, <4>1 DEF WithEvent
    <3> QED
      BY <1>6, <3>1, <3>2
      DEF Commits, FinishWithAutoApproval, FinishWithReviewRequest, FinishPublishing
  <2> QED
    BY <1>1, <2>5
<1>7. ASSUME NEW x \in Submissions, NEW v \in Visibilities, Create(x, v) \/ Resubmit(x, v)
      PROVE  EventOf(e, s, name)' /\ events'[e].state # "done"
  BY <1>3, <1>7 DEF Create, Resubmit
<1>8. ASSUME NEW r \in RequestIds, NEW u \in Users, Approve(r, u)
      PROVE  EventOf(e, s, name)' /\ events'[e].state # "done"
  <2>1. requests[r].submission \in Submissions
    BY <1>8, RecordActionType DEF Approve
  <2> QED
    BY <1>3, <1>8, <2>1 DEF Approve
<1>9. ASSUME NEW r \in RequestIds, NEW u \in Users,
             \/ ApproveFirstStage(r, u)
             \/ \E a \in {"reject", "request_changes"} : SendBack(r, u, a)
      PROVE  events' = events
  BY <1>9 DEF ApproveFirstStage, SendBack
<1>10. ASSUME NEW f \in EventIds, RetryWorkflowEvent(f)
       PROVE  EventOf(e, s, name)' /\ events'[e].state # "done"
  BY <1>4, <1>10 DEF RetryWorkflowEvent
<1>11. ASSUME NEW t \in Ticks, MarkEventFailed(t)
       PROVE  EventOf(e, s, name)' /\ events'[e].state # "done"
  <2>1. claimed[t] \in EventIds /\ events[claimed[t]] # NoRow
    BY <1>11 DEF MarkEventFailed, TypeOK
  <2> QED
    BY <1>4, <1>11, <2>1 DEF MarkEventFailed
<1>12. ASSUME NEW t \in Ticks,
              (\E f \in EventIds : Claim(t, f)) \/ HandlerThrows(t) \/ Interrupt(t)
       PROVE  events' = events
  BY <1>12 DEF Claim, HandlerThrows, Interrupt, rowVars
<1>13. CASE UpdateWorkflowPolicy \/ UNCHANGED vars
  BY <1>5, <1>13 DEF UpdateWorkflowPolicy, vars, rowVars
<1> QED
  BY <1>5, <1>6, <1>7, <1>8, <1>9, <1>10, <1>11, <1>12, <1>13
  DEF Next, Member, Worker, Finish, Commits

\* Which steps give an item a new status, and which one.
LEMMA StatusChanges ==
    ASSUME TypeOK, [Next]_vars, NEW s \in Submissions, status'[s] # status[s]
    PROVE  \/ \E v \in Visibilities : Create(s, v) \/ Resubmit(s, v)
           \/ \E r \in RequestIds, u \in Users :
                 /\ requests[r].submission = s
                 /\ \/ Approve(r, u)
                    \/ ApproveFirstStage(r, u)
                    \/ \E a \in {"reject", "request_changes"} : SendBack(r, u, a)
           \/ \E t \in Ticks : ClaimedSubmission(t) = s /\ Commits(t)
<1>1. ASSUME NEW x \in Submissions, NEW v \in Visibilities, Create(x, v) \/ Resubmit(x, v)
      PROVE  x = s
  BY <1>1 DEF Create, Resubmit, TypeOK
<1>2. ASSUME NEW r \in RequestIds, NEW u \in Users,
             \/ Approve(r, u)
             \/ ApproveFirstStage(r, u)
             \/ \E a \in {"reject", "request_changes"} : SendBack(r, u, a)
      PROVE  requests[r].submission = s
  BY <1>2 DEF Approve, ApproveFirstStage, SendBack, TypeOK
<1>3. ASSUME NEW t \in Ticks, Commits(t)
      PROVE  ClaimedSubmission(t) = s
  BY <1>3 DEF Commits, FinishWithAutoApproval, FinishWithReviewRequest, FinishPublishing, TypeOK
<1>4. ASSUME NEW e \in EventIds, RetryWorkflowEvent(e)
      PROVE  FALSE
  BY <1>4 DEF RetryWorkflowEvent
<1>5. ASSUME NEW t \in Ticks,
             \/ \E f \in EventIds : Claim(t, f)
             \/ HandlerThrows(t)
             \/ MarkEventFailed(t)
             \/ Interrupt(t)
      PROVE  FALSE
  BY <1>5 DEF Claim, HandlerThrows, MarkEventFailed, Interrupt, rowVars
<1>6. CASE UpdateWorkflowPolicy \/ UNCHANGED vars
  BY <1>6 DEF UpdateWorkflowPolicy, vars, rowVars
<1> QED
  BY <1>1, <1>2, <1>3, <1>4, <1>5, <1>6 DEF Next, Member, Worker, Finish, Commits

\* Received items keep their work: the steps that make an item "received" insert a
\* created event, and committing the handler of one moves the item on.
LEMMA ReceivedStep == TypeOK /\ ReceivedHasWork /\ [Next]_vars => ReceivedHasWork'
<1> SUFFICES ASSUME TypeOK, ReceivedHasWork, [Next]_vars,
                    NEW s \in Submissions, status'[s] = "received"
             PROVE  Work(s, "created")'
  BY DEF ReceivedHasWork, Work
<1>1. CASE status[s] = "received"
  <2>1. Work(s, "created")
    BY <1>1 DEF ReceivedHasWork, Work
  <2>2. ASSUME NEW t \in Ticks, Handling(t, "created"), ClaimedSubmission(t) = s, Commits(t)
        PROVE  FALSE
    BY <2>2 DEF Commits, FinishWithAutoApproval, FinishWithReviewRequest, FinishPublishing,
       TypeOK
  <2> QED
    BY <2>1, <2>2, WorkStays
<1>2. CASE status[s] # "received"
  <2>1. PICK v \in Visibilities : Create(s, v) \/ Resubmit(s, v)
    <3>1. ASSUME NEW r \in RequestIds, NEW u \in Users, requests[r].submission = s,
                 \/ Approve(r, u)
                 \/ ApproveFirstStage(r, u)
                 \/ \E a \in {"reject", "request_changes"} : SendBack(r, u, a)
          PROVE  FALSE
      BY <3>1 DEF Approve, ApproveFirstStage, SendBack, submissionStatusMap, TypeOK
    <3>2. ASSUME NEW t \in Ticks, ClaimedSubmission(t) = s, Commits(t)
          PROVE  FALSE
      BY <3>2 DEF Commits, FinishWithAutoApproval, FinishWithReviewRequest,
         FinishPublishing, TypeOK
    <3> QED
      BY <1>2, <3>1, <3>2, StatusChanges
  <2>2. PICK e \in EventIds : events[e] = NoRow /\ events' = WithEvent(events, e, s, "created")
    BY <2>1 DEF Create, Resubmit
  <2>3. events \in [EventIds -> Event \cup {NoRow}]
    BY DEF TypeOK
  <2> QED
    BY <2>2, <2>3, InsertedEvent DEF Work, EventOf
<1> QED
  BY <1>1, <1>2

\* Approved items keep theirs: approving inserts an approved event, and committing
\* the handler of one publishes the item or records the failure.
LEMMA ApprovedStep == TypeOK /\ ApprovedHasWork /\ [Next]_vars => ApprovedHasWork'
<1> SUFFICES ASSUME TypeOK, ApprovedHasWork, [Next]_vars,
                    NEW s \in Submissions, status'[s] = "approved_internal"
             PROVE  Work(s, "approved")'
  BY DEF ApprovedHasWork, Work
<1>1. ASSUME NEW t \in Ticks, NEW review \in Reviews, ClaimedSubmission(t) = s,
             FinishWithAutoApproval(t, review)
      PROVE  Work(s, "approved")'
  <2>1. claimed[t] \in EventIds /\ events[claimed[t]] \in Event
    BY <1>1, HandledType DEF FinishWithAutoApproval, Handling
  <2>2. EventDone(t) \in [EventIds -> Event \cup {NoRow}]
    BY <2>1, EventStateType DEF EventDone, TypeOK
  <2>3. PICK e \in EventIds : events' = WithEvent(EventDone(t), e, s, "approved")
    BY <1>1 DEF FinishWithAutoApproval
  <2> QED
    BY <2>2, <2>3, InsertedEvent DEF Work, EventOf
<1>2. ASSUME NEW t \in Ticks, ClaimedSubmission(t) = s,
             \/ \E review \in Reviews : FinishWithReviewRequest(t, review)
             \/ FinishPublishing(t)
      PROVE  FALSE
  BY <1>2 DEF FinishWithReviewRequest, FinishPublishing, TypeOK
<1>3. CASE status[s] = "approved_internal"
  <2>1. Work(s, "approved")
    BY <1>3 DEF ApprovedHasWork, Work
  <2>2. CASE \E t \in Ticks : ClaimedSubmission(t) = s /\ Commits(t)
    BY <1>1, <1>2, <2>2 DEF Commits
  <2>3. CASE ~\E t \in Ticks : ClaimedSubmission(t) = s /\ Commits(t)
    BY <2>1, <2>3, WorkStays
  <2> QED
    BY <2>2, <2>3
<1>4. CASE status[s] # "approved_internal"
  <2>1. ASSUME NEW v \in Visibilities, Create(s, v) \/ Resubmit(s, v)
        PROVE  FALSE
    BY <2>1 DEF Create, Resubmit, TypeOK
  <2>2. ASSUME NEW r \in RequestIds, NEW u \in Users, requests[r].submission = s,
               \/ ApproveFirstStage(r, u)
               \/ \E a \in {"reject", "request_changes"} : SendBack(r, u, a)
        PROVE  FALSE
    BY <2>2 DEF ApproveFirstStage, SendBack, submissionStatusMap, TypeOK
  <2>3. ASSUME NEW r \in RequestIds, NEW u \in Users, requests[r].submission = s, Approve(r, u)
        PROVE  Work(s, "approved")'
    <3>1. PICK e \in EventIds : events' = WithEvent(events, e, s, "approved")
      BY <2>3 DEF Approve
    <3>2. events \in [EventIds -> Event \cup {NoRow}]
      BY DEF TypeOK
    <3> QED
      BY <3>1, <3>2, InsertedEvent DEF Work, EventOf
  <2> QED
    BY <1>1, <1>2, <1>4, <2>1, <2>2, <2>3, StatusChanges DEF Commits
<1> QED
  BY <1>3, <1>4

\* No received item is ever without a created event that is pending or failed,
\* however ticks overlap, throw, are cut short or are retried.
THEOREM ReceivedNeverLost == Spec => []ReceivedHasWork
<1>1. Init => ReceivedHasWork
  BY DEF Init, ReceivedHasWork
<1> QED
  BY <1>1, ReceivedStep, TypeCorrect, PTL DEF Spec

\* No approved item is ever without an approved event that is pending or failed.
THEOREM ApprovedNeverLost == Spec => []ApprovedHasWork
<1>1. Init => ApprovedHasWork
  BY DEF Init, ApprovedHasWork
<1> QED
  BY <1>1, ApprovedStep, TypeCorrect, PTL DEF Spec

-----------------------------------------------------------------------------
(* The approval queue.                                                      *)

\* A row inserted into approval_requests is pending and displaces no other.
LEMMA InsertedRequest ==
    ASSUME NEW table \in [RequestIds -> Request \cup {NoRow}], NEW r \in RequestIds,
           NEW s \in Submissions, NEW approver \in Approver,
           NEW stage \in {"primary", "secondary"}, NEW after,
           after = WithRequest(table, r, s, approver, stage)
    PROVE  /\ after[r] # NoRow
           /\ after[r].submission = s
           /\ after[r].stage = stage
           /\ after[r].state = "pending"
           /\ \A q \in RequestIds : q # r => after[q] = table[q]
<1>1. after[r] \in Request
  BY DEF WithRequest, Request, Approver
<1> QED
  BY <1>1, NoRowAssumption DEF WithRequest

\* A decision changes the state of its request and nothing else.
LEMMA DecidedRequest ==
    ASSUME requests \in [RequestIds -> Request \cup {NoRow}], NEW r \in RequestIds,
           requests[r] # NoRow, NEW a \in {"approve", "reject", "request_changes"}
    PROVE  /\ Decided(r, a)[r] \in Request
           /\ Decided(r, a)[r].submission = requests[r].submission
           /\ Decided(r, a)[r].approverRole = requests[r].approverRole
           /\ Decided(r, a)[r].stage = requests[r].stage
           /\ \A q \in RequestIds : q # r => Decided(r, a)[q] = requests[q]
<1>1. Decided(r, a)[r] = [requests[r] EXCEPT !.state = stateMap[a]]
  BY DEF Decided
<1>2. stateMap[a] \in {"approved", "rejected", "changes_requested"}
  BY DEF stateMap
<1> QED
  BY <1>1, <1>2 DEF Request, Decided

\* The second-stage approver of a first-stage approval exists.
LEMMA SecondStageRow ==
    ASSUME TypeOK, NEW r \in RequestIds, NEW u \in Users, ApproveFirstStage(r, u)
    PROVE  \E r2 \in RequestIds, approver \in Approver :
              /\ requests[r2] = NoRow
              /\ requests' = WithRequest(Decided(r, "approve"), r2,
                                         requests[r].submission, approver, "secondary")
<1>1. policy \in Policies
  BY DEF TypeOK
<1> QED
  BY <1>1, SecondStageApproverType, WorkflowAssumption DEF ApproveFirstStage

\* The first-stage approver of a reviewed submission exists.
LEMMA FirstStageRow ==
    ASSUME TypeOK, NEW t \in Ticks, NEW review \in Reviews, FinishWithReviewRequest(t, review)
    PROVE  /\ ClaimedSubmission(t) \in Submissions
           /\ \E r \in RequestIds, approver \in Approver :
                 /\ requests[r] = NoRow
                 /\ requests' = WithRequest(requests, r, ClaimedSubmission(t), approver,
                                            "primary")
<1>1. ClaimedSubmission(t) \in Submissions
  BY HandledType DEF FinishWithReviewRequest, Handling
<1>2. /\ policy \in Policies
      /\ seen[t].visibility \in Visibilities
      /\ ContentTypeOf[ClaimedSubmission(t)] \in ContentTypes
  BY <1>1, WorkflowAssumption DEF TypeOK, Snapshot
<1>3. chooseRoutingDecision(policy, seen[t].visibility, review,
                            ContentTypeOf[ClaimedSubmission(t)]) \in ReviewerRoles
  BY <1>2, WorkflowAssumption
<1> QED
  BY <1>1, <1>3, FirstStageApproverType DEF FinishWithReviewRequest

\* How a step changes the table: not at all, one decision, one decision and the
\* request for the second stage, or one request for the first stage.
LEMMA RequestChanges ==
    ASSUME TypeOK, [Next]_vars
    PROVE  \/ requests' = requests
           \/ \E r \in RequestIds, u \in Users :
                 \/ Approve(r, u)
                 \/ ApproveFirstStage(r, u)
                 \/ \E a \in {"reject", "request_changes"} : SendBack(r, u, a)
           \/ \E t \in Ticks, review \in Reviews : FinishWithReviewRequest(t, review)
BY DEF Next, Member, Worker, Finish, vars, rowVars, Create, Resubmit, RetryWorkflowEvent,
   UpdateWorkflowPolicy, Claim, FinishWithAutoApproval, FinishPublishing, HandlerThrows,
   MarkEventFailed, Interrupt

\* Requests are never deleted, and keep their submission, role and stage.
LEMMA RequestsStay ==
    ASSUME TypeOK, [Next]_vars, NEW q \in RequestIds, requests[q] # NoRow
    PROVE  /\ requests'[q] # NoRow
           /\ requests'[q].submission = requests[q].submission
           /\ requests'[q].approverRole = requests[q].approverRole
           /\ requests'[q].stage = requests[q].stage
<1> DEFINE Same(table) == /\ table[q] # NoRow
                          /\ table[q].submission = requests[q].submission
                          /\ table[q].approverRole = requests[q].approverRole
                          /\ table[q].stage = requests[q].stage
<1>1. ASSUME NEW r \in RequestIds, NEW a \in {"approve", "reject", "request_changes"},
             requests[r] # NoRow
      PROVE  Same(Decided(r, a))
  BY <1>1, DecidedRequest, NoRowAssumption DEF TypeOK
<1>2. ASSUME NEW r \in RequestIds, NEW u \in Users,
             \/ Approve(r, u)
             \/ \E a \in {"reject", "request_changes"} : SendBack(r, u, a)
      PROVE  Same(requests')
  BY <1>1, <1>2 DEF Approve, SendBack, RecordAction
<1>3. ASSUME NEW r \in RequestIds, NEW u \in Users, ApproveFirstStage(r, u)
      PROVE  Same(requests')
  <2>1. PICK r2 \in RequestIds, approver \in Approver :
              /\ requests[r2] = NoRow
              /\ requests' = WithRequest(Decided(r, "approve"), r2,
                                         requests[r].submission, approver, "secondary")
    BY <1>3, SecondStageRow
  <2>2. Same(Decided(r, "approve"))
    BY <1>1, <1>3 DEF ApproveFirstStage, RecordAction
  <2>3. Decided(r, "approve") \in [RequestIds -> Request \cup {NoRow}]
    BY <1>3, DecidedType DEF ApproveFirstStage, RecordAction, TypeOK
  <2>4. requests'[q] = Decided(r, "approve")[q]
    BY <2>1, <2>3 DEF WithRequest
  <2> QED
    BY <2>2, <2>4
<1>4. ASSUME NEW t \in Ticks, NEW review \in Reviews, FinishWithReviewRequest(t, review)
      PROVE  Same(requests')
  BY <1>4, FirstStageRow DEF WithRequest, TypeOK
<1> QED
  BY <1>2, <1>3, <1>4, RequestChanges

\* The item is listed in the approval queue.
Queued(s) == \E r \in RequestIds : RequestOf(r, s) /\ requests[r].state = "pending"

\* Opening the second stage puts the item back into the queue.
LEMMA SecondStageQueues ==
    ASSUME TypeOK, NEW r \in RequestIds, NEW u \in Users, ApproveFirstStage(r, u),
           NEW s \in Submissions, requests[r].submission = s
    PROVE  Queued(s)'
<1>1. Decided(r, "approve") \in [RequestIds -> Request \cup {NoRow}]
  BY DecidedType DEF ApproveFirstStage, RecordAction, TypeOK
<1>2. PICK r2 \in RequestIds, approver \in Approver :
         requests' = WithRequest(Decided(r, "approve"), r2, s, approver, "secondary")
  BY SecondStageRow
<1>3. /\ requests'[r2] # NoRow
      /\ requests'[r2].submission = s
      /\ requests'[r2].state = "pending"
  BY <1>1, <1>2, InsertedRequest
<1> QED
  BY <1>3 DEF Queued, RequestOf

\* So does the first-stage request of a reviewed item.
LEMMA FirstStageQueues ==
    ASSUME TypeOK, NEW t \in Ticks, NEW review \in Reviews, FinishWithReviewRequest(t, review),
           NEW s \in Submissions, ClaimedSubmission(t) = s
    PROVE  Queued(s)'
<1>1. PICK r \in RequestIds, approver \in Approver :
         requests' = WithRequest(requests, r, s, approver, "primary")
  BY FirstStageRow
<1>2. requests'[r] # NoRow /\ requests'[r].submission = s /\ requests'[r].state = "pending"
  BY <1>1, InsertedRequest DEF TypeOK
<1> QED
  BY <1>2 DEF Queued, RequestOf

\* An item stays queued until one of its own requests is decided, and leaves the
\* queue only together with the status "needs_human_review".
LEMMA ReviewStep == TypeOK /\ ReviewHasRequest /\ [Next]_vars => ReviewHasRequest'
<1> SUFFICES ASSUME TypeOK, ReviewHasRequest, [Next]_vars,
                    NEW s \in Submissions, status'[s] = "needs_human_review"
             PROVE  Queued(s)'
  BY DEF ReviewHasRequest, Queued
<1>1. ASSUME NEW r \in RequestIds, NEW u \in Users, requests[r].submission = s,
             \/ Approve(r, u)
             \/ \E a \in {"reject", "request_changes"} : SendBack(r, u, a)
      PROVE  FALSE
  BY <1>1 DEF Approve, SendBack, submissionStatusMap, TypeOK
<1>2. CASE status[s] = "needs_human_review"
  <2>1. PICK q \in RequestIds : RequestOf(q, s) /\ requests[q].state = "pending"
    BY <1>2 DEF ReviewHasRequest
  <2>2. CASE requests' = requests
    BY <2>1, <2>2 DEF Queued, RequestOf
  <2>3. ASSUME NEW r \in RequestIds, NEW a \in {"approve", "reject", "request_changes"},
               requests[r] # NoRow, requests[r].submission # s
        PROVE  Decided(r, a)[q] = requests[q]
    BY <2>1, <2>3 DEF Decided, TypeOK, RequestOf
  <2>4. ASSUME NEW r \in RequestIds, NEW u \in Users,
               \/ Approve(r, u)
               \/ \E a \in {"reject", "request_changes"} : SendBack(r, u, a)
        PROVE  requests'[q] = requests[q]
    BY <1>1, <2>3, <2>4 DEF Approve, SendBack, RecordAction
  <2>5. ASSUME NEW r \in RequestIds, NEW u \in Users, ApproveFirstStage(r, u),
               requests[r].submission # s
        PROVE  requests'[q] = requests[q]
    <3>1. PICK r2 \in RequestIds, approver \in Approver :
              /\ requests[r2] = NoRow
              /\ requests' = WithRequest(Decided(r, "approve"), r2,
                                         requests[r].submission, approver, "secondary")
      BY <2>5, SecondStageRow
    <3>2. Decided(r, "approve") \in [RequestIds -> Request \cup {NoRow}]
      BY <2>5, DecidedType DEF ApproveFirstStage, RecordAction, TypeOK
    <3>3. r2 # q
      BY <2>1, <3>1 DEF RequestOf
    <3>4. requests'[q] = Decided(r, "approve")[q]
      BY <3>1, <3>2, <3>3 DEF WithRequest
    <3> QED
      BY <2>3, <2>5, <3>4 DEF ApproveFirstStage, RecordAction
  <2>6. ASSUME NEW t \in Ticks, NEW review \in Reviews, FinishWithReviewRequest(t, review)
        PROVE  requests'[q] = requests[q]
    BY <2>1, <2>6, FirstStageRow DEF WithRequest, TypeOK, RequestOf
  <2> QED
    BY <2>1, <2>2, <2>4, <2>5, <2>6, SecondStageQueues, RequestChanges DEF Queued, RequestOf
<1>3. CASE status[s] # "needs_human_review"
  <2>1. ASSUME NEW v \in Visibilities, Create(s, v) \/ Resubmit(s, v)
        PROVE  FALSE
    BY <2>1 DEF Create, Resubmit, TypeOK
  <2>2. ASSUME NEW t \in Ticks, ClaimedSubmission(t) = s,
               \/ \E review \in Reviews : FinishWithAutoApproval(t, review)
               \/ FinishPublishing(t)
        PROVE  FALSE
    BY <2>2 DEF FinishWithAutoApproval, FinishPublishing, TypeOK
  <2> QED
    BY <1>1, <1>3, <2>1, <2>2, StatusChanges, SecondStageQueues, FirstStageQueues DEF Commits
<1> QED
  BY <1>2, <1>3

\* An item under human review is in the approval queue, in every behaviour.
THEOREM ReviewNeverUnlisted == Spec => []ReviewHasRequest
<1>1. Init => ReviewHasRequest
  BY DEF Init, ReviewHasRequest
<1> QED
  BY <1>1, ReviewStep, TypeCorrect, PTL DEF Spec

\* Recorded decisions are never erased.
LEMMA ActionsGrow == [Next]_vars => actions \subseteq actions'
BY DEF Next, Member, Worker, Finish, vars, rowVars, Create, Resubmit, Approve,
   ApproveFirstStage, SendBack, RecordAction, RetryWorkflowEvent, UpdateWorkflowPolicy,
   Claim, FinishWithAutoApproval, FinishWithReviewRequest, FinishPublishing, HandlerThrows,
   MarkEventFailed, Interrupt

\* Requests of the second stage appear only when a first-stage one is approved.
LEMMA SecondStageStep == TypeOK /\ SecondStageFollowsFirst /\ [Next]_vars => SecondStageFollowsFirst'
<1> SUFFICES ASSUME TypeOK, SecondStageFollowsFirst, [Next]_vars, NEW q \in RequestIds,
                    requests'[q] # NoRow, requests'[q].stage = "secondary"
             PROVE  \E a \in actions' : /\ a.action = "approve"
                                        /\ RequestOf(a.request, requests[q].submission)'
                                        /\ requests'[a.request].stage = "primary"
  BY DEF SecondStageFollowsFirst
<1>1. CASE requests[q] # NoRow
  <2>1. /\ requests[q].stage = "secondary"
        /\ requests'[q].submission = requests[q].submission
    BY <1>1, RequestsStay
  <2>2. PICK a \in actions : /\ a.action = "approve"
                             /\ RequestOf(a.request, requests[q].submission)
                             /\ requests[a.request].stage = "primary"
    BY <1>1, <2>1 DEF SecondStageFollowsFirst
  <2>3. a.request \in RequestIds
    BY DEF TypeOK, Action
  <2>4. a \in actions'
    BY ActionsGrow
  <2> QED
    BY <2>1, <2>2, <2>3, <2>4, RequestsStay DEF RequestOf
<1>2. CASE requests[q] = NoRow
  <2>1. ASSUME NEW r \in RequestIds, NEW u \in Users,
               \/ Approve(r, u)
               \/ \E a \in {"reject", "request_changes"} : SendBack(r, u, a)
        PROVE  FALSE
    BY <1>2, <2>1 DEF Approve, SendBack, RecordAction, Decided, TypeOK
  <2>2. ASSUME NEW t \in Ticks, NEW review \in Reviews, FinishWithReviewRequest(t, review)
        PROVE  FALSE
    <3>1. PICK r \in RequestIds, approver \in Approver :
             requests' = WithRequest(requests, r, ClaimedSubmission(t), approver, "primary")
      BY <2>2, FirstStageRow
    <3>2. ClaimedSubmission(t) \in Submissions
      BY <2>2, FirstStageRow
    <3>3. requests \in [RequestIds -> Request \cup {NoRow}]
      BY DEF TypeOK
    <3>4. requests'[r].stage = "primary" /\ \A p \in RequestIds : p # r => requests'[p] = requests[p]
      BY <3>1, <3>2, <3>3, InsertedRequest
    <3> QED
      BY <1>2, <3>4
  <2>3. ASSUME NEW r \in RequestIds, NEW u \in Users, ApproveFirstStage(r, u)
        PROVE  \E a \in actions' : /\ a.action = "approve"
                                   /\ RequestOf(a.request, requests[q].submission)'
                                   /\ requests'[a.request].stage = "primary"
    <3>1. requests[r] \in Request /\ requests[r] # NoRow
      BY <2>3, RecordActionType DEF ApproveFirstStage, RecordAction
    <3>2. PICK r2 \in RequestIds, approver \in Approver :
              requests' = WithRequest(Decided(r, "approve"), r2,
                                      requests[r].submission, approver, "secondary")
      BY <2>3, SecondStageRow
    <3>3. Decided(r, "approve") \in [RequestIds -> Request \cup {NoRow}]
      BY <3>1, DecidedType DEF TypeOK
    <3>4. requests[r].submission \in Submissions
      BY <3>1 DEF Request
    <3>5. q = r2
      <4>1. Decided(r, "approve")[q] = NoRow
        BY <1>2, <3>1 DEF Decided, TypeOK
      <4> QED
        BY <3>2, <3>3, <3>4, <4>1, InsertedRequest
    <3>6. requests'[q].submission = requests[r].submission
      BY <3>2, <3>3, <3>4, <3>5, InsertedRequest
    <3>7. requests[r].stage = "primary"
      BY <2>3, <3>1 DEF ApproveFirstStage, requiresSecondApproval,
         shouldRequireSecondApprovalForAction, Request
    <3>8. /\ requests'[r] # NoRow
          /\ requests'[r].submission = requests[r].submission
          /\ requests'[r].stage = "primary"
      BY <3>1, <3>7, RequestsStay
    <3> DEFINE a == [request |-> r, user |-> u, action |-> "approve"]
    <3>9. a \in actions'
      BY <2>3 DEF ApproveFirstStage, RecordAction
    <3> QED
      BY <3>6, <3>8, <3>9 DEF RequestOf
  <2> QED
    BY <1>2, <2>1, <2>2, <2>3, RequestChanges
<1> QED
  BY <1>1, <1>2

\* Every second stage was opened by the approval of a first one.
THEOREM SecondStageOrder == Spec => []SecondStageFollowsFirst
<1>1. Init => SecondStageFollowsFirst
  BY DEF Init, SecondStageFollowsFirst
<1> QED
  BY <1>1, SecondStageStep, TypeCorrect, PTL DEF Spec

-----------------------------------------------------------------------------
(* Publishing.                                                              *)

\* What a successful publish adds to the item and leaves of the others.
LEMMA PublishedRows ==
    ASSUME TypeOK, NEW t \in Ticks, FinishPublishing(t), NEW s \in Submissions
    PROVE  /\ \A d \in ActiveDestinations : posts'[s][d] >= posts[s][d]
           /\ posts'[s] # posts[s] => ClaimedSubmission(t) = s
           /\ DOMAIN posts'[s] = ActiveDestinations
<1> DEFINE c == ClaimedSubmission(t)
           plan == choosePublishingPlan(policy, seen[t].visibility)
           new == [d \in ActiveDestinations |->
                      posts[c][d] + IF d \in PublishedTypes(plan) THEN 1 ELSE 0]
<1>1. c \in Submissions
  BY HandledType DEF FinishPublishing, Handling
<1>2. posts' = [posts EXCEPT ![c] = new]
  BY DEF FinishPublishing
<1>3. posts[s] \in [ActiveDestinations -> Nat] /\ posts[c] \in [ActiveDestinations -> Nat]
  BY <1>1 DEF TypeOK
<1>4. CASE s = c
  <2>1. posts'[s] = new
    BY <1>1, <1>2, <1>4 DEF TypeOK
  <2>2. \A d \in ActiveDestinations : posts'[s][d] >= posts[s][d]
    BY <1>3, <1>4, <2>1
  <2> QED
    BY <1>4, <2>1, <2>2
<1>5. CASE s # c
  BY <1>1, <1>2, <1>3, <1>5 DEF TypeOK
<1> QED
  BY <1>4, <1>5

\* Only the handler of an approved event writes posts.
LEMMA PostsChange ==
    ASSUME [Next]_vars, posts' # posts
    PROVE  \E t \in Ticks : FinishPublishing(t)
BY DEF Next, Member, Worker, Finish, vars, rowVars, Create, Resubmit, Approve,
   ApproveFirstStage, SendBack, RetryWorkflowEvent, UpdateWorkflowPolicy,
   Claim, FinishWithAutoApproval, FinishWithReviewRequest, HandlerThrows,
   MarkEventFailed, Interrupt

\* Posts are never withdrawn.
LEMMA PostsGrow ==
    ASSUME TypeOK, [Next]_vars, NEW s \in Submissions, Published(s)
    PROVE  Published(s)'
<1>1. posts[s] \in [ActiveDestinations -> Nat]
  BY DEF TypeOK
<1>2. PICK d \in ActiveDestinations : posts[s][d] > 0
  BY <1>1 DEF Published
<1>3. CASE posts' = posts
  BY <1>3 DEF Published
<1>4. ASSUME NEW t \in Ticks, FinishPublishing(t)
      PROVE  Published(s)'
  <2>1. posts'[s][d] >= posts[s][d] /\ DOMAIN posts'[s] = ActiveDestinations
    BY <1>4, PublishedRows
  <2>2. posts'[s] \in [ActiveDestinations -> Nat]
    BY <1>4, NextTypeOK DEF TypeOK
  <2>3. posts'[s][d] > 0
    BY <1>1, <1>2, <2>1, <2>2
  <2> QED
    BY <2>1, <2>3 DEF Published
<1> QED
  BY <1>3, <1>4, PostsChange

\* A handler that says "published" has written a row.
LEMMA PublishSucceeds ==
    ASSUME TypeOK, NEW t \in Ticks, FinishPublishing(t), NEW s \in Submissions,
           ClaimedSubmission(t) = s, status'[s] = "published"
    PROVE  Published(s)'
<1> DEFINE plan == choosePublishingPlan(policy, seen[t].visibility)
<1>1. FailingTargets(plan) = {} /\ Targets(plan) # {}
  BY DEF FinishPublishing, TypeOK
<1>2. PICK i \in Targets(plan) : TRUE
  BY <1>1
<1>3. plan[i] \in ActiveDestinations /\ plan[i] \in PublishedTypes(plan)
  BY <1>1, <1>2 DEF Targets, PublishedTypes
<1>4. posts[s] \in [ActiveDestinations -> Nat]
  BY DEF TypeOK
<1>5. posts'[s] = [d \in ActiveDestinations |->
                      posts[s][d] + IF d \in PublishedTypes(plan) THEN 1 ELSE 0]
  BY DEF FinishPublishing, TypeOK
<1>6. posts'[s][plan[i]] > 0 /\ plan[i] \in DOMAIN posts'[s]
  BY <1>3, <1>4, <1>5
<1> QED
  BY <1>6 DEF Published

\* "published" is only said together with a row on a destination.
LEMMA PublishedStep == TypeOK /\ PublishedIsLive /\ [Next]_vars => PublishedIsLive'
<1> SUFFICES ASSUME TypeOK, PublishedIsLive, [Next]_vars,
                    NEW s \in Submissions, status'[s] = "published"
             PROVE  Published(s)'
  BY DEF PublishedIsLive
<1>1. CASE status[s] = "published"
  BY <1>1, PostsGrow DEF PublishedIsLive
<1>2. CASE status[s] # "published"
  <2>1. ASSUME NEW v \in Visibilities, Create(s, v) \/ Resubmit(s, v)
        PROVE  FALSE
    BY <2>1 DEF Create, Resubmit, TypeOK
  <2>2. ASSUME NEW r \in RequestIds, NEW u \in Users, requests[r].submission = s,
               \/ Approve(r, u)
               \/ ApproveFirstStage(r, u)
               \/ \E a \in {"reject", "request_changes"} : SendBack(r, u, a)
        PROVE  FALSE
    BY <2>2 DEF Approve, ApproveFirstStage, SendBack, submissionStatusMap, TypeOK
  <2>3. ASSUME NEW t \in Ticks, ClaimedSubmission(t) = s,
               \E review \in Reviews : \/ FinishWithAutoApproval(t, review)
                                       \/ FinishWithReviewRequest(t, review)
        PROVE  FALSE
    BY <2>3 DEF FinishWithAutoApproval, FinishWithReviewRequest, TypeOK
  <2> QED
    BY <1>2, <2>1, <2>2, <2>3, StatusChanges, PublishSucceeds DEF Commits
<1> QED
  BY <1>1, <1>2

\* What reads "published" is on a destination, in every behaviour.
THEOREM PublishedShows == Spec => []PublishedIsLive
<1>1. Init => PublishedIsLive
  BY DEF Init, PublishedIsLive
<1> QED
  BY <1>1, PublishedStep, TypeCorrect, PTL DEF Spec

\* Somebody entitled to approve the item did, or the auto-approval rule did.
Released(s) ==
    \/ s \in autoApproved
    \/ \E a \in actions : /\ a.action = "approve"
                          /\ RequestOf(a.request, s)
                          /\ MayActOn(a.user, requests[a.request].approverRole, TeamOf[s])

\* The strengthening that makes PostsAreReleased inductive: an approved event, which
\* is what a tick publishes from, exists only for a released item.
ApprovedEventsAreReleased ==
    \A e \in EventIds, s \in Submissions : EventOf(e, s, "approved") => Released(s)

\* A release is never taken back.
LEMMA ReleasedStays ==
    ASSUME TypeOK, [Next]_vars, NEW s \in Submissions, Released(s)
    PROVE  Released(s)'
<1>1. autoApproved \subseteq autoApproved'
  BY DEF Next, Member, Worker, Finish, vars, rowVars, Create, Resubmit, Approve,
     ApproveFirstStage, SendBack, RetryWorkflowEvent, UpdateWorkflowPolicy,
     Claim, FinishWithAutoApproval, FinishWithReviewRequest, FinishPublishing, HandlerThrows,
     MarkEventFailed, Interrupt
<1>2. CASE s \in autoApproved
  BY <1>1, <1>2 DEF Released
<1>3. ASSUME NEW a \in actions, a.action = "approve", RequestOf(a.request, s),
             MayActOn(a.user, requests[a.request].approverRole, TeamOf[s])
      PROVE  Released(s)'
  <2>1. a.request \in RequestIds
    BY DEF TypeOK, Action
  <2>2. a \in actions'
    BY ActionsGrow
  <2>3. /\ requests'[a.request] # NoRow
        /\ requests'[a.request].submission = s
        /\ requests'[a.request].approverRole = requests[a.request].approverRole
    BY <1>3, <2>1, RequestsStay DEF RequestOf
  <2> QED
    BY <1>3, <2>2, <2>3 DEF Released, RequestOf
<1> QED
  BY <1>2, <1>3 DEF Released

\* Approving a request releases its item: the approver was entitled to it.
LEMMA ApprovalReleases ==
    ASSUME TypeOK, [Next]_vars, NEW r \in RequestIds, NEW u \in Users, Approve(r, u),
           NEW s \in Submissions, requests[r].submission = s
    PROVE  Released(s)'
<1> DEFINE a == [request |-> r, user |-> u, action |-> "approve"]
<1>1. /\ a \in actions'
      /\ requests[r] # NoRow
      /\ MayActOn(u, requests[r].approverRole, TeamOf[s])
  BY DEF Approve, RecordAction
<1>2. /\ requests'[r] # NoRow
      /\ requests'[r].submission = s
      /\ requests'[r].approverRole = requests[r].approverRole
  BY <1>1, RequestsStay
<1> QED
  BY <1>1, <1>2 DEF Released, RequestOf

\* Changing the state of an event leaves what it says alone.
LEMMA SameEvent ==
    ASSUME events \in [EventIds -> Event \cup {NoRow}], NEW f \in EventIds,
           events[f] \in Event, NEW st \in {"pending", "done", "failed"}, NEW e \in EventIds,
           NEW after, after = [events EXCEPT ![f].state = st]
    PROVE  /\ after[e] # NoRow => events[e] # NoRow
           /\ after[e].submission = events[e].submission
           /\ after[e].name = events[e].name
<1>1. CASE e = f
  <2>1. after[e] = [events[e] EXCEPT !.state = st]
    BY <1>1
  <2> QED
    BY <1>1, <2>1, NoRowAssumption DEF Event
<1>2. CASE e # f
  BY <1>2
<1> QED
  BY <1>1, <1>2

\* An approved event is inserted only by an approval or an auto-approval.
LEMMA ApprovedEventsStep ==
    TypeOK /\ ApprovedEventsAreReleased /\ [Next]_vars => ApprovedEventsAreReleased'
<1> SUFFICES ASSUME TypeOK, ApprovedEventsAreReleased, [Next]_vars,
                    NEW e \in EventIds, NEW s \in Submissions, EventOf(e, s, "approved")'
             PROVE  Released(s)'
  BY DEF ApprovedEventsAreReleased
<1>1. events \in [EventIds -> Event \cup {NoRow}]
  BY DEF TypeOK
<1>2. CASE EventOf(e, s, "approved")
  BY <1>2, ReleasedStays DEF ApprovedEventsAreReleased
<1>3. CASE ~EventOf(e, s, "approved")
  <2>1. ASSUME NEW x \in Submissions, NEW v \in Visibilities, Create(x, v) \/ Resubmit(x, v)
        PROVE  FALSE
    <3>1. PICK f \in EventIds : events' = WithEvent(events, f, x, "created")
      BY <2>1 DEF Create, Resubmit
    <3>2. /\ events'[f].name = "created"
          /\ \A g \in EventIds : g # f => events'[g] = events[g]
      BY <1>1, <3>1, InsertedEvent
    <3> QED
      BY <1>3, <3>2 DEF EventOf
  <2>2. ASSUME NEW r \in RequestIds, NEW u \in Users, Approve(r, u)
        PROVE  Released(s)'
    <3>1. requests[r].submission \in Submissions
      BY <2>2, RecordActionType DEF Approve
    <3>2. PICK f \in EventIds :
             events' = WithEvent(events, f, requests[r].submission, "approved")
      BY <2>2 DEF Approve
    <3>3. /\ events'[f].submission = requests[r].submission
          /\ \A g \in EventIds : g # f => events'[g] = events[g]
      BY <1>1, <3>1, <3>2, InsertedEvent
    <3>4. requests[r].submission = s
      BY <1>3, <3>3 DEF EventOf
    <3> QED
      BY <2>2, <3>4, ApprovalReleases
  <2>3. ASSUME NEW t \in Ticks, NEW review \in Reviews, FinishWithAutoApproval(t, review)
        PROVE  Released(s)'
    <3> DEFINE c == ClaimedSubmission(t)
    <3>1. claimed[t] \in EventIds /\ events[claimed[t]] \in Event /\ c \in Submissions
      BY <2>3, HandledType DEF FinishWithAutoApproval, Handling
    <3>2. EventDone(t) \in [EventIds -> Event \cup {NoRow}]
      BY <1>1, <3>1, EventStateType DEF EventDone
    <3>3. PICK f \in EventIds : events' = WithEvent(EventDone(t), f, c, "approved")
      BY <2>3 DEF FinishWithAutoApproval
    <3>4. /\ events'[f].submission = c
          /\ \A g \in EventIds : g # f => events'[g] = EventDone(t)[g]
      BY <3>1, <3>2, <3>3, InsertedEvent
    <3>5. /\ EventDone(t)[e] # NoRow => events[e] # NoRow
          /\ EventDone(t)[e].submission = events[e].submission
          /\ EventDone(t)[e].name = events[e].name
      <4>1. EventDone(t) = [events EXCEPT ![claimed[t]].state = "done"]
        BY DEF EventDone
      <4> QED
        BY <1>1, <3>1, <4>1, SameEvent
    <3>6. c = s
      BY <1>3, <3>4, <3>5 DEF EventOf
    <3>7. s \in autoApproved'
      BY <2>3, <3>6 DEF FinishWithAutoApproval
    <3> QED
      BY <3>7 DEF Released
  <2>4. ASSUME NEW f \in EventIds, events[f] # NoRow, NEW st \in {"pending", "done", "failed"},
               events' = [events EXCEPT ![f].state = st]
        PROVE  FALSE
    <3>1. events[f] \in Event
      BY <1>1, <2>4
    <3> QED
      BY <1>1, <1>3, <2>4, <3>1, SameEvent DEF EventOf
  <2>5. ASSUME NEW t \in Ticks,
               \/ \E review \in Reviews : FinishWithReviewRequest(t, review)
               \/ FinishPublishing(t)
               \/ MarkEventFailed(t)
        PROVE  FALSE
    <3>1. phase[t] # "idle"
      BY <2>5 DEF FinishWithReviewRequest, FinishPublishing, MarkEventFailed, Handling
    <3>2. claimed[t] \in EventIds /\ events[claimed[t]] # NoRow
      BY <3>1 DEF TypeOK
    <3> QED
      BY <2>4, <2>5, <3>2
      DEF FinishWithReviewRequest, FinishPublishing, MarkEventFailed, EventDone
  <2>6. ASSUME NEW f \in EventIds, RetryWorkflowEvent(f)
        PROVE  FALSE
    BY <2>4, <2>6 DEF RetryWorkflowEvent
  <2>7. CASE events' = events
    BY <1>3, <2>7 DEF EventOf
  <2> QED
    BY <2>1, <2>2, <2>3, <2>5, <2>6, <2>7
    DEF Next, Member, Worker, Finish, ApproveFirstStage, SendBack, UpdateWorkflowPolicy,
        Claim, HandlerThrows, Interrupt, vars, rowVars
<1> QED
  BY <1>2, <1>3

\* A tick publishes from an approved event, so only a released item.
LEMMA PostsStep ==
    TypeOK /\ ApprovedEventsAreReleased /\ PostsAreReleased /\ [Next]_vars => PostsAreReleased'
<1> SUFFICES ASSUME TypeOK, ApprovedEventsAreReleased, PostsAreReleased, [Next]_vars,
                    NEW s \in Submissions, Published(s)'
             PROVE  Released(s)'
  BY DEF PostsAreReleased, Released
<1>1. CASE Published(s)
  BY <1>1, ReleasedStays DEF PostsAreReleased, Released
<1>2. CASE ~Published(s)
  <2>1. posts'[s] # posts[s]
    BY <1>2 DEF Published
  <2>2. PICK t \in Ticks : FinishPublishing(t)
    BY <2>1, PostsChange
  <2>3. ClaimedSubmission(t) = s
    BY <2>1, <2>2, PublishedRows
  <2>4. EventOf(claimed[t], s, "approved") /\ claimed[t] \in EventIds
    BY <2>2, <2>3 DEF FinishPublishing, Handling, ClaimedSubmission, EventOf, TypeOK
  <2> QED
    BY <2>4, ReleasedStays DEF ApprovedEventsAreReleased
<1> QED
  BY <1>1, <1>2

\* Nothing is ever on a destination that was not released.
THEOREM OnlyReleasedIsPosted == Spec => []PostsAreReleased
<1>1. Init => ApprovedEventsAreReleased /\ PostsAreReleased
  BY DEF Init, ApprovedEventsAreReleased, EventOf, PostsAreReleased, Published
<1> QED
  BY <1>1, ApprovedEventsStep, PostsStep, TypeCorrect, PTL DEF Spec

=============================================================================
