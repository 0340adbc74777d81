---------------------------- MODULE MobileClient -----------------------------
(* The mobile app as a reviewer uses it (App.js): a queue that is polled, a detail
   sheet filled by whichever answer comes last, and performReviewAction, which goes
   on over many answers while the reviewer does other things.

   The club's other reviewers and the worker change the same submissions, and the
   server takes any decision on any request that exists, decided or not: what it
   does to texts and statuses is SubmissionWorkflow's, here is what the app reads
   of it.  Each handler runs to its next await in one step. *)
EXTENDS Naturals, FiniteSets

CONSTANTS
    Items,          \* submissions
    Nothing,        \* null
    Decisions,      \* "approve", "request_changes", "reject"
    Attempts,       \* reads of the detail before waitForPublishedSubmission's last
    MaxRequests,    \* bound: approval requests, of all items
    MaxLoads,       \* bound: detail answers on their way
    MaxPolls,       \* bound: queue answers on their way
    MaxFailures     \* bound: calls that fail

ASSUME ClientAssumption ==
    /\ Nothing \notin Items
    /\ Decisions \subseteq {"approve", "request_changes", "reject"} /\ "approve" \in Decisions
    /\ Attempts \in Nat
    /\ {MaxRequests, MaxLoads, MaxPolls, MaxFailures} \subseteq Nat

VARIABLES
    requests,   \* the server's approval requests, in the order of created_at
    approved,   \* submissions with an event to publish them
    posted,     \* submissions with a published post
    role,       \* the device's role
    view,       \* whether the Review tab is on
    queue,      \* the queue shown
    polls,      \* queue answers on their way
    shown,      \* the submission in the detail sheet, as it was read
    loading,    \* loadingDetail, which all loads share
    loads,      \* detail answers on their way
    draft,      \* the action chosen in the sheet
    act,        \* performReviewAction in progress
    last,       \* the detail the card "Last approved" keeps
    failures    \* calls that failed so far

server == <<requests, approved, posted>>
sheet == <<shown, loading, loads, draft>>
screen == <<role, view, queue, polls>>
vars == <<server, screen, sheet, act, last, failures>>

\* "decided" stands for approved, rejected and changes_requested, which the app only
\* words differently.
States == {"pending", "decided"}
NoRequest == [item |-> Nothing, state |-> "none"]
Row == [item : Items, state : States]

\* What the app looks at in a submission's detail: its latest request and its post.
Snapshot == [id : Items, request : 0 .. MaxRequests, state : States \cup {"none"},
             posted : BOOLEAN]
NoAct == [step |-> "none"]
Actions(steps, of) == [step : steps, tries : 0 .. Attempts, id : Items, request : of,
                       decision : Decisions]

TypeOK ==
    /\ requests \in [1 .. MaxRequests -> Row \cup {NoRequest}]
    /\ approved \subseteq Items /\ posted \subseteq Items
    /\ role \in {"submitter", "reviewer"} /\ view \in {"review", "other"}
    /\ queue \subseteq Items
    /\ polls \subseteq SUBSET Items
    /\ shown \in Snapshot \cup {Nothing}
    /\ loading \in BOOLEAN
    /\ loads \subseteq [answer : Snapshot, resets : BOOLEAN]
    /\ draft \in Decisions
    /\ act \in {NoAct} \cup Actions({"post"}, 1 .. MaxRequests)
           \cup Actions({"done", "failed", "wait", "queue", "next"}, {0})
    /\ last \in Snapshot \cup {Nothing}
    /\ failures \in 0 .. MaxFailures

RequestsOf(i) == {r \in 1 .. MaxRequests : requests[r].item = i}
IsLatest(r, i) == r \in RequestsOf(i) /\ \A q \in RequestsOf(i) : q <= r

\* ORDER BY created_at DESC LIMIT 1, 0 if there is none.
Latest(i) == IF \E r \in 1 .. MaxRequests : IsLatest(r, i)
             THEN CHOOSE r \in 1 .. MaxRequests : IsLatest(r, i)
             ELSE 0

Detail(i) ==
    LET r == Latest(i)
    IN  [id |-> i, request |-> r, state |-> IF r = 0 THEN "none" ELSE requests[r].state,
         posted |-> i \in posted]
PendingItems == {i \in Items : \E r \in RequestsOf(i) : requests[r].state = "pending"}

Init ==
    /\ requests = [r \in 1 .. MaxRequests |-> NoRequest]
    /\ approved = {} /\ posted = {}
    /\ role = "submitter" /\ view = "other"
    /\ queue = {} /\ polls = {}
    /\ shown = Nothing /\ loading = FALSE /\ loads = {} /\ draft = "approve"
    /\ act = NoAct /\ last = Nothing /\ failures = 0

-----------------------------------------------------------------------------
(* The server and the others. *)

\* created_at is when the inserting transaction began: a row may come before others.
Inserted(rows, i, into) ==
    \E r \in 1 .. MaxRequests :
        rows[r] = NoRequest /\ into = [rows EXCEPT ![r] = [item |-> i, state |-> "pending"]]

\* Mutant: a new review opens the item's last request again.
AskAgain(i) ==
    /\ \/ RequestsOf(i) = {} /\ Inserted(requests, i, requests')
       \/ RequestsOf(i) # {} /\ requests' = [requests EXCEPT ![Latest(i)].state = "pending"]
    /\ UNCHANGED <<approved, posted>>

\* The worker, of a created, resubmitted or retried event.
Ask(i) ==
    /\ Inserted(requests, i, requests')
    /\ UNCHANGED <<approved, posted>>

AutoApprove(i) ==
    /\ approved' = approved \cup {i}
    /\ UNCHANGED <<requests, posted>>

Decided(r) == [requests EXCEPT ![r].state = "decided"]

\* A decision on a request, whatever its state and the item's status: an approval
\* has the item published or asks a second reviewer.
Decide(r, decision) ==
    /\ requests[r] # NoRequest
    /\ \/ /\ requests' = Decided(r)
          /\ approved' = IF decision = "approve" THEN approved \cup {requests[r].item}
                         ELSE approved
       \/ /\ decision = "approve"
          /\ Inserted(Decided(r), requests[r].item, requests')
          /\ UNCHANGED approved
    /\ UNCHANGED posted

\* Now, or again when an operator retries the event.
Publish(i) ==
    /\ i \in approved
    /\ posted' = posted \cup {i}
    /\ UNCHANGED <<requests, approved>>

Others ==
    /\ \/ \E i \in Items : Ask(i) \/ AutoApprove(i) \/ Publish(i)
       \/ \E r \in 1 .. MaxRequests, d \in Decisions : Decide(r, d)
    /\ UNCHANGED <<screen, sheet, act, last, failures>>

Fails == failures < MaxFailures /\ failures' = failures + 1

-----------------------------------------------------------------------------
(* The queue. *)

\* Mutant: no timer in the Review tab.
loadReviewQueueOnce ==
    /\ role = "reviewer" /\ view # "review"
    /\ Cardinality(polls) < MaxPolls
    /\ polls' = polls \cup {PendingItems}
    /\ UNCHANGED <<server, sheet, role, view, queue, act, last, failures>>

\* By the timer while the Review tab is on, by the Refresh button, and on other tabs
\* each time the effect runs, which the reviewer's taps make it do as often as they
\* like: the server answers, and the answer is on its way.
loadReviewQueue ==
    /\ role = "reviewer"
    /\ Cardinality(polls) < MaxPolls
    /\ polls' = polls \cup {PendingItems}
    /\ UNCHANGED <<server, sheet, role, view, queue, act, last, failures>>

QueueArrives(answer) ==
    /\ answer \in polls
    /\ polls' = polls \ {answer}
    /\ \/ queue' = answer /\ UNCHANGED failures
       \/ Fails /\ UNCHANGED queue
    /\ UNCHANGED <<server, sheet, role, view, act, last>>

-----------------------------------------------------------------------------
(* The detail sheet, a modal that covers tabs, queue and settings. *)

ReviewPanelVisible ==
    /\ view = "review" /\ role = "reviewer"
    /\ shown # Nothing /\ ~loading
    /\ shown.state = "pending"

\* openReviewItem, or a tap on a status card or a notification, which leaves the
\* draft alone. The server answers, and the answer is on its way.
loadSubmissionDetail(i) ==
    /\ shown = Nothing
    /\ view = "review" => i \in queue
    /\ Cardinality(loads) < MaxLoads
    /\ loading' = TRUE
    /\ loads' = loads \cup {[answer |-> Detail(i), resets |-> view = "review"]}
    /\ UNCHANGED <<server, screen, shown, draft, act, last, failures>>

DetailArrives(load) ==
    /\ load \in loads
    /\ loads' = loads \ {load}
    /\ loading' = FALSE
    /\ draft' = IF load.resets THEN "approve" ELSE draft
    /\ \/ shown' = load.answer /\ UNCHANGED failures
       \/ Fails /\ UNCHANGED shown
    /\ UNCHANGED <<server, screen, act, last>>

CloseDetail ==
    /\ shown # Nothing
    /\ shown' = Nothing
    /\ UNCHANGED <<server, screen, loading, loads, draft, act, last, failures>>

\* The sheet shows the detail the card keeps, as it was read then.
OpenLastApproved ==
    /\ view = "review" /\ shown = Nothing /\ last # Nothing
    /\ shown' = last
    /\ UNCHANGED <<server, screen, loading, loads, draft, act, last, failures>>

selectReviewAction(decision) ==
    /\ ReviewPanelVisible
    /\ draft' = decision
    /\ UNCHANGED <<server, screen, shown, loading, loads, act, last, failures>>

-----------------------------------------------------------------------------
(* performReviewAction, await by await. *)

\* submitReviewAction: the button is off while an action is in progress.
submitReviewAction ==
    /\ ReviewPanelVisible /\ shown.request # 0
    /\ act = NoAct
    /\ act' = [step |-> "post", tries |-> 0, id |-> shown.id, request |-> shown.request,
               decision |-> draft]
    /\ UNCHANGED <<server, screen, sheet, last, failures>>

\* Once answered the request is not looked at any more.
Goes(step) == act' = [act EXCEPT !.step = step, !.request = 0]

\* POST /approval-requests/:id/actions, on the request the sheet showed at the tap.
ServerTakes ==
    /\ act.step = "post"
    /\ Decide(act.request, act.decision)
    /\ Goes("done")
    /\ UNCHANGED <<screen, sheet, last, failures>>

\* The server refuses, for who acts or for want of a second approver, or the call
\* is lost, and nothing was decided; or the answer is lost, and it was.
ActionFails ==
    /\ act.step \in {"post", "done"}
    /\ Fails
    /\ Goes("failed")
    /\ UNCHANGED <<server, screen, sheet, last>>

\* The finally block.
ActionOver ==
    /\ act.step = "failed"
    /\ act' = NoAct
    /\ UNCHANGED <<server, screen, sheet, last, failures>>

\* Mutant: the card shows what was approved before it is known to be published.
RefreshesShowing ==
    /\ act.step = "done"
    /\ last' = IF act.decision = "approve" THEN Detail(act.id) ELSE Nothing
    /\ Goes(IF act.decision = "approve" THEN "wait" ELSE "queue")
    /\ UNCHANGED <<server, screen, sheet, failures>>

\* The answer is here; refreshStatusFeed, which never throws, is awaited.
Refreshes ==
    /\ act.step = "done"
    /\ last' = IF act.decision = "approve" THEN last ELSE Nothing
    /\ Goes(IF act.decision = "approve" THEN "wait" ELSE "queue")
    /\ UNCHANGED <<server, screen, sheet, failures>>

\* Mutant: one read too many.
waitForPublishedOnceMore ==
    /\ act.step = "wait"
    /\ act.id \notin posted
    /\ IF act.tries <= Attempts THEN act' = [act EXCEPT !.tries = @ + 1]
                                ELSE Goes("queue")
    /\ UNCHANGED <<server, screen, sheet, last, failures>>

\* Reads until there is a post, which the status "published" comes with.
waitForPublishedSubmission ==
    /\ act.step = "wait"
    /\ \/ /\ act.id \in posted
          /\ last' = Detail(act.id)
          /\ Goes("queue")
          /\ UNCHANGED failures
       \/ /\ act.id \notin posted
          /\ IF act.tries < Attempts THEN act' = [act EXCEPT !.tries = @ + 1]
                                     ELSE Goes("queue")
          /\ UNCHANGED <<last, failures>>
       \/ /\ Fails
          /\ Goes("queue")
          /\ UNCHANGED last
    /\ UNCHANGED <<server, screen, sheet>>

\* The next item, another one if there is one, or "Queue is clear", which is also
\* what a failed read comes to.
NextItem ==
    /\ act.step = "queue"
    /\ \/ /\ PendingItems # {}
          /\ queue' = PendingItems
          /\ \E i \in PendingItems :
                 /\ PendingItems # {act.id} => i # act.id
                 /\ act' = [act EXCEPT !.step = "next", !.id = i]
          /\ loading' = TRUE
          /\ UNCHANGED <<shown, failures>>
       \/ /\ \/ PendingItems = {} /\ queue' = {} /\ UNCHANGED failures
             \/ Fails /\ UNCHANGED queue
          /\ act' = NoAct
          /\ shown' = Nothing
          /\ UNCHANGED loading
    /\ UNCHANGED <<server, role, view, polls, loads, draft, last>>

\* Its detail, read now, replaces whatever the sheet shows by now.
ShowNextItem ==
    /\ act.step = "next"
    /\ \/ shown' = Detail(act.id) /\ UNCHANGED failures
       \/ Fails /\ UNCHANGED shown
    /\ loading' = FALSE
    /\ draft' = "approve"
    /\ act' = NoAct
    /\ UNCHANGED <<server, screen, loads, last>>

-----------------------------------------------------------------------------
(* Tabs and settings. *)

setActiveView(v) ==
    /\ shown = Nothing /\ view # v
    /\ v = "review" => role = "reviewer"
    /\ view' = v
    /\ UNCHANGED <<server, sheet, role, queue, polls, act, last, failures>>

\* Back in the submitter's role, an effect leaves the Review tab and clears what
\* it showed; from another tab it leaves everything.
setRoleMode(r) ==
    /\ shown = Nothing /\ role # r
    /\ role' = r
    /\ IF view = "review"
       THEN view' = "other" /\ queue' = {} /\ last' = Nothing /\ draft' = "approve"
       ELSE UNCHANGED <<view, queue, last, draft>>
    /\ UNCHANGED <<server, polls, shown, loading, loads, act, failures>>

-----------------------------------------------------------------------------
Reviewer ==
    \/ \E i \in Items : loadSubmissionDetail(i)
    \/ CloseDetail \/ OpenLastApproved \/ submitReviewAction
    \/ \E d \in Decisions : selectReviewAction(d)
    \/ \E v \in {"review", "other"} : setActiveView(v)
    \/ \E r \in {"submitter", "reviewer"} : setRoleMode(r)

Action ==
    \/ ServerTakes \/ ActionFails \/ ActionOver \/ Refreshes
    \/ waitForPublishedSubmission \/ NextItem \/ ShowNextItem

QueueAnswers == \E answer \in polls : QueueArrives(answer)
DetailAnswers == \E load \in loads : DetailArrives(load)

Next == Others \/ Reviewer \/ loadReviewQueue \/ QueueAnswers \/ DetailAnswers \/ Action

Spec == Init /\ [][Next]_vars

\* While the Review tab is on the timer goes on polling, and a call is answered or
\* fails.
FairSpec ==
    /\ Spec
    /\ WF_vars(view = "review" /\ loadReviewQueue)
    /\ \A answer \in SUBSET Items : WF_vars(QueueArrives(answer))

-----------------------------------------------------------------------------
\* A detail is as old as its read, but what it says is over is over: a request it
\* shows as decided, and so without a panel, is not open again, the request it
\* shows is the item's own, and a post it shows exists.
StillTrue(s) ==
    /\ s.posted => s.id \in posted
    /\ s.request # 0 => /\ requests[s.request].item = s.id
                        /\ s.state # "pending" => requests[s.request].state # "pending"

\* All details in the app are true in that way, in the sheet, on their way or kept
\* by the card, whichever answer came last and whoever decided meanwhile, also on
\* requests decided before; and the card "Last approved" tells of posts that are
\* published (QA_CHECKLIST.md), though the item may be sent back by now.
WhatIsOverStaysOver ==
    /\ shown # Nothing => StillTrue(shown)
    /\ \A load \in loads : StillTrue(load.answer)
    /\ last # Nothing => StillTrue(last) /\ last.posted
    /\ act.step = "post" => requests[act.request].item = act.id

\* An item that waits for a decision while the Review tab stays on is listed there
\* from some time on, although polls overlap with each other and with the read at
\* the end of a decision, answers come in any order, and some fail.
PendingIsListed ==
    \A i \in Items :
        <>[](view = "review" /\ i \in PendingItems) => <>[](i \in queue)

=============================================================================
