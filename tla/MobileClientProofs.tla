------------------------- MODULE MobileClientProofs -------------------------
(* Theorems about MobileClient, for any submissions, decisions and number of
   requests, answers on their way, reads and lost calls. *)
EXTENDS MobileClient, TLAPS

-----------------------------------------------------------------------------
(* The server. *)

Requests == 1 .. MaxRequests
Rows == [Requests -> Row \cup {NoRequest}]

\* What any step may do to a request: once there it stays its item's, and once
\* decided it stays decided.
RowStep(old, new) ==
    old # NoRequest => /\ new.item = old.item
                       /\ old.state = "decided" => new.state = "decided"

\* A row is told from a free one by its item.
LEMMA RowOrFree == \A row \in Row \cup {NoRequest} : row \in Row <=> row # NoRequest
BY ClientAssumption DEF Row, NoRequest

\* A new request takes a free row.
LEMMA InsertedRow ==
    ASSUME NEW rows \in Rows, NEW i \in Items, NEW into, Inserted(rows, i, into)
    PROVE  /\ into \in Rows
           /\ \A r \in Requests : rows[r] # NoRequest => into[r] = rows[r]
<1>1. PICK r \in Requests :
          rows[r] = NoRequest /\ into = [rows EXCEPT ![r] = [item |-> i, state |-> "pending"]]
  BY DEF Inserted, Requests
<1>2. [item |-> i, state |-> "pending"] \in Row
  BY DEF Row, States
<1> QED
  BY <1>1, <1>2 DEF Rows

\* A decided row keeps its item.
LEMMA DecidedRow ==
    ASSUME TypeOK, NEW r \in Requests, requests[r] # NoRequest
    PROVE  /\ Decided(r) \in Rows /\ requests[r].item \in Items
           /\ \A q \in Requests : RowStep(requests[q], Decided(r)[q])
           /\ \A q \in Requests : requests[q] # NoRequest => Decided(r)[q] # NoRequest
<1>1. requests \in Rows /\ requests[r] \in Row
  BY RowOrFree DEF TypeOK, Rows, Requests
<1> DEFINE row == [requests[r] EXCEPT !.state = "decided"]
<1>2. row \in Row /\ row.item = requests[r].item /\ row.state = "decided"
  BY <1>1 DEF Row, States
<1>3. Decided(r) = [requests EXCEPT ![r] = row]
  BY <1>1 DEF Decided, Rows
<1>4. row # NoRequest
  BY <1>2, RowOrFree
<1>5. requests[r].item \in Items
  BY <1>1 DEF Row
<1> HIDE DEF row
<1> QED
  BY <1>1, <1>2, <1>3, <1>4, <1>5 DEF Rows, RowStep

\* What a step leaves of the server.
ServerKept ==
    /\ requests' \in Rows /\ approved' \subseteq Items /\ posted' \subseteq Items
    /\ posted \subseteq posted'
    /\ \A r \in Requests : RowStep(requests[r], requests'[r])

\* Any decision on any request.
LEMMA DecideKeeps ==
    ASSUME TypeOK, NEW r \in Requests, NEW d, Decide(r, d) PROVE ServerKept
<1>1. requests[r] # NoRequest /\ posted' = posted
  BY DEF Decide
<1>2. /\ Decided(r) \in Rows /\ requests[r].item \in Items
      /\ \A q \in Requests : RowStep(requests[q], Decided(r)[q])
      /\ \A q \in Requests : requests[q] # NoRequest => Decided(r)[q] # NoRequest
  BY <1>1, DecidedRow
<1>3. approved' \subseteq Items
  BY <1>2 DEF Decide, TypeOK
<1>4. requests' \in Rows /\ \A q \in Requests : RowStep(requests[q], requests'[q])
  <2>1. CASE requests' = Decided(r)
    BY <1>2, <2>1
  <2>2. CASE Inserted(Decided(r), requests[r].item, requests')
    <3>1. /\ requests' \in Rows
          /\ \A q \in Requests : Decided(r)[q] # NoRequest => requests'[q] = Decided(r)[q]
      BY <1>2, <2>2, InsertedRow
    <3> QED
      BY <1>2, <3>1 DEF RowStep
  <2> QED
    BY <2>1, <2>2 DEF Decide
<1> QED
  BY <1>1, <1>3, <1>4 DEF ServerKept, TypeOK

\* What the others do.
LEMMA OthersKeep == ASSUME TypeOK, Others PROVE ServerKept
<1>0. requests \in Rows /\ approved \subseteq Items /\ posted \subseteq Items
  BY DEF TypeOK, Rows, Requests
<1>1. ASSUME NEW i \in Items, Ask(i) PROVE ServerKept
  <2>1. /\ requests' \in Rows
        /\ \A q \in Requests : requests[q] # NoRequest => requests'[q] = requests[q]
    BY <1>0, <1>1, InsertedRow DEF Ask
  <2> QED
    BY <1>0, <1>1, <2>1 DEF Ask, ServerKept, RowStep
<1>2. ASSUME NEW i \in Items, AutoApprove(i) \/ Publish(i) PROVE ServerKept
  BY <1>0, <1>2 DEF AutoApprove, Publish, ServerKept, RowStep
<1>3. ASSUME NEW r \in Requests, NEW d \in Decisions, Decide(r, d) PROVE ServerKept
  BY <1>3, DecideKeeps
<1> QED
  BY <1>1, <1>2, <1>3 DEF Others, Requests

\* Every step of the app and of the others.
LEMMA ServerStep == ASSUME TypeOK, [Next]_vars PROVE ServerKept
<1>1. CASE UNCHANGED server
  BY <1>1 DEF server, TypeOK, Rows, Requests, RowStep, ServerKept
<1>2. CASE ServerTakes
  <2>1. act.request \in Requests
    BY <1>2 DEF ServerTakes, TypeOK, NoAct, Actions, Requests
  <2> QED
    BY <1>2, <2>1, DecideKeeps DEF ServerTakes
<1>3. Next => UNCHANGED server \/ Others \/ ServerTakes
  BY DEF Next, Reviewer, Action, QueueAnswers, DetailAnswers, loadReviewQueue, QueueArrives,
         loadSubmissionDetail, DetailArrives, CloseDetail, OpenLastApproved, selectReviewAction,
         submitReviewAction, ActionFails, ActionOver, Refreshes, waitForPublishedSubmission,
         NextItem, ShowNextItem, setActiveView, setRoleMode
<1>4. UNCHANGED vars => UNCHANGED server
  BY DEF vars
<1> QED
  BY <1>1, <1>2, <1>3, <1>4, OthersKeep

-----------------------------------------------------------------------------
(* Type correctness. *)

Posting == Actions({"post"}, Requests)
Going == Actions({"done", "failed", "wait", "queue", "next"}, {0})

\* The device's part of TypeOK.
ClientTypeOK ==
    /\ role \in {"submitter", "reviewer"} /\ view \in {"review", "other"}
    /\ queue \subseteq Items
    /\ polls \subseteq SUBSET Items
    /\ shown \in Snapshot \cup {Nothing}
    /\ loading \in BOOLEAN
    /\ loads \subseteq [answer : Snapshot, resets : BOOLEAN]
    /\ draft \in Decisions
    /\ act \in {NoAct} \cup Posting \cup Going
    /\ last \in Snapshot \cup {Nothing}
    /\ failures \in 0 .. MaxFailures

\* The server's part and the device's.
LEMMA TypeParts ==
    TypeOK <=> /\ requests \in Rows /\ approved \subseteq Items /\ posted \subseteq Items
               /\ ClientTypeOK
BY DEF TypeOK, ClientTypeOK, Rows, Requests, Posting, Going

\* The app's first state, and the server's.
LEMMA InitType == Init => TypeOK
<1> SUFFICES ASSUME Init PROVE TypeOK
  OBVIOUS
<1>1. MaxRequests \in Nat /\ MaxFailures \in Nat /\ "approve" \in Decisions
  BY ClientAssumption
<1>2. requests \in Rows /\ approved \subseteq Items /\ posted \subseteq Items
  BY DEF Init, Rows, Requests
<1>3. polls \subseteq SUBSET Items /\ loads \subseteq [answer : Snapshot, resets : BOOLEAN]
  BY DEF Init
<1>4. /\ role \in {"submitter", "reviewer"} /\ view \in {"review", "other"}
      /\ draft \in Decisions /\ failures \in 0 .. MaxFailures
  BY <1>1 DEF Init
<1>5. /\ queue \subseteq Items /\ loading \in BOOLEAN
  BY DEF Init
<1>6. /\ shown \in Snapshot \cup {Nothing} /\ last \in Snapshot \cup {Nothing}
      /\ act \in {NoAct} \cup Posting \cup Going
  BY DEF Init
<1> QED
  BY <1>2, <1>3, <1>4, <1>5, <1>6, TypeParts DEF ClientTypeOK

\* The latest request is the item's own.
LEMMA LatestIsOwn ==
    ASSUME TypeOK, NEW i \in Items
    PROVE  \/ Latest(i) = 0
           \/ Latest(i) \in Requests /\ requests[Latest(i)].item = i
<1>1. CASE \E r \in 1 .. MaxRequests : IsLatest(r, i)
  <2>1. IsLatest(Latest(i), i)
    BY <1>1 DEF Latest
  <2> QED
    BY <2>1 DEF IsLatest, RequestsOf, Requests
<1>2. CASE ~ \E r \in 1 .. MaxRequests : IsLatest(r, i)
  BY <1>2 DEF Latest
<1> QED
  BY <1>1, <1>2

\* What a read of the detail returns.
LEMMA DetailType ==
    ASSUME TypeOK, NEW i \in Items PROVE Detail(i) \in Snapshot
<1>1. Latest(i) \in 0 .. MaxRequests /\ (i \in posted) \in BOOLEAN
  BY LatestIsOwn, ClientAssumption DEF Requests
<1>2. (IF Latest(i) = 0 THEN "none" ELSE requests[Latest(i)].state) \in States \cup {"none"}
  BY LatestIsOwn DEF TypeOK, Requests, Row, NoRequest
<1> QED
  BY <1>1, <1>2 DEF Detail, Snapshot

\* A call that fails is counted.
LEMMA FailsType ==
    ASSUME TypeOK, Fails \/ UNCHANGED failures PROVE failures' \in 0 .. MaxFailures
BY ClientAssumption DEF TypeOK, Fails

\* An action in progress goes on.
LEMMA GoesType ==
    ASSUME TypeOK, act.step # "none",
           NEW step \in {"done", "failed", "wait", "queue", "next"}, Goes(step)
    PROVE  act' \in Going
<1>1. act \in Posting \cup Going
  BY DEF TypeOK, NoAct, Posting, Going, Requests
<1> QED
  BY <1>1 DEF Goes, Posting, Going, Actions

\* The queue's steps.
LEMMA QueueType ==
    ASSUME TypeOK,
           \/ loadReviewQueue
           \/ \E answer \in polls : QueueArrives(answer)
    PROVE  ClientTypeOK'
<1>1. ClientTypeOK
  BY TypeParts
<1>2. CASE loadReviewQueue
  <2>1. PendingItems \in SUBSET Items
    BY DEF PendingItems
  <2> QED
    BY <1>1, <1>2, <2>1 DEF loadReviewQueue, ClientTypeOK, sheet
<1>3. ASSUME NEW answer \in polls, QueueArrives(answer) PROVE ClientTypeOK'
  BY <1>1, <1>3, FailsType DEF QueueArrives, ClientTypeOK, sheet
<1> QED
  BY <1>2, <1>3

\* The steps of the sheet, the tabs and the settings.
LEMMA SheetType ==
    ASSUME TypeOK, Reviewer \/ DetailAnswers PROVE ClientTypeOK'
<1>0. ClientTypeOK /\ "approve" \in Decisions
  BY TypeParts, ClientAssumption
<1>1. ASSUME NEW i \in Items, loadSubmissionDetail(i) PROVE ClientTypeOK'
  <2> DEFINE resets == view = "review"
  <2>1. resets \in BOOLEAN
    OBVIOUS
  <2>2. loads' = loads \cup {[answer |-> Detail(i), resets |-> resets]}
    BY <1>1 DEF loadSubmissionDetail
  <2> HIDE DEF resets
  <2>3. loads' \subseteq [answer : Snapshot, resets : BOOLEAN]
    BY <1>0, <2>1, <2>2, DetailType DEF ClientTypeOK
  <2> QED
    BY <1>0, <1>1, <2>3 DEF loadSubmissionDetail, ClientTypeOK, screen
<1>2. CASE CloseDetail
  BY <1>0, <1>2 DEF CloseDetail, ClientTypeOK, screen
<1>3. CASE OpenLastApproved
  BY <1>0, <1>3 DEF OpenLastApproved, ClientTypeOK, screen
<1>4. CASE submitReviewAction
  <2>1. shown \in Snapshot /\ 0 \in 0 .. Attempts /\ draft \in Decisions
    BY <1>0, <1>4, ClientAssumption DEF submitReviewAction, ReviewPanelVisible, ClientTypeOK
  <2>2. shown.request \in Requests /\ shown.id \in Items
    BY <1>4, <2>1, ClientAssumption DEF submitReviewAction, Snapshot, Requests
  <2>3. act' \in Posting
    BY <1>4, <2>1, <2>2 DEF submitReviewAction, Posting, Actions
  <2> QED
    BY <1>0, <1>4, <2>3 DEF submitReviewAction, ClientTypeOK, screen, sheet
<1>5. ASSUME NEW d \in Decisions, selectReviewAction(d) PROVE ClientTypeOK'
  BY <1>0, <1>5 DEF selectReviewAction, ClientTypeOK, screen
<1>6. ASSUME NEW v \in {"review", "other"}, setActiveView(v) PROVE ClientTypeOK'
  BY <1>0, <1>6 DEF setActiveView, ClientTypeOK, sheet
<1>7. ASSUME NEW r \in {"submitter", "reviewer"}, setRoleMode(r) PROVE ClientTypeOK'
  BY <1>0, <1>7 DEF setRoleMode, ClientTypeOK
<1>8. ASSUME NEW load \in loads, DetailArrives(load) PROVE ClientTypeOK'
  BY <1>0, <1>8, FailsType DEF DetailArrives, ClientTypeOK, screen
<1> QED
  BY <1>1, <1>2, <1>3, <1>4, <1>5, <1>6, <1>7, <1>8 DEF Reviewer, DetailAnswers

\* performReviewAction's steps.
LEMMA ActionType ==
    ASSUME TypeOK, Action PROVE ClientTypeOK'
<1>0. ClientTypeOK /\ "approve" \in Decisions
  BY TypeParts, ClientAssumption
<1>1. CASE ServerTakes
  <2>1. act' \in Going
    BY <1>1, GoesType DEF ServerTakes
  <2> QED
    BY <1>0, <1>1, <2>1 DEF ServerTakes, ClientTypeOK, screen, sheet
<1>2. CASE ActionFails
  <2>1. act' \in Going /\ failures' \in 0 .. MaxFailures
    BY <1>2, GoesType, FailsType DEF ActionFails
  <2> QED
    BY <1>0, <1>2, <2>1 DEF ActionFails, ClientTypeOK, screen, sheet
<1>3. CASE ActionOver
  BY <1>0, <1>3 DEF ActionOver, ClientTypeOK, screen, sheet
<1>4. CASE Refreshes
  <2>1. act' \in Going
    BY <1>4, GoesType DEF Refreshes
  <2>2. last' \in Snapshot \cup {Nothing}
    BY <1>0, <1>4 DEF Refreshes, ClientTypeOK
  <2> QED
    BY <1>0, <1>4, <2>1, <2>2 DEF Refreshes, ClientTypeOK, screen, sheet
<1>5. CASE waitForPublishedSubmission
  <2>1. act \in Going /\ act.id \in Items
    BY <1>0, <1>5 DEF waitForPublishedSubmission, ClientTypeOK, NoAct, Posting, Going, Actions
  <2>2. act' \in Going
    <3>1. CASE Goes("queue")
      BY <1>5, <3>1, GoesType DEF waitForPublishedSubmission
    <3>2. CASE act.tries < Attempts /\ act' = [act EXCEPT !.tries = @ + 1]
      BY <2>1, <3>2, ClientAssumption DEF Going, Actions
    <3> QED
      BY <1>5, <3>1, <3>2 DEF waitForPublishedSubmission
  <2>3. failures' \in 0 .. MaxFailures
    BY <1>5, FailsType DEF waitForPublishedSubmission
  <2>4. last' \in Snapshot \cup {Nothing}
    BY <1>0, <1>5, <2>1, DetailType DEF waitForPublishedSubmission, ClientTypeOK
  <2> QED
    BY <1>0, <1>5, <2>2, <2>3, <2>4 DEF waitForPublishedSubmission, ClientTypeOK, screen, sheet
<1>6. CASE NextItem
  <2>1. PendingItems \in SUBSET Items
    BY DEF PendingItems
  <2>2. act.step = "queue"
    BY <1>6 DEF NextItem
  <2>3. act' \in {NoAct} \cup Going
    <3>1. act \in Going
      BY <1>0, <2>2 DEF ClientTypeOK, NoAct, Posting, Going, Actions
    <3>2. ASSUME NEW i \in PendingItems, act' = [act EXCEPT !.step = "next", !.id = i]
          PROVE  act' \in Going
      BY <2>1, <3>1, <3>2 DEF Going, Actions
    <3>3. \/ act' = NoAct
          \/ \E i \in PendingItems : act' = [act EXCEPT !.step = "next", !.id = i]
      BY <1>6 DEF NextItem
    <3> QED
      BY <3>2, <3>3
  <2>4. failures' \in 0 .. MaxFailures
    BY <1>6, FailsType DEF NextItem
  <2> QED
    BY <1>0, <1>6, <2>1, <2>3, <2>4 DEF NextItem, ClientTypeOK
<1>7. CASE ShowNextItem
  <2>1. Detail(act.id) \in Snapshot
    BY <1>0, <1>7, DetailType
       DEF ShowNextItem, ClientTypeOK, NoAct, Posting, Going, Actions
  <2>2. failures' \in 0 .. MaxFailures
    BY <1>7, FailsType DEF ShowNextItem
  <2> QED
    BY <1>0, <1>7, <2>1, <2>2 DEF ShowNextItem, ClientTypeOK, screen
<1> QED
  BY <1>1, <1>2, <1>3, <1>4, <1>5, <1>6, <1>7 DEF Action

\* Every step keeps the types.
LEMMA StepType == TypeOK /\ [Next]_vars => TypeOK'
<1> SUFFICES ASSUME TypeOK, [Next]_vars PROVE TypeOK'
  OBVIOUS
<1>1. requests' \in Rows /\ approved' \subseteq Items /\ posted' \subseteq Items
  BY ServerStep DEF ServerKept
<1>2. ClientTypeOK'
  <2>1. ClientTypeOK
    BY TypeParts
  <2>2. CASE Others
    BY <2>1, <2>2 DEF Others, ClientTypeOK, screen, sheet
  <2>3. CASE UNCHANGED vars
    BY <2>1, <2>3 DEF vars, ClientTypeOK, screen, sheet
  <2> QED
    BY <2>2, <2>3, QueueType, SheetType, ActionType DEF Next, QueueAnswers
<1> QED
  BY <1>1, <1>2 DEF TypeOK, ClientTypeOK, Rows, Requests, Posting, Going

\* Whatever the order of answers, taps and the others' steps, the app's state and
\* the server's keep their types.
THEOREM TypeCorrect == Spec => []TypeOK
BY InitType, StepType, PTL DEF Spec

-----------------------------------------------------------------------------
(* What is over stays over. *)

\* What a detail says is over is over after any step too.
LEMMA StaysTrue ==
    ASSUME TypeOK, [Next]_vars, NEW s \in Snapshot, StillTrue(s)
    PROVE  /\ s.posted => s.id \in posted'
           /\ s.request # 0 => /\ requests'[s.request].item = s.id
                               /\ s.state # "pending" => requests'[s.request].state # "pending"
<1>1. ServerKept
  BY ServerStep
<1>2. s.posted => s.id \in posted'
  BY <1>1 DEF ServerKept, StillTrue
<1>3. ASSUME s.request # 0
      PROVE  /\ requests'[s.request].item = s.id
             /\ s.state # "pending" => requests'[s.request].state # "pending"
  <2>1. s.request \in Requests /\ s.id \in Items
    BY <1>3, ClientAssumption DEF Snapshot, Requests
  <2>2. requests[s.request].item = s.id
    BY <1>3 DEF StillTrue
  <2>3. requests[s.request] \in Row
    BY <2>1, <2>2, ClientAssumption DEF TypeOK, Requests, NoRequest
  <2>4. requests'[s.request].item = s.id
    BY <1>1, <2>1, <2>2, <2>3, RowOrFree DEF ServerKept, RowStep
  <2>5. ASSUME s.state # "pending" PROVE requests'[s.request].state # "pending"
    <3>1. requests[s.request].state = "decided"
      BY <1>3, <2>3, <2>5 DEF StillTrue, Row, States
    <3> QED
      BY <1>1, <2>1, <2>3, <3>1, RowOrFree DEF ServerKept, RowStep
  <2> QED
    BY <2>4, <2>5
<1> QED
  BY <1>2, <1>3

\* What has just been read is true.
LEMMA ReadIsTrue ==
    ASSUME TypeOK, NEW i \in Items PROVE StillTrue(Detail(i))
BY LatestIsOwn DEF StillTrue, Detail

\* What the app holds in the next state it held before or has just read.
NewDetails ==
    /\ \/ shown' \in {shown, Nothing, last}
       \/ \E load \in loads : shown' = load.answer
       \/ UNCHANGED server /\ \E i \in Items : shown' = Detail(i)
    /\ \A load \in loads' :
           \/ load \in loads
           \/ UNCHANGED server /\ \E i \in Items : load.answer = Detail(i)
    /\ \/ last' \in {last, Nothing}
       \/ UNCHANGED server /\ \E i \in posted : last' = Detail(i)
    /\ act'.step = "post" =>
           \/ act'.id = act.id /\ act'.request = act.request /\ act.step = "post"
           \/ /\ act'.id = shown.id /\ act'.request = shown.request
              /\ shown # Nothing /\ shown.request # 0

\* That holds of every step.
LEMMA StepDetails == ASSUME TypeOK, [Next]_vars PROVE NewDetails
<1>0. act \in {NoAct} \cup Posting \cup Going
  BY TypeParts DEF ClientTypeOK
<1> USE DEF screen, sheet, NewDetails
<1>1. CASE UNCHANGED <<sheet, act, last>>
  BY <1>1
<1>2. CASE Others \/ loadReviewQueue \/ QueueAnswers \/ UNCHANGED vars
  BY <1>1, <1>2 DEF Others, loadReviewQueue, QueueAnswers, QueueArrives, vars
<1>3. CASE Reviewer
  <2>1. ASSUME NEW i \in Items, loadSubmissionDetail(i)
        PROVE  /\ UNCHANGED <<shown, act, last, server>>
               /\ loads' = loads \cup {[answer |-> Detail(i), resets |-> view = "review"]}
    BY <2>1 DEF loadSubmissionDetail
  <2>2. CASE CloseDetail
    BY <2>2 DEF CloseDetail
  <2>3. CASE OpenLastApproved
    BY <2>3 DEF OpenLastApproved
  <2>4. CASE submitReviewAction
    BY <2>4 DEF submitReviewAction, ReviewPanelVisible
  <2>5. ASSUME \/ \E d \in Decisions : selectReviewAction(d)
               \/ \E v \in {"review", "other"} : setActiveView(v)
               \/ \E r \in {"submitter", "reviewer"} : setRoleMode(r)
        PROVE  UNCHANGED <<shown, loads, act>> /\ last' \in {last, Nothing}
    BY <2>5 DEF selectReviewAction, setActiveView, setRoleMode
  <2> QED
    BY <1>3, <2>1, <2>2, <2>3, <2>4, <2>5 DEF Reviewer
<1>4. CASE DetailAnswers
  BY <1>4 DEF DetailAnswers, DetailArrives
<1>5. CASE Action
  <2>0. act.step # "none" => act \in Posting \cup Going
    BY <1>0 DEF NoAct
  <2>1. ASSUME NEW step \in {"done", "failed", "wait", "queue", "next"}, Goes(step),
               act.step # "none"
        PROVE  act'.step # "post"
    BY <2>0, <2>1 DEF Goes, Posting, Going, Actions
  <2>2. CASE ServerTakes \/ ActionFails \/ ActionOver \/ Refreshes
    BY <2>1, <2>2 DEF ServerTakes, ActionFails, ActionOver, Refreshes, NoAct
  <2>3. CASE waitForPublishedSubmission
    <3>1. act'.step # "post"
      BY <2>0, <2>1, <2>3 DEF waitForPublishedSubmission, Going, Posting, Actions
    <3> QED
      BY <2>3, <3>1 DEF waitForPublishedSubmission
  <2>4. CASE NextItem
    <3>0. act.step = "queue" /\ UNCHANGED <<loads, last>> /\ shown' \in {shown, Nothing}
      BY <2>4 DEF NextItem
    <3>1. act \in Posting \cup Going
      BY <2>0, <3>0
    <3>2. ASSUME NEW i \in PendingItems, act' = [act EXCEPT !.step = "next", !.id = i]
          PROVE  act'.step = "next"
      BY <3>1, <3>2 DEF Posting, Going, Actions
    <3>3. act' = NoAct => act'.step = "none"
      BY DEF NoAct
    <3>4. act'.step \in {"next", "none"}
      BY <2>4, <3>2, <3>3 DEF NextItem
    <3>5. act'.step # "post"
      BY <3>4
    <3> QED
      BY <3>0, <3>5
  <2>5. CASE ShowNextItem
    <3>1. act.id \in Items
      BY <2>0, <2>5 DEF ShowNextItem, Posting, Going, Actions
    <3>2. /\ shown' = shown \/ shown' = Detail(act.id)
          /\ UNCHANGED <<server, loads, last>> /\ act' = NoAct
      BY <2>5 DEF ShowNextItem
    <3> QED
      BY <3>1, <3>2 DEF NoAct
  <2> QED
    BY <1>5, <2>2, <2>3, <2>4, <2>5 DEF Action
<1> QED
  BY <1>2, <1>3, <1>4, <1>5 DEF Next

\* Nothing has been read yet.
LEMMA InitOver == Init => WhatIsOverStaysOver
BY DEF Init, WhatIsOverStaysOver, NoAct

\* All details the app holds stay true.
LEMMA StepOver == TypeOK /\ WhatIsOverStaysOver /\ [Next]_vars => WhatIsOverStaysOver'
<1> SUFFICES ASSUME TypeOK, WhatIsOverStaysOver, [Next]_vars PROVE WhatIsOverStaysOver'
  OBVIOUS
<1> DEFINE Kept(s) ==
        /\ s.posted => s.id \in posted'
        /\ s.request # 0 => /\ requests'[s.request].item = s.id
                            /\ s.state # "pending" => requests'[s.request].state # "pending"
<1>0. ClientTypeOK /\ ServerKept /\ NewDetails
  BY TypeParts, ServerStep, StepDetails
<1>1. \A s \in Snapshot : StillTrue(s) => Kept(s)
  BY StaysTrue
<1>2. \A i \in Items : Kept(Detail(i))
  BY <1>1, ReadIsTrue, DetailType
<1>3. shown # Nothing => Kept(shown)
  BY <1>0, <1>1 DEF ClientTypeOK, WhatIsOverStaysOver
<1>4. \A load \in loads : Kept(load.answer)
  BY <1>0, <1>1 DEF ClientTypeOK, WhatIsOverStaysOver
<1>5. last # Nothing => Kept(last) /\ last.posted
  BY <1>0, <1>1 DEF ClientTypeOK, WhatIsOverStaysOver
<1>6. shown' # Nothing => Kept(shown')
  BY <1>0, <1>2, <1>3, <1>4, <1>5 DEF NewDetails
<1>7. \A load \in loads' : Kept(load.answer)
  BY <1>0, <1>2, <1>4 DEF NewDetails
<1>8. last' # Nothing => Kept(last') /\ last'.posted
  <2>1. \A i \in posted : i \in Items /\ Detail(i).posted
    BY DEF Detail, TypeOK
  <2> QED
    BY <1>0, <1>2, <1>5, <2>1 DEF NewDetails
<1>9. act'.step = "post" => requests'[act'.request].item = act'.id
  <2>1. CASE act'.id = shown.id /\ act'.request = shown.request /\ shown # Nothing
             /\ shown.request # 0
    BY <1>3, <2>1
  <2>2. CASE act'.id = act.id /\ act'.request = act.request /\ act.step = "post"
    <3>1. act.request \in Requests /\ act.id \in Items
      BY <1>0, <2>2 DEF ClientTypeOK, NoAct, Posting, Going, Actions
    <3>2. requests[act.request].item = act.id
      BY <2>2 DEF WhatIsOverStaysOver
    <3>3. requests[act.request] # NoRequest
      BY <3>1, <3>2, ClientAssumption DEF NoRequest
    <3> QED
      BY <1>0, <2>2, <3>1, <3>2, <3>3 DEF ServerKept, RowStep
  <2> QED
    BY <1>0, <2>1, <2>2 DEF NewDetails
<1> QED
  BY <1>6, <1>7, <1>8, <1>9 DEF WhatIsOverStaysOver, StillTrue

\* No detail the app holds, however old and from whichever answer, hides a request
\* that is open (the request it shows as decided is not), and the card tells of an
\* item with a post; what the app posts is a request of the item it showed. The
\* server may take decisions on any request meanwhile.
THEOREM OverStaysOver == Spec => []WhatIsOverStaysOver
BY InitOver, StepOver, TypeCorrect, PTL DEF Spec
=============================================================================
