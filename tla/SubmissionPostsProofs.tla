------------------------ MODULE SubmissionPostsProofs ------------------------
(***************************************************************************)
(* Publishing twice has to be asked for: the proof that a submission has   *)
(* no more posts on a destination than approved events a tick has finished *)
(* with, plus retries, however many ticks overlap, throw or are cut short. *)
(* It counts rows, so it needs two facts beyond the types: an event in     *)
(* work is pending and held by one tick, and finitely many were finished.  *)
(* The former also carries the refinement of PublicationPromise, below: it *)
(* makes every COMMIT of a publishing tick pay for what is still owed.     *)
(***************************************************************************)
EXTENDS SubmissionWorkflowProofs, FiniteSetTheorems

\* The approved events of s, in a table of events, that a tick has finished with.
TriedIn(table, s) ==
    {e \in EventIds : /\ table[e] # NoRow
                      /\ table[e].submission = s
                      /\ table[e].name = "approved"
                      /\ table[e].state # "pending"}

\* What RepeatedPostsAreAsked counts.
Tried(s) == TriedIn(events, s)

\* The strengthening: FOR UPDATE SKIP LOCKED gives a pending event to one tick and
\* keeps it pending until that tick is done with it ...
HandledIsHeld ==
    \A t \in Ticks : phase[t] = "handling" =>
        /\ events[claimed[t]].state = "pending"
        /\ \A u \in Ticks : phase[u] = "handling" /\ claimed[u] = claimed[t] => u = t

\* ... and of the rows of a table that starts empty finitely many were finished.
TriedIsFinite == \A s \in Submissions : IsFiniteSet(Tried(s))

-----------------------------------------------------------------------------
(* The handling ticks keep their events.                                    *)

\* When no tick takes an event and no row in work changes, the locks stand.
LEMMA LocksStand ==
    ASSUME TypeOK, HandledIsHeld,
           \A u \in Ticks : phase'[u] = "handling" =>
               /\ phase[u] = "handling"
               /\ claimed'[u] = claimed[u]
               /\ events'[claimed[u]] = events[claimed[u]]
    PROVE  HandledIsHeld'
BY DEF HandledIsHeld

\* An INSERT never touches a row in work: that row exists.
LEMMA InsertStands ==
    ASSUME TypeOK, HandledIsHeld, UNCHANGED <<phase, claimed>>,
           NEW f \in EventIds, NEW s \in Submissions, NEW name \in {"created", "approved"},
           events[f] = NoRow, events' = WithEvent(events, f, s, name)
    PROVE  HandledIsHeld'
<1>1. ASSUME NEW u \in Ticks, phase[u] = "handling"
      PROVE  events'[claimed[u]] = events[claimed[u]]
  <2>1. claimed[u] \in EventIds /\ events[claimed[u]] # NoRow
    BY <1>1 DEF TypeOK
  <2>2. claimed[u] # f
    BY <2>1
  <2>3. events \in [EventIds -> Event \cup {NoRow}]
    BY DEF TypeOK
  <2> QED
    BY <2>1, <2>2, <2>3, InsertedEvent
<1> QED
  BY <1>1, LocksStand

\* A tick that commits writes its own event, which no other tick works on, and at
\* most one new row.
LEMMA CommitStands ==
    ASSUME TypeOK, HandledIsHeld, NEW t \in Ticks, Commits(t)
    PROVE  HandledIsHeld'
<1>1. phase[t] = "handling" /\ ReleaseTick(t)
  BY DEF Commits, FinishWithAutoApproval, FinishWithReviewRequest, FinishPublishing, Handling
<1>2. claimed[t] \in EventIds /\ events[claimed[t]] \in Event /\ ClaimedSubmission(t) \in Submissions
  BY <1>1, HandledType
<1>3. EventDone(t) \in [EventIds -> Event \cup {NoRow}]
  BY <1>2, EventStateType DEF EventDone, TypeOK
<1>4. ASSUME NEW u \in Ticks, phase'[u] = "handling"
      PROVE  /\ phase[u] = "handling"
             /\ claimed'[u] = claimed[u]
             /\ events'[claimed[u]] = events[claimed[u]]
  <2>1. u # t /\ phase[u] = "handling" /\ claimed'[u] = claimed[u]
    BY <1>1, <1>4, ReleaseTickType
  <2>2. claimed[u] # claimed[t] /\ claimed[u] \in EventIds /\ events[claimed[u]] # NoRow
    BY <1>1, <2>1 DEF HandledIsHeld, TypeOK
  <2>3. EventDone(t)[claimed[u]] = events[claimed[u]]
    BY <1>2, <2>2 DEF EventDone, TypeOK
  <2>4. CASE events' = EventDone(t)
    BY <2>1, <2>3, <2>4
  <2>5. ASSUME NEW f \in EventIds, events[f] = NoRow,
               events' = WithEvent(EventDone(t), f, ClaimedSubmission(t), "approved")
        PROVE  events'[claimed[u]] = EventDone(t)[claimed[u]]
    BY <1>2, <1>3, <2>2, <2>5, InsertedEvent
  <2> QED
    BY <2>1, <2>3, <2>4, <2>5
    DEF Commits, FinishWithAutoApproval, FinishWithReviewRequest, FinishPublishing
<1> QED
  BY <1>4, LocksStand

\* Every step keeps the locks: a retry and a failure mark wait for them.
LEMMA HeldStep == TypeOK /\ HandledIsHeld /\ [Next]_vars => HandledIsHeld'
<1> SUFFICES ASSUME TypeOK, HandledIsHeld, [Next]_vars
             PROVE  HandledIsHeld'
  OBVIOUS
<1>1. ASSUME NEW s \in Submissions, NEW v \in Visibilities, Create(s, v) \/ Resubmit(s, v)
      PROVE  HandledIsHeld'
  BY <1>1, InsertStands DEF Create, Resubmit, tickVars
<1>2. ASSUME NEW r \in RequestIds, NEW u \in Users, Approve(r, u)
      PROVE  HandledIsHeld'
  <2>1. requests[r].submission \in Submissions
    BY <1>2, RecordActionType DEF Approve
  <2> QED
    BY <1>2, <2>1, InsertStands DEF Approve, tickVars
<1>3. ASSUME NEW e \in EventIds, RetryWorkflowEvent(e)
      PROVE  HandledIsHeld'
  <2>1. UNCHANGED <<phase, claimed>> /\ ~Locked(e)
        /\ events' = [events EXCEPT ![e].state = "pending"]
    BY <1>3 DEF RetryWorkflowEvent, tickVars
  <2> QED
    BY <2>1, LocksStand DEF Locked, TypeOK
<1>4. ASSUME NEW t \in Ticks, NEW e \in EventIds, Claim(t, e)
      PROVE  HandledIsHeld'
  <2>1. /\ events' = events
        /\ events[e].state = "pending"
        /\ phase' = [phase EXCEPT ![t] = "handling"]
        /\ claimed' = [claimed EXCEPT ![t] = e]
        /\ \A u \in Ticks : phase[u] = "handling" => claimed[u] # e
    BY <1>4 DEF Claim, rowVars, Locked
  <2>2. \A u \in Ticks \ {t} : phase'[u] = phase[u] /\ claimed'[u] = claimed[u]
    BY <2>1 DEF TypeOK
  <2>3. phase'[t] = "handling" /\ claimed'[t] = e
    BY <2>1 DEF TypeOK
  <2> QED
    BY <2>1, <2>2, <2>3 DEF HandledIsHeld
<1>5. ASSUME NEW t \in Ticks, MarkEventFailed(t)
      PROVE  HandledIsHeld'
  <2>1. /\ ReleaseTick(t)
        /\ ~Locked(claimed[t])
        /\ events' = [events EXCEPT ![claimed[t]].state = "failed"]
    BY <1>5 DEF MarkEventFailed
  <2>2. \A u \in Ticks : phase'[u] = "handling" =>
            phase[u] = "handling" /\ claimed'[u] = claimed[u]
    BY <2>1, ReleaseTickType
  <2> QED
    BY <2>1, <2>2, LocksStand DEF Locked, TypeOK
<1>6. ASSUME NEW t \in Ticks, HandlerThrows(t)
      PROVE  HandledIsHeld'
  BY <1>6, LocksStand DEF HandlerThrows, rowVars, TypeOK
<1>7. ASSUME NEW t \in Ticks, Interrupt(t)
      PROVE  HandledIsHeld'
  <2>1. ReleaseTick(t) /\ events' = events
    BY <1>7 DEF Interrupt, rowVars
  <2> QED
    BY <2>1, ReleaseTickType, LocksStand
<1>8. CASE UNCHANGED <<events, phase, claimed>>
  BY <1>8, LocksStand
<1> QED
  BY <1>1, <1>2, <1>3, <1>4, <1>5, <1>6, <1>7, <1>8, CommitStands
  DEF Next, Member, Worker, Finish, Commits, ApproveFirstStage, SendBack,
      UpdateWorkflowPolicy, vars, rowVars, tickVars

-----------------------------------------------------------------------------
(* Counting the finished events.                                            *)

\* A new row is pending: it is not counted.
LEMMA InsertCounts ==
    ASSUME NEW table \in [EventIds -> Event \cup {NoRow}], NEW f \in EventIds,
           table[f] = NoRow, NEW x \in Submissions, NEW name \in {"created", "approved"},
           NEW s \in Submissions
    PROVE  TriedIn(WithEvent(table, f, x, name), s) = TriedIn(table, s)
<1> DEFINE after == WithEvent(table, f, x, name)
<1>1. after[f].state = "pending" /\ \A g \in EventIds : g # f => after[g] = table[g]
  BY InsertedEvent
<1> HIDE DEF after
<1>2. \A g \in EventIds : g \in TriedIn(after, s) <=> g \in TriedIn(table, s)
  BY <1>1 DEF TriedIn
<1> QED
  BY <1>2 DEF TriedIn, after

\* Finishing an event counts it, and it only; making it pending discounts it.
LEMMA StateCounts ==
    ASSUME TypeOK, NEW f \in EventIds, events[f] \in Event,
           NEW st \in {"pending", "done", "failed"}, NEW s \in Submissions,
           NEW after, after = [events EXCEPT ![f].state = st]
    PROVE  TriedIn(after, s) = IF st # "pending" /\ EventOf(f, s, "approved")
                               THEN Tried(s) \cup {f}
                               ELSE Tried(s) \ {f}
<1>1. events \in [EventIds -> Event \cup {NoRow}]
  BY DEF TypeOK
<1>2. /\ after[f] # NoRow
      /\ after[f].submission = events[f].submission
      /\ after[f].name = events[f].name
      /\ after[f].state = st
  <2>1. after[f] = [events[f] EXCEPT !.state = st]
    BY <1>1
  <2>2. after[f] \in Event
    BY <2>1 DEF Event
  <2> QED
    BY <2>1, <2>2, NoRowAssumption DEF Event
<1>3. \A g \in EventIds : g # f => after[g] = events[g]
  BY <1>1
<1>4. \A g \in EventIds : g # f => (g \in TriedIn(after, s) <=> g \in Tried(s))
  BY <1>3 DEF TriedIn, Tried
<1>5. f \in TriedIn(after, s) <=> st # "pending" /\ EventOf(f, s, "approved")
  BY <1>2, NoRowAssumption DEF TriedIn, EventOf, Event
<1>6. TriedIn(after, s) \subseteq EventIds /\ Tried(s) \subseteq EventIds
  BY DEF TriedIn, Tried
<1> QED
  BY <1>4, <1>5, <1>6

\* What a step does to the finished events of a submission, and to the posts and the
\* retries it is weighed against: a retry pays for the event it takes away, a publish
\* adds the event it publishes from, and the rest adds events or changes nothing.
LEMMA TriedChanges ==
    ASSUME TypeOK, HandledIsHeld, [Next]_vars, NEW s \in Submissions
    PROVE  \/ /\ UNCHANGED <<posts, retries>>
              /\ \/ Tried(s)' = Tried(s)
                 \/ \E e \in EventIds : Tried(s)' = Tried(s) \cup {e}
           \/ /\ UNCHANGED posts
              /\ retries' = retries + 1
              /\ \E e \in EventIds : Tried(s)' = Tried(s) \ {e}
           \/ /\ UNCHANGED retries
              /\ \E t \in Ticks :
                    /\ FinishPublishing(t)
                    /\ claimed[t] \notin Tried(s)
                    /\ Tried(s)' = IF ClaimedSubmission(t) = s
                                   THEN Tried(s) \cup {claimed[t]}
                                   ELSE Tried(s)
<1> DEFINE Kept == UNCHANGED <<posts, retries>> /\ Tried(s)' = Tried(s)
           Added == UNCHANGED <<posts, retries>> /\ \E e \in EventIds : Tried(s)' = Tried(s) \cup {e}
<1>1. events \in [EventIds -> Event \cup {NoRow}]
  BY DEF TypeOK
<1>2. ASSUME NEW f \in EventIds, NEW x \in Submissions, NEW n \in {"created", "approved"},
             events[f] = NoRow, events' = WithEvent(events, f, x, n)
      PROVE  Tried(s)' = Tried(s)
  <2>1. TriedIn(events', s) = TriedIn(events, s)
    BY <1>1, <1>2, InsertCounts
  <2> QED
    BY <2>1 DEF Tried, TriedIn
<1>3. ASSUME NEW x \in Submissions, NEW v \in Visibilities, Create(x, v) \/ Resubmit(x, v)
      PROVE  Kept
  BY <1>2, <1>3 DEF Create, Resubmit, boundVars
<1>4. ASSUME NEW r \in RequestIds, NEW u \in Users, Approve(r, u)
      PROVE  Kept
  <2>1. requests[r].submission \in Submissions
    BY <1>4, RecordActionType DEF Approve
  <2> QED
    BY <1>2, <1>4, <2>1 DEF Approve, boundVars
<1>5. ASSUME NEW e \in EventIds, RetryWorkflowEvent(e)
      PROVE  /\ UNCHANGED posts
             /\ retries' = retries + 1
             /\ Tried(s)' = Tried(s) \ {e}
  <2>1. events[e] \in Event /\ events' = [events EXCEPT ![e].state = "pending"]
    BY <1>1, <1>5 DEF RetryWorkflowEvent
  <2>2. TriedIn(events', s) = Tried(s) \ {e}
    BY <2>1, StateCounts
  <2> QED
    BY <1>5, <2>2 DEF RetryWorkflowEvent, Tried, TriedIn
<1>6. ASSUME NEW t \in Ticks, phase[t] = "handling"
      PROVE  /\ claimed[t] \in EventIds
             /\ events[claimed[t]] \in Event
             /\ ClaimedSubmission(t) \in Submissions
             /\ claimed[t] \notin Tried(s)
             /\ EventDone(t) \in [EventIds -> Event \cup {NoRow}]
             /\ TriedIn(EventDone(t), s) = IF Handling(t, "approved") /\ ClaimedSubmission(t) = s
                                           THEN Tried(s) \cup {claimed[t]}
                                           ELSE Tried(s)
  <2>1. claimed[t] \in EventIds /\ events[claimed[t]] \in Event /\ ClaimedSubmission(t) \in Submissions
    BY <1>6, HandledType
  <2>2. claimed[t] \notin Tried(s)
    BY <1>6 DEF HandledIsHeld, Tried, TriedIn
  <2>3. EventDone(t) \in [EventIds -> Event \cup {NoRow}]
    BY <1>1, <2>1, EventStateType DEF EventDone
  <2>4. EventOf(claimed[t], s, "approved") <=> Handling(t, "approved") /\ ClaimedSubmission(t) = s
    BY <1>6, <2>1, NoRowAssumption DEF EventOf, Handling, ClaimedSubmission
  <2>5. TriedIn(EventDone(t), s) = IF EventOf(claimed[t], s, "approved")
                                  THEN Tried(s) \cup {claimed[t]}
                                  ELSE Tried(s) \ {claimed[t]}
    BY <2>1, StateCounts DEF EventDone
  <2> QED
    BY <2>1, <2>2, <2>3, <2>4, <2>5
<1>7. ASSUME NEW t \in Ticks, NEW review \in Reviews, FinishWithAutoApproval(t, review)
      PROVE  Kept
  <2>1. phase[t] = "handling" /\ ~Handling(t, "approved")
    BY <1>7 DEF FinishWithAutoApproval, Handling
  <2>2. PICK f \in EventIds : /\ events[f] = NoRow
                              /\ events' = WithEvent(EventDone(t), f, ClaimedSubmission(t), "approved")
    BY <1>7 DEF FinishWithAutoApproval
  <2>3. EventDone(t)[f] = NoRow
    BY <1>1, <1>6, <2>1, <2>2, NoRowAssumption DEF EventDone
  <2>4. TriedIn(events', s) = TriedIn(EventDone(t), s)
    BY <1>6, <2>1, <2>2, <2>3, InsertCounts
  <2>5. Tried(s)' = Tried(s)
    BY <1>6, <2>1, <2>4 DEF Tried, TriedIn
  <2> QED
    BY <1>7, <2>5 DEF FinishWithAutoApproval, boundVars
<1>8. ASSUME NEW t \in Ticks, NEW review \in Reviews, FinishWithReviewRequest(t, review)
      PROVE  Kept
  <2>1. phase[t] = "handling" /\ ~Handling(t, "approved") /\ events' = EventDone(t)
    BY <1>8 DEF FinishWithReviewRequest, Handling
  <2>2. TriedIn(events', s) = Tried(s)
    BY <1>6, <2>1
  <2> QED
    BY <1>8, <2>2 DEF FinishWithReviewRequest, boundVars, Tried, TriedIn
<1>9. ASSUME NEW t \in Ticks, FinishPublishing(t)
      PROVE  /\ UNCHANGED retries
             /\ claimed[t] \notin Tried(s)
             /\ Tried(s)' = IF ClaimedSubmission(t) = s
                            THEN Tried(s) \cup {claimed[t]}
                            ELSE Tried(s)
  <2>1. phase[t] = "handling" /\ Handling(t, "approved") /\ events' = EventDone(t)
    BY <1>9 DEF FinishPublishing, Handling
  <2>2. TriedIn(events', s) = IF ClaimedSubmission(t) = s
                              THEN Tried(s) \cup {claimed[t]}
                              ELSE Tried(s)
    BY <1>6, <2>1
  <2> QED
    BY <1>6, <1>9, <2>1, <2>2 DEF FinishPublishing, boundVars, Tried, TriedIn
<1>10. ASSUME NEW t \in Ticks, MarkEventFailed(t)
       PROVE  Kept \/ Added
  <2> DEFINE e == claimed[t]
  <2>1. e \in EventIds /\ events[e] \in Event /\ events' = [events EXCEPT ![e].state = "failed"]
    BY <1>10, HandledType DEF MarkEventFailed
  <2>2. Tried(s)' = IF EventOf(e, s, "approved") THEN Tried(s) \cup {e} ELSE Tried(s) \ {e}
    <3>1. TriedIn(events', s) = IF EventOf(e, s, "approved") THEN Tried(s) \cup {e}
                                ELSE Tried(s) \ {e}
      BY <2>1, StateCounts
    <3> QED
      BY <3>1 DEF Tried, TriedIn
  <2>3. ~EventOf(e, s, "approved") => e \notin Tried(s)
    BY DEF Tried, TriedIn, EventOf
  <2> QED
    BY <1>10, <2>1, <2>2, <2>3 DEF MarkEventFailed, boundVars
<1>11. CASE UNCHANGED <<events, posts, retries>>
  BY <1>11 DEF Tried, TriedIn
<1> QED
  BY <1>3, <1>4, <1>5, <1>7, <1>8, <1>9, <1>10, <1>11
  DEF Next, Member, Worker, Finish, ApproveFirstStage, SendBack, UpdateWorkflowPolicy,
      Claim, HandlerThrows, Interrupt, vars, rowVars, tickVars, boundVars

\* The finished events stay finitely many.
LEMMA FiniteStep ==
    TypeOK /\ HandledIsHeld /\ TriedIsFinite /\ [Next]_vars => TriedIsFinite'
<1> SUFFICES ASSUME TypeOK, HandledIsHeld, TriedIsFinite, [Next]_vars, NEW s \in Submissions
             PROVE  IsFiniteSet(Tried(s)')
  BY DEF TriedIsFinite
<1>1. IsFiniteSet(Tried(s))
  BY DEF TriedIsFinite
<1>2. \A e \in EventIds : IsFiniteSet(Tried(s) \cup {e}) /\ IsFiniteSet(Tried(s) \ {e})
  BY <1>1, FS_AddElement, FS_RemoveElement
<1>3. ASSUME NEW t \in Ticks, FinishPublishing(t)
      PROVE  claimed[t] \in EventIds
  BY <1>3, HandledType DEF FinishPublishing, Handling
<1> QED
  BY <1>1, <1>2, <1>3, TriedChanges

\* A publish adds at most one post to a destination, of its own item only.
LEMMA PostsAdded ==
    ASSUME TypeOK, NEW t \in Ticks, FinishPublishing(t),
           NEW s \in Submissions, NEW d \in ActiveDestinations
    PROVE  /\ posts[s][d] \in Nat
           /\ posts'[s][d] \in Nat
           /\ posts'[s][d] <= posts[s][d] + (IF ClaimedSubmission(t) = s THEN 1 ELSE 0)
<1> DEFINE c == ClaimedSubmission(t)
           plan == choosePublishingPlan(policy, seen[t].visibility)
           new == [x \in ActiveDestinations |->
                      posts[c][x] + IF x \in PublishedTypes(plan) THEN 1 ELSE 0]
<1>1. c \in Submissions
  BY HandledType DEF FinishPublishing, Handling
<1>2. posts' = [posts EXCEPT ![c] = new]
  BY DEF FinishPublishing
<1>3. posts[s] \in [ActiveDestinations -> Nat]
  BY DEF TypeOK
<1>4. CASE s = c
  <2>1. posts'[s][d] = posts[s][d] + IF d \in PublishedTypes(plan) THEN 1 ELSE 0
    BY <1>1, <1>2, <1>4 DEF TypeOK
  <2> QED
    BY <1>3, <1>4, <2>1
<1>5. CASE s # c
  <2>1. posts'[s] = posts[s]
    BY <1>1, <1>2, <1>5 DEF TypeOK
  <2> QED
    BY <1>3, <1>5, <2>1
<1> QED
  BY <1>4, <1>5

\* Every step keeps the balance of posts against finished events and retries.
LEMMA RepeatedStep ==
    TypeOK /\ HandledIsHeld /\ TriedIsFinite /\ RepeatedPostsAreAsked /\ [Next]_vars
        => RepeatedPostsAreAsked'
<1> SUFFICES ASSUME TypeOK, HandledIsHeld, TriedIsFinite, RepeatedPostsAreAsked, [Next]_vars,
                    NEW s \in Submissions, NEW d \in ActiveDestinations
             PROVE  posts'[s][d] <= retries' + Cardinality(Tried(s)')
  BY DEF RepeatedPostsAreAsked, Tried, TriedIn, EventOf
<1>1. posts[s][d] <= retries + Cardinality(Tried(s))
  BY DEF RepeatedPostsAreAsked, Tried, TriedIn, EventOf
<1>2. IsFiniteSet(Tried(s))
  BY DEF TriedIsFinite
<1>3. /\ posts[s][d] \in Nat
      /\ retries \in Nat
      /\ Cardinality(Tried(s)) \in Nat
  BY <1>2, FS_CardinalityType DEF TypeOK
<1>4. CASE UNCHANGED <<posts, retries>> /\ Tried(s)' = Tried(s)
  BY <1>1, <1>4
<1>5. ASSUME NEW e \in EventIds, UNCHANGED <<posts, retries>>, Tried(s)' = Tried(s) \cup {e}
      PROVE  posts'[s][d] <= retries' + Cardinality(Tried(s)')
  <2>1. Cardinality(Tried(s)') \in {Cardinality(Tried(s)), Cardinality(Tried(s)) + 1}
    BY <1>2, <1>5, FS_AddElement
  <2> QED
    BY <1>1, <1>3, <1>5, <2>1
<1>6. ASSUME NEW e \in EventIds, UNCHANGED posts, retries' = retries + 1,
             Tried(s)' = Tried(s) \ {e}
      PROVE  posts'[s][d] <= retries' + Cardinality(Tried(s)')
  <2>1. Cardinality(Tried(s)') \in {Cardinality(Tried(s)), Cardinality(Tried(s)) - 1}
    BY <1>2, <1>6, FS_RemoveElement
  <2> QED
    BY <1>1, <1>3, <1>6, <2>1
<1>7. ASSUME NEW t \in Ticks, FinishPublishing(t), UNCHANGED retries,
             claimed[t] \notin Tried(s),
             Tried(s)' = IF ClaimedSubmission(t) = s THEN Tried(s) \cup {claimed[t]}
                                                     ELSE Tried(s)
      PROVE  posts'[s][d] <= retries' + Cardinality(Tried(s)')
  <2>1. /\ posts'[s][d] \in Nat
        /\ posts'[s][d] <= posts[s][d] + (IF ClaimedSubmission(t) = s THEN 1 ELSE 0)
    BY <1>7, PostsAdded
  <2>2. Cardinality(Tried(s)') =
            Cardinality(Tried(s)) + (IF ClaimedSubmission(t) = s THEN 1 ELSE 0)
    <3>1. Cardinality(Tried(s) \cup {claimed[t]}) = Cardinality(Tried(s)) + 1
      BY <1>2, <1>7, FS_AddElement
    <3> QED
      BY <1>3, <1>7, <3>1
  <2> QED
    BY <1>1, <1>3, <1>7, <2>1, <2>2
<1> QED
  BY <1>4, <1>5, <1>6, <1>7, TriedChanges

\* Whatever ticks overlap, throw or are cut short, a destination holds no more posts of
\* an item than its finished approved events and the retries an operator asked for.
THEOREM RepeatsAreAsked == Spec => []RepeatedPostsAreAsked
<1>1. Init => HandledIsHeld /\ TriedIsFinite /\ RepeatedPostsAreAsked
  <2> SUFFICES ASSUME Init
               PROVE  HandledIsHeld /\ TriedIsFinite /\ RepeatedPostsAreAsked
    OBVIOUS
  <2>1. \A s \in Submissions : Tried(s) = {}
    BY DEF Init, Tried, TriedIn
  <2>2. \A s \in Submissions, d \in ActiveDestinations : posts[s][d] = 0 /\ retries = 0
    BY DEF Init
  <2>3. RepeatedPostsAreAsked
    <3>1. \A s \in Submissions, d \in ActiveDestinations :
              posts[s][d] <= retries + Cardinality(Tried(s))
      BY <2>1, <2>2, FS_EmptySet
    <3> QED
      BY <3>1 DEF RepeatedPostsAreAsked, Tried, TriedIn, EventOf
  <2> QED
    BY <2>1, <2>3, FS_EmptySet DEF Init, HandledIsHeld, TriedIsFinite
<1> QED
  BY <1>1, HeldStep, FiniteStep, RepeatedStep, TypeCorrect, PTL DEF Spec

-----------------------------------------------------------------------------
(* The promise.                                                             *)

\* What is owed and paid, in a table of events.
OwedIn(table, s) ==
    {e \in EventIds : /\ table[e] # NoRow
                      /\ table[e].submission = s
                      /\ table[e].name = "approved"
                      /\ table[e].state = "pending"}
OwedOf(table) == [s \in Submissions |-> OwedIn(table, s)]
PaidOf(table) == [s \in Submissions |-> TriedIn(table, s)]
PublishedItems == {s \in Submissions : status[s] = "published"}

LEMMA PromisedSets ==
    /\ [s \in Submissions |-> Owed(s)] = OwedOf(events)
    /\ [s \in Submissions |-> Paid(s)] = PaidOf(events)
BY DEF Owed, Paid, OwedOf, PaidOf, OwedIn, TriedIn, EventOf

LEMMA PromisedSetsNext ==
    /\ [s \in Submissions |-> Owed(s)]' = OwedOf(events')
    /\ [s \in Submissions |-> Paid(s)]' = PaidOf(events')
BY DEF Owed, Paid, OwedOf, PaidOf, OwedIn, TriedIn, EventOf

\* A new row of an approval is owed; another is neither.
LEMMA InsertOwes ==
    ASSUME NEW table \in [EventIds -> Event \cup {NoRow}], NEW f \in EventIds,
           table[f] = NoRow, NEW x \in Submissions, NEW name \in {"created", "approved"}
    PROVE  LET after == WithEvent(table, f, x, name) IN
           /\ PaidOf(after) = PaidOf(table)
           /\ OwedOf(after) = IF name = "approved"
                              THEN [OwedOf(table) EXCEPT ![x] = @ \cup {f}]
                              ELSE OwedOf(table)
<1> DEFINE after == WithEvent(table, f, x, name)
<1>1. /\ after[f] # NoRow
      /\ after[f].submission = x /\ after[f].name = name
      /\ after[f].state = "pending"
      /\ \A g \in EventIds : g # f => after[g] = table[g]
  BY InsertedEvent
<1>2. \A s \in Submissions : TriedIn(after, s) = TriedIn(table, s)
  BY InsertCounts
<1> HIDE DEF after
<1>3. ASSUME NEW s \in Submissions
      PROVE  OwedIn(after, s) = IF name = "approved" /\ s = x THEN OwedIn(table, s) \cup {f}
                                                            ELSE OwedIn(table, s)
  <2>1. \A g \in EventIds : g # f => (g \in OwedIn(after, s) <=> g \in OwedIn(table, s))
    BY <1>1 DEF OwedIn
  <2>2. f \in OwedIn(after, s) <=> name = "approved" /\ s = x
    BY <1>1 DEF OwedIn
  <2>3. f \notin OwedIn(table, s)
    BY DEF OwedIn
  <2>4. OwedIn(after, s) \subseteq EventIds /\ OwedIn(table, s) \subseteq EventIds
    BY DEF OwedIn
  <2> QED
    BY <2>1, <2>2, <2>3, <2>4
<1> QED
  BY <1>2, <1>3 DEF PaidOf, OwedOf, after

\* The table after an UPDATE of one event's state.
WithState(f, st) == [events EXCEPT ![f].state = st]

\* Finishing an approved event pays it, making it pending owes it; an event of a
\* creation counts for nothing.
LEMMA StateOwes ==
    ASSUME TypeOK, NEW f \in EventIds, events[f] \in Event,
           NEW st \in {"pending", "done", "failed"}, NEW x, x = events[f].submission
    PROVE  LET after == WithState(f, st) IN
           /\ x \in Submissions
           /\ events[f].name # "approved" =>
                 OwedOf(after) = OwedOf(events) /\ PaidOf(after) = PaidOf(events)
           /\ events[f].name = "approved" /\ st = "pending" =>
                 /\ OwedOf(after) = [OwedOf(events) EXCEPT ![x] = @ \cup {f}]
                 /\ PaidOf(after) = [PaidOf(events) EXCEPT ![x] = @ \ {f}]
           /\ events[f].name = "approved" /\ st # "pending" =>
                 /\ OwedOf(after) = [OwedOf(events) EXCEPT ![x] = @ \ {f}]
                 /\ PaidOf(after) = [PaidOf(events) EXCEPT ![x] = @ \cup {f}]
<1> DEFINE after == WithState(f, st)
<1>1. events \in [EventIds -> Event \cup {NoRow}]
  BY DEF TypeOK
<1>2. x \in Submissions /\ events[f] # NoRow
  BY NoRowAssumption DEF Event
<1>3. /\ after[f] # NoRow
      /\ after[f].submission = x
      /\ after[f].name = events[f].name
      /\ after[f].state = st
  <2>1. after[f] = [events[f] EXCEPT !.state = st]
    BY <1>1 DEF WithState
  <2>2. after[f] \in Event
    BY <2>1 DEF Event
  <2> QED
    BY <2>1, <2>2, NoRowAssumption DEF Event
<1>4. \A g \in EventIds : g # f => after[g] = events[g]
  BY <1>1 DEF WithState
<1> HIDE DEF after
<1>5. ASSUME NEW s \in Submissions
      PROVE  /\ \A g \in EventIds : g # f =>
                    /\ g \in OwedIn(after, s) <=> g \in OwedIn(events, s)
                    /\ g \in TriedIn(after, s) <=> g \in TriedIn(events, s)
             /\ f \in OwedIn(after, s) <=>
                    events[f].name = "approved" /\ s = x /\ st = "pending"
             /\ f \in TriedIn(after, s) <=>
                    events[f].name = "approved" /\ s = x /\ st # "pending"
             /\ f \in OwedIn(events, s) \cup TriedIn(events, s) =>
                    events[f].name = "approved" /\ s = x
             /\ OwedIn(after, s) \cup TriedIn(after, s) \subseteq EventIds
             /\ OwedIn(events, s) \cup TriedIn(events, s) \subseteq EventIds
  BY <1>2, <1>3, <1>4 DEF OwedIn, TriedIn
<1>6. ASSUME NEW s \in Submissions, s # x \/ events[f].name # "approved"
      PROVE  OwedIn(after, s) = OwedIn(events, s) /\ TriedIn(after, s) = TriedIn(events, s)
  <2>1. /\ f \notin OwedIn(after, s) /\ f \notin TriedIn(after, s)
        /\ f \notin OwedIn(events, s) /\ f \notin TriedIn(events, s)
    BY <1>5, <1>6
  <2>2. \A g \in EventIds : g \in OwedIn(after, s) <=> g \in OwedIn(events, s)
    BY <1>5, <2>1
  <2>3. \A g \in EventIds : g \in TriedIn(after, s) <=> g \in TriedIn(events, s)
    BY <1>5, <2>1
  <2> QED
    BY <1>5, <2>2, <2>3
<1>7. ASSUME events[f].name = "approved", st = "pending"
      PROVE  /\ OwedIn(after, x) = OwedIn(events, x) \cup {f}
             /\ TriedIn(after, x) = TriedIn(events, x) \ {f}
  BY <1>2, <1>5, <1>7
<1>8. ASSUME events[f].name = "approved", st # "pending"
      PROVE  /\ OwedIn(after, x) = OwedIn(events, x) \ {f}
             /\ TriedIn(after, x) = TriedIn(events, x) \cup {f}
  BY <1>2, <1>5, <1>8
<1>9. CASE events[f].name # "approved"
  BY <1>2, <1>6, <1>9 DEF OwedOf, PaidOf, after
<1>10. CASE events[f].name = "approved" /\ st = "pending"
  BY <1>2, <1>6, <1>7, <1>10 DEF OwedOf, PaidOf, after
<1>11. CASE events[f].name = "approved" /\ st # "pending"
  BY <1>2, <1>6, <1>8, <1>11 DEF OwedOf, PaidOf, after
<1> QED
  BY <1>2, <1>9, <1>10, <1>11 DEF after

\* What a step that sets one item's status does to what is said.
LEMMA StatusSays ==
    ASSUME TypeOK, NEW x \in Submissions, NEW v, status' = [status EXCEPT ![x] = v]
    PROVE  PublishedItems' = IF v = "published" THEN PublishedItems \cup {x}
                                                ELSE PublishedItems \ {x}
<1>1. \A s \in Submissions : status'[s] = IF s = x THEN v ELSE status[s]
  BY DEF TypeOK
<1> QED
  BY <1>1 DEF PublishedItems

\* A step that changes no row of an approval, no post and no "published".
LEMMA StutterPromised ==
    ASSUME OwedOf(events') = OwedOf(events), PaidOf(events') = PaidOf(events),
           posts' = posts, PublishedItems' = PublishedItems
    PROVE  UNCHANGED Promise!vars
BY PromisedSets, PromisedSetsNext DEF Promise!vars, PublishedItems

\* A decision that queues nothing.
LEMMA DecisionPromised ==
    ASSUME NEW x \in Submissions,
           OwedOf(events') = OwedOf(events), PaidOf(events') = PaidOf(events),
           posts' = posts, PublishedItems' = PublishedItems \ {x}
    PROVE  Promise!Next
<1>1. Promise!Decide(x)
  BY PromisedSets, PromisedSetsNext DEF Promise!Decide, PublishedItems
<1> QED
  BY <1>1 DEF Promise!Next

\* An approval, by a reviewer or by the rule, with its new event.
LEMMA ApprovalPromised ==
    ASSUME NEW x \in Submissions, NEW f \in EventIds, events[f] = NoRow,
           OwedOf(events') = [OwedOf(events) EXCEPT ![x] = @ \cup {f}],
           PaidOf(events') = PaidOf(events),
           posts' = posts, PublishedItems' = PublishedItems \ {x}
    PROVE  Promise!Next
<1>1. \A s \in Submissions : f \notin OwedOf(events)[s] \cup PaidOf(events)[s]
  BY DEF OwedOf, PaidOf, OwedIn, TriedIn
<1>2. Promise!Fresh(f)
  BY <1>1, PromisedSets DEF Promise!Fresh
<1>3. Promise!Approve(x, f)
  BY <1>2, PromisedSets, PromisedSetsNext DEF Promise!Approve, PublishedItems
<1> QED
  BY <1>3 DEF Promise!Next

\* An event goes from owed to paid ...
LEMMA PaymentPromised ==
    ASSUME NEW x \in Submissions, NEW f \in EventIds, f \in OwedIn(events, x),
           OwedOf(events') = [OwedOf(events) EXCEPT ![x] = @ \ {f}],
           PaidOf(events') = [PaidOf(events) EXCEPT ![x] = @ \cup {f}]
    PROVE  Promise!Pays(x, f)
<1>1. f \in OwedOf(events)[x]
  BY DEF OwedOf
<1> QED
  BY <1>1, PromisedSets, PromisedSetsNext DEF Promise!Pays

\* ... and back.
LEMMA RetryPromised ==
    ASSUME NEW x \in Submissions, NEW f \in EventIds, f \in TriedIn(events, x),
           OwedOf(events') = [OwedOf(events) EXCEPT ![x] = @ \cup {f}],
           PaidOf(events') = [PaidOf(events) EXCEPT ![x] = @ \ {f}],
           posts' = posts, PublishedItems' = PublishedItems
    PROVE  Promise!Next
<1>1. f \in PaidOf(events)[x]
  BY DEF PaidOf
<1>2. Promise!Retry(x, f)
  BY <1>1, PromisedSets, PromisedSetsNext DEF Promise!Retry, PublishedItems
<1> QED
  BY <1>2 DEF Promise!Next

\* A publishing handler pays its own event, which is pending as long as it is held,
\* and says "published" only if a destination of the plan was posted to.
LEMMA PublishingPromised ==
    ASSUME TypeOK, HandledIsHeld, NEW t \in Ticks, FinishPublishing(t)
    PROVE  Promise!Next
<1> DEFINE plan == choosePublishingPlan(policy, seen[t].visibility)
<1> SUFFICES ASSUME NEW x, x = ClaimedSubmission(t), NEW e, e = claimed[t], NEW on,
                    on = {d \in ActiveDestinations : d \in PublishedTypes(plan)}
             PROVE  Promise!Next
  OBVIOUS
<1>1. /\ e \in EventIds /\ events[e] \in Event /\ x \in Submissions
      /\ events[e].name = "approved" /\ events[e].submission = x
      /\ events[e].state = "pending"
      /\ events' = WithState(e, "done")
  BY HandledType
  DEF FinishPublishing, Handling, HandledIsHeld, ClaimedSubmission, EventDone, WithState
<1>2. e \in OwedIn(events, x)
  BY <1>1, NoRowAssumption DEF OwedIn
<1>3. Promise!Pays(x, e)
  <2>1. /\ OwedOf(events') = [OwedOf(events) EXCEPT ![x] = @ \ {e}]
        /\ PaidOf(events') = [PaidOf(events) EXCEPT ![x] = @ \cup {e}]
    BY <1>1, StateOwes
  <2> QED
    BY <1>1, <1>2, <2>1, PaymentPromised
<1>4. posts' = [posts EXCEPT ![x] =
                   [d \in ActiveDestinations |-> @[d] + IF d \in on THEN 1 ELSE 0]]
  BY DEF FinishPublishing
<1>5. \/ on # {} /\ PublishedItems' = PublishedItems \cup {x}
      \/ PublishedItems' = PublishedItems \ {x}
  <2>1. CASE FailingTargets(plan) = {}
    <3>1. status' = [status EXCEPT ![x] = "published"] /\ Targets(plan) # {}
      BY <2>1 DEF FinishPublishing
    <3>2. PICK i \in Targets(plan) : TRUE
      BY <3>1
    <3>3. plan[i] \in on
      BY <2>1, <3>2 DEF Targets, PublishedTypes
    <3> QED
      BY <1>1, <3>1, <3>3, StatusSays
  <2>2. CASE FailingTargets(plan) # {}
    <3>1. status' = [status EXCEPT ![x] = "publish_failed"]
      BY <2>2 DEF FinishPublishing
    <3> QED
      BY <1>1, <3>1, StatusSays
  <2> QED
    BY <2>1, <2>2
<1>6. Promise!Publish(x, e, on)
  BY <1>3, <1>4, <1>5 DEF Promise!Publish, PublishedItems
<1>7. on \in SUBSET ActiveDestinations
  OBVIOUS
<1> QED
  BY <1>1, <1>6, <1>7 DEF Promise!Next

\* A tick's handler of a created event pays and owes nothing with it.
LEMMA ReviewOwesNothing ==
    ASSUME TypeOK, NEW t \in Ticks, Handling(t, "created")
    PROVE  /\ ClaimedSubmission(t) \in Submissions
           /\ EventDone(t) \in [EventIds -> Event \cup {NoRow}]
           /\ OwedOf(EventDone(t)) = OwedOf(events)
           /\ PaidOf(EventDone(t)) = PaidOf(events)
           /\ \A f \in EventIds : events[f] = NoRow => EventDone(t)[f] = NoRow
<1>1. /\ claimed[t] \in EventIds /\ events[claimed[t]] \in Event
      /\ ClaimedSubmission(t) \in Submissions
      /\ events[claimed[t]].name = "created"
  BY HandledType DEF Handling
<1>2. EventDone(t) = WithState(claimed[t], "done")
  BY DEF EventDone, WithState
<1>3. EventDone(t) \in [EventIds -> Event \cup {NoRow}]
  BY <1>1, EventStateType DEF EventDone, TypeOK
<1>4. \A f \in EventIds : events[f] = NoRow => EventDone(t)[f] = NoRow
  BY <1>1, NoRowAssumption DEF EventDone, TypeOK
<1> QED
  BY <1>1, <1>2, <1>3, <1>4, StateOwes

\* Every step of the API, of an operator and of a tick is a step of the promise, or
\* does not show.
LEMMA KeepsStep == TypeOK /\ HandledIsHeld /\ [Next]_vars => [Promise!Next]_(Promise!vars)
<1> SUFFICES ASSUME TypeOK, HandledIsHeld, [Next]_vars
             PROVE  Promise!Next \/ UNCHANGED Promise!vars
  OBVIOUS
<1>0. events \in [EventIds -> Event \cup {NoRow}]
  BY DEF TypeOK
<1>1. ASSUME NEW s \in Submissions, NEW v \in Visibilities, Create(s, v) \/ Resubmit(s, v)
      PROVE  UNCHANGED Promise!vars
  <2>1. OwedOf(events') = OwedOf(events) /\ PaidOf(events') = PaidOf(events)
    BY <1>0, <1>1, InsertOwes DEF Create, Resubmit
  <2>2. PublishedItems' = PublishedItems
    <3>1. PublishedItems' = PublishedItems \ {s}
      BY <1>1, StatusSays DEF Create, Resubmit
    <3>2. s \notin PublishedItems
      BY <1>1 DEF Create, Resubmit, PublishedItems
    <3> QED
      BY <3>1, <3>2
  <2> QED
    BY <1>1, <2>1, <2>2, StutterPromised DEF Create, Resubmit
<1>2. ASSUME NEW r \in RequestIds, NEW u \in Users, Approve(r, u)
      PROVE  Promise!Next
  <2>1. PICK s \in Submissions : s = requests[r].submission
    BY <1>2, RecordActionType DEF Approve
  <2>2. PICK f \in EventIds : events[f] = NoRow /\ events' = WithEvent(events, f, s, "approved")
    BY <1>2, <2>1 DEF Approve
  <2>3. /\ OwedOf(events') = [OwedOf(events) EXCEPT ![s] = @ \cup {f}]
        /\ PaidOf(events') = PaidOf(events)
    <3>1. LET after == WithEvent(events, f, s, "approved")
          IN  /\ OwedOf(after) = [OwedOf(events) EXCEPT ![s] = @ \cup {f}]
              /\ PaidOf(after) = PaidOf(events)
      BY <1>0, <2>2, InsertOwes
    <3> QED
      BY <2>2, <3>1
  <2>4. PublishedItems' = PublishedItems \ {s}
    BY <1>2, <2>1, StatusSays DEF Approve, submissionStatusMap
  <2> QED
    BY <1>2, <2>1, <2>2, <2>3, <2>4, ApprovalPromised DEF Approve
<1>3. ASSUME NEW r \in RequestIds, NEW u \in Users,
             \/ ApproveFirstStage(r, u)
             \/ \E a \in {"reject", "request_changes"} : SendBack(r, u, a)
      PROVE  Promise!Next
  <2>1. PICK s \in Submissions : s = requests[r].submission
    BY <1>3, RecordActionType DEF ApproveFirstStage, SendBack
  <2>2. PICK v : v # "published" /\ status' = [status EXCEPT ![s] = v]
    BY <1>3, <2>1 DEF ApproveFirstStage, SendBack, submissionStatusMap
  <2>3. PublishedItems' = PublishedItems \ {s}
    BY <2>2, StatusSays
  <2> QED
    BY <1>3, <2>3, DecisionPromised DEF ApproveFirstStage, SendBack
<1>4. ASSUME NEW e \in EventIds, RetryWorkflowEvent(e)
      PROVE  Promise!Next \/ UNCHANGED Promise!vars
  <2>1. /\ events[e] \in Event /\ events[e].state # "pending"
        /\ events' = WithState(e, "pending")
        /\ posts' = posts /\ PublishedItems' = PublishedItems
    BY <1>0, <1>4 DEF RetryWorkflowEvent, WithState, PublishedItems
  <2>2. CASE events[e].name = "approved"
    <3>1. PICK s : s = events[e].submission
      OBVIOUS
    <3>2. /\ s \in Submissions
          /\ OwedOf(events') = [OwedOf(events) EXCEPT ![s] = @ \cup {e}]
          /\ PaidOf(events') = [PaidOf(events) EXCEPT ![s] = @ \ {e}]
      BY <2>1, <2>2, <3>1, StateOwes
    <3>3. e \in TriedIn(events, s)
      BY <2>1, <2>2, <3>1, NoRowAssumption DEF TriedIn
    <3> QED
      BY <2>1, <3>2, <3>3, RetryPromised
  <2>3. CASE events[e].name # "approved"
    BY <2>1, <2>3, StateOwes, StutterPromised
  <2> QED
    BY <2>2, <2>3
<1>5. ASSUME NEW t \in Ticks, NEW review \in Reviews, FinishWithAutoApproval(t, review)
      PROVE  Promise!Next
  <2>1. PICK s : s = ClaimedSubmission(t)
    OBVIOUS
  <2>2. Handling(t, "created") /\ s \in Submissions
    BY <1>5, <2>1, ReviewOwesNothing DEF FinishWithAutoApproval
  <2>3. PICK f \in EventIds :
           /\ events[f] = NoRow
           /\ events' = WithEvent(EventDone(t), f, s, "approved")
    BY <1>5, <2>1 DEF FinishWithAutoApproval
  <2>4. /\ OwedOf(events') = [OwedOf(events) EXCEPT ![s] = @ \cup {f}]
        /\ PaidOf(events') = PaidOf(events)
    BY <2>2, <2>3, ReviewOwesNothing, InsertOwes
  <2>5. PublishedItems' = PublishedItems \ {s}
    <3>1. PICK v : v # "published" /\ status' = [status EXCEPT ![s] = v]
      BY <1>5, <2>1 DEF FinishWithAutoApproval
    <3> QED
      BY <2>2, <3>1, StatusSays
  <2> QED
    BY <1>5, <2>2, <2>3, <2>4, <2>5, ApprovalPromised DEF FinishWithAutoApproval
<1>6. ASSUME NEW t \in Ticks, NEW review \in Reviews, FinishWithReviewRequest(t, review)
      PROVE  Promise!Next
  <2>1. Handling(t, "created") /\ events' = EventDone(t)
    BY <1>6 DEF FinishWithReviewRequest
  <2>2. PICK s \in Submissions : s = ClaimedSubmission(t)
    BY <2>1, ReviewOwesNothing
  <2>3. PublishedItems' = PublishedItems \ {s}
    <3>1. PICK v : v # "published" /\ status' = [status EXCEPT ![s] = v]
      BY <1>6, <2>2 DEF FinishWithReviewRequest
    <3> QED
      BY <3>1, StatusSays
  <2> QED
    BY <1>6, <2>1, <2>3, ReviewOwesNothing, DecisionPromised DEF FinishWithReviewRequest
<1>7. ASSUME NEW t \in Ticks, MarkEventFailed(t)
      PROVE  Promise!Next \/ UNCHANGED Promise!vars
  <2>1. PICK e \in EventIds : e = claimed[t]
    BY <1>7, HandledType DEF MarkEventFailed
  <2>2. /\ events[e] \in Event /\ events' = WithState(e, "failed")
        /\ posts' = posts /\ PublishedItems' = PublishedItems
    BY <1>7, <2>1, HandledType DEF MarkEventFailed, WithState, PublishedItems
  <2>3. CASE events[e].name = "approved"
    <3>1. PICK s : s = events[e].submission
      OBVIOUS
    <3>2. /\ s \in Submissions
          /\ OwedOf(events') = [OwedOf(events) EXCEPT ![s] = @ \ {e}]
          /\ PaidOf(events') = [PaidOf(events) EXCEPT ![s] = @ \cup {e}]
      BY <2>2, <2>3, <3>1, StateOwes
    <3>3. CASE events[e].state = "pending"
      <4>1. e \in OwedIn(events, s)
        BY <2>2, <2>3, <3>1, <3>3, NoRowAssumption DEF OwedIn
      <4>2. Promise!Pays(s, e)
        BY <3>2, <4>1, PaymentPromised
      <4>3. Promise!GiveUp(s, e)
        BY <2>2, <4>2 DEF Promise!GiveUp, PublishedItems
      <4> QED
        BY <3>2, <4>3 DEF Promise!Next
    <3>4. CASE events[e].state # "pending"
      <4>1. e \in TriedIn(events, s) /\ e \notin OwedIn(events, s)
        BY <2>2, <2>3, <3>1, <3>4, NoRowAssumption DEF TriedIn, OwedIn
      <4>2. /\ OwedOf(events)[s] \ {e} = OwedOf(events)[s]
            /\ PaidOf(events)[s] \cup {e} = PaidOf(events)[s]
        BY <3>2, <4>1 DEF OwedOf, PaidOf
      <4>3. OwedOf(events') = OwedOf(events) /\ PaidOf(events') = PaidOf(events)
        BY <3>2, <4>2 DEF OwedOf, PaidOf
      <4> QED
        BY <2>2, <4>3, StutterPromised
    <3> QED
      BY <3>3, <3>4
  <2>4. CASE events[e].name # "approved"
    BY <2>2, <2>4, StateOwes, StutterPromised
  <2> QED
    BY <2>3, <2>4
<1>8. CASE UNCHANGED <<events, posts, status>>
  <2>1. PublishedItems' = PublishedItems
    BY <1>8 DEF PublishedItems
  <2> QED
    BY <1>8, <2>1, StutterPromised
<1> QED
  BY <1>1, <1>2, <1>3, <1>4, <1>5, <1>6, <1>7, <1>8, PublishingPromised
  DEF Next, Member, Worker, Finish, UpdateWorkflowPolicy, Claim, HandlerThrows, Interrupt,
      vars, rowVars

\* Nothing is owed, paid or shown at first.
LEMMA KeepsInit == Init => Promise!Init
BY DEF Init, Promise!Init, Owed, Paid, EventOf

\* Submissions, decisions, ticks, retries and failures, in any interleaving, publish as
\* promised: a publication for each approval or retry, none twice.
THEOREM ImplementsPromise == Spec => PublishesAsPromised
<1>1. Init => HandledIsHeld
  BY DEF Init, HandledIsHeld
<1> QED
  BY <1>1, HeldStep, KeepsInit, KeepsStep, TypeCorrect, PTL
  DEF Spec, PublishesAsPromised, Promise!Spec

=============================================================================
