------------------------- MODULE NotificationPromise -------------------------
(* What a submitter can rely on when something notifies them, without how it is
   done: e-mails may leave several times while the job is open, then there is one
   notification, whose e-mail outcome is "delivered" only if one left, and no
   e-mail follows it. *)

CONSTANTS Jobs, Outcomes

VARIABLES mailed, told

Init == mailed = {} /\ told = [j \in Jobs |-> "no"]

Mail(j) ==
    /\ told[j] = "no"
    /\ mailed' = mailed \cup {j}
    /\ UNCHANGED told

Tell(j, outcome) ==
    /\ told[j] = "no"
    /\ outcome = "delivered" => j \in mailed
    /\ told' = [told EXCEPT ![j] = outcome]
    /\ UNCHANGED mailed

Next == \E j \in Jobs : Mail(j) \/ \E outcome \in Outcomes : Tell(j, outcome)

Spec == Init /\ [][Next]_<<mailed, told>>
=============================================================================
