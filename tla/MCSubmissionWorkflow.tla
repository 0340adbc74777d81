----------------------- MODULE MCSubmissionWorkflow -----------------------
(* Instances of SubmissionWorkflow for TLC. *)
EXTENDS SubmissionWorkflow, TLC

CONSTANTS s1, s2, r1, r2, r3, e1, e2, e3, e4, t1, t2

\* A team manager, whose membership is for one team, and a club-wide admin.
MCMemberships == {
    [user |-> "manager", role |-> "team_manager", team |-> "u12", since |-> 1],
    [user |-> "admin",   role |-> "club_admin",   team |-> Null,  since |-> 2]}

\* One reviewer for both stages, and a member who may decide nothing.
SmallClub == {
    [user |-> "admin",  role |-> "club_admin",       team |-> Null,  since |-> 1],
    [user |-> "parent", role |-> "submitter_parent", team |-> "u12", since |-> 2]}

MCContentTypeOf == [s \in Submissions |-> "video"]
MCTeamOf == [s \in Submissions |-> "u12"]

\* Public items need a second approval; nothing is approved automatically.
TwoStagePolicy ==
    [defaultWorkflowPolicy EXCEPT
        !.publicApproverRole = "team_manager",
        !.approvalRule = [requireSecondApprovalForPublic |-> TRUE]]

\* One approval is enough, low-risk internal items need none, and public items
\* also go to a destination type that has no adapter.
AutoApprovePolicy ==
    [defaultWorkflowPolicy EXCEPT
        !.autoApproveInternalLowRisk = TRUE,
        !.publishingRule = [visibilityDestinations |->
            [public |-> <<"internal_feed", "club_website">>]]]

\* All of it: low-risk internal items are released, public ones need two approvals
\* and have a destination that fails.
EverythingPolicy ==
    [AutoApprovePolicy EXCEPT !.approvalRule = TwoStagePolicy.approvalRule]

MCPolicies == {TwoStagePolicy, AutoApprovePolicy}
OnlyTwoStage == {TwoStagePolicy}
OnlyEverything == {EverythingPolicy}
OnlyAutoApprove == {AutoApprovePolicy}

\* The local fallback's low and high outcomes, and a Hermes one that redirects.
LowRisk == [riskScore |-> 150, flagged |-> FALSE, mode |-> "fallback", agentRole |-> Null]
HighRisk == [riskScore |-> 850, flagged |-> TRUE, mode |-> "fallback", agentRole |-> Null]
Redirected == [riskScore |-> 350, flagged |-> FALSE, mode |-> "hermes", agentRole |-> "club_admin"]
MCReviews == {LowRisk, HighRisk, Redirected}

\* Ids are UUIDs: which free one an INSERT takes makes no difference.
Symmetry == Permutations(RequestIds) \cup Permutations(EventIds) \cup Permutations(Ticks)
=============================================================================
