------------------------- MODULE MCReviewProvider -------------------------
(* Instances of ReviewProvider for TLC. *)
EXTENDS ReviewProvider

\* The bootstrap's organization: internal items up to 0.35 are approved
\* automatically; and one whose limit admits any score.
SeededPolicy ==
    [defaultWorkflowPolicy EXCEPT !.autoApproveInternalLowRisk = TRUE,
                                  !.routingRule = [contentTypeApprovers |-> [video |-> "club_admin"]]]
AnyScorePolicy == [SeededPolicy EXCEPT !.autoApproveMaxRisk = 1000]
MCPolicies == {SeededPolicy, AnyScorePolicy, defaultWorkflowPolicy}
MCTexts == {Null, {}, {"contact"}, {"injury", "profanity"}, Words}
=============================================================================
