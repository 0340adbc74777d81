--------------------------- MODULE MCPolicyStore ---------------------------
(* Instances of PolicyStore for TLC. *)
EXTENDS PolicyStore

CONSTANTS c1, c2

\* The rules the bootstrap stores, cut down to what the edits touch.
VideoToAdmin == [contentTypeApprovers |-> [video |-> "club_admin"]]
VideoToManager == [contentTypeApprovers |-> [video |-> "team_manager"]]
AllChannels == [email |-> TRUE, push |-> TRUE]
NoPublishedPush == [email |-> TRUE,
                    eventChannels |-> [submission_published |-> [push |-> FALSE]]]
OrganizationRow ==
    [defaultWorkflowPolicy EXCEPT
        !.routingRule = VideoToAdmin,
        !.notificationRule = AllChannels]

\* A club that overrides nothing.
NoOverrides ==
    [field \in PolicyFields |-> IF field \in RuleFields THEN EmptyObject ELSE Null]

ClubRow == [NoOverrides EXCEPT !.routingRule = VideoToManager]

MCFirstRows ==
    [scope \in Scopes |-> IF scope = Organization THEN OrganizationRow ELSE ClubRow]
\* One field at a time, and both at once: a limit with three decimals, a rule
\* cleared, a rule set, a boolean set.
MCPatches ==
    [scope \in Scopes |->
        IF scope = Organization
        THEN {[autoApproveMaxRisk |-> 125],
              [routingRule |-> EmptyObject, allowAgentRouting |-> FALSE]}
        ELSE {[routingRule |-> EmptyObject], [notificationRule |-> NoPublishedPush],
              [allowAgentRouting |-> Null]}]
FewPatches ==
    [scope \in Scopes |->
        IF scope = Organization THEN {[autoApproveMaxRisk |-> 125], [allowAgentRouting |-> FALSE]}
        ELSE {[routingRule |-> Null]}]

OneClub == {<<"club">>}
EveryoneManages == [scope \in Scopes |-> Users]

\* What OnlyAskedFieldsEverChange supposes of the rules.
ASSUME FormAssumption == FormShowsRules
=============================================================================
