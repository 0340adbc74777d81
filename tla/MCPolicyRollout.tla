-------------------------- MODULE MCPolicyRollout --------------------------
(* Instances of PolicyRollout for TLC. *)
EXTENDS PolicyRollout

CONSTANTS c1, c2

VideoToAdmin == [contentTypeApprovers |-> [video |-> "club_admin"]]
VideoToManager == [contentTypeApprovers |-> [video |-> "team_manager"]]
NoPublishedPush == [email |-> TRUE,
                    eventChannels |-> [submission_published |-> [push |-> FALSE]]]

OrganizationRow ==
    [defaultWorkflowPolicy EXCEPT
        !.autoApproveInternalLowRisk = TRUE,
        !.routingRule = VideoToAdmin,
        !.approvalRule = [requireSecondApprovalForPublic |-> TRUE]]

\* A club that repeats the organization's routing and switches agents off.
ClubRow ==
    [field \in PolicyFields |->
        CASE field = "routingRule" -> VideoToAdmin
          [] field = "allowAgentRouting" -> FALSE
          [] field \in RuleFields \ {"routingRule"} -> EmptyObject
          [] OTHER -> Null]

MCFirstRows == [scope \in Scopes |-> IF scope = Organization THEN OrganizationRow ELSE ClubRow]

\* The organization changes what the club repeats, sets a limit with three decimals,
\* silences a channel; the club inherits again.
MCPatches ==
    [scope \in Scopes |->
        IF scope = Organization
        THEN {[routingRule |-> VideoToManager],
              [autoApproveMaxRisk |-> 125, notificationRule |-> NoPublishedPush]}
        ELSE {[routingRule |-> Null]}]

MCSimulations ==
    {[visibility |-> "public", contentType |-> "video", riskScore |-> 350,
      flagged |-> FALSE, agentRole |-> "club_comms"],
     [visibility |-> "internal", contentType |-> "photo", riskScore |-> 127,
      flagged |-> FALSE, agentRole |-> "club_comms"],
     [visibility |-> "internal", contentType |-> "photo", riskScore |-> 400,
      flagged |-> TRUE, agentRole |-> Null]}

OneClub == {<<"club">>}
EveryoneManages == [scope \in Scopes |-> Users]
=============================================================================
