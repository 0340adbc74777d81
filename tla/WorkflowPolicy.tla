--------------------------- MODULE WorkflowPolicy ---------------------------
(***************************************************************************)
(* The workflow policy of a club and the decisions the worker and the API  *)
(* take from it: which role reviews a submission, whether it skips the     *)
(* human queue, whether a second stage is needed, where it is published.   *)
(*                                                                         *)
(* A JSON rule object is a function whose DOMAIN is the set of keys        *)
(* present, so the empty object {} is the function with an empty domain    *)
(* and an absent key differs from a key that holds a default.  SQL NULL is *)
(* the model value Null.  Risk scores are in thousandths.                  *)
(***************************************************************************)
EXTENDS Integers, Sequences

CONSTANTS
    Null,               \* SQL NULL, JavaScript null and undefined
    ActiveDestinations  \* types of the club's active publishing_destinations rows

ReviewerRoles == {"team_manager", "club_comms", "club_admin"}
Visibilities == {"internal", "public"}
ContentTypes == {"photo", "video", "text", "mixed"}

mediumRisk == 350
internalDestinationType == "internal_feed"

\* Destination types with an entry in the worker's adapter table.
AdapterTypes == {internalDestinationType}

EmptyObject == [key \in {} |-> Null]

\* object?.key, with the value the code falls back to when the key is absent.
Field(object, key, fallback) ==
    IF key \in DOMAIN object THEN object[key] ELSE fallback

-----------------------------------------------------------------------------
(* The effective policy: club override, then organization default, then     *)
(* the built-in default.                                                    *)

defaultWorkflowPolicy == [
    defaultApproverRole        |-> "team_manager",
    publicApproverRole         |-> "club_comms",
    mediumRiskApproverRole     |-> "club_comms",
    allowAgentRouting          |-> TRUE,
    autoApproveInternalLowRisk |-> FALSE,
    autoApproveMaxRisk         |-> mediumRisk,
    autoApprovalRule           |-> EmptyObject,
    routingRule                |-> EmptyObject,
    approvalRule               |-> EmptyObject,
    publishingRule             |-> EmptyObject,
    notificationRule           |-> EmptyObject]

PolicyFields == DOMAIN defaultWorkflowPolicy
RuleFields == {"autoApprovalRule", "routingRule", "approvalRule",
               "publishingRule", "notificationRule"}

pickOverride(clubValue, orgValue, fallbackValue) ==
    CASE clubValue # Null -> clubValue
      [] clubValue = Null /\ orgValue # Null -> orgValue
      [] OTHER -> fallbackValue

\* A club's {} inherits, an organization's {} is an explicit empty rule.
parseOverrideJson(rule) == IF rule = EmptyObject THEN Null ELSE rule

\* org and club are stored rows; a missing row reads as NULL in every column.
EffectiveWorkflowPolicy(org, club) ==
    [field \in PolicyFields |->
        pickOverride(IF field \in RuleFields THEN parseOverrideJson(club[field])
                                             ELSE club[field],
                     org[field],
                     defaultWorkflowPolicy[field])]

-----------------------------------------------------------------------------
(* Who reviews.                                                             *)

\* routing_rule_content_type: a rule for the content type beats everything.
HasContentTypeApprover(policy, contentType) ==
    contentType \in DOMAIN Field(policy.routingRule, "contentTypeApprovers", EmptyObject)

choosePolicyApproverRole(policy, visibility, riskScore, contentType) ==
    CASE HasContentTypeApprover(policy, contentType) ->
            policy.routingRule["contentTypeApprovers"][contentType]
      [] ~HasContentTypeApprover(policy, contentType) /\ visibility = "public" ->
            policy.publicApproverRole
      [] ~HasContentTypeApprover(policy, contentType) /\ visibility # "public"
         /\ riskScore >= mediumRisk -> policy.mediumRiskApproverRole
      [] OTHER -> policy.defaultApproverRole

\* The Hermes agent may redirect a review unless a content-type rule names the role.
chooseRoutingDecision(policy, visibility, review, contentType) ==
    IF /\ ~HasContentTypeApprover(policy, contentType)
       /\ policy.allowAgentRouting
       /\ review.mode = "hermes"
       /\ review.agentRole # Null
    THEN review.agentRole
    ELSE choosePolicyApproverRole(policy, visibility, review.riskScore, contentType)

-----------------------------------------------------------------------------
(* Automatic approval, second approval and the publishing plan.             *)

shouldAutoApproveSubmission(policy, visibility, review, contentType) ==
    LET blocked == Field(policy.autoApprovalRule, "blockedContentTypes", {})
        allowed == Field(policy.autoApprovalRule, "allowedContentTypes", {})
    IN  /\ policy.autoApproveInternalLowRisk
        /\ visibility = "internal"
        /\ review.riskScore <= policy.autoApproveMaxRisk
        /\ ~review.flagged
        /\ contentType \notin blocked
        /\ allowed = {} \/ contentType \in allowed

shouldRequireSecondApprovalForAction(policy, stage, visibility, contentType) ==
    LET types == Field(policy.approvalRule, "secondApprovalContentTypes", {})
    IN  /\ stage # "secondary"
        /\ visibility = "public"
        /\ Field(policy.approvalRule, "requireSecondApprovalForPublic", FALSE)
        /\ types = {} \/ contentType \in types

secondApproverRole(policy) ==
    Field(policy.approvalRule, "secondApproverRole", "club_admin")

\* A sequence of distinct destination types, in the order they are published.
choosePublishingPlan(policy, visibility) ==
    LET byVisibility ==
            Field(Field(policy.publishingRule, "visibilityDestinations", EmptyObject),
                  visibility, <<>>)
        configured == Field(policy.publishingRule, "destinations", <<>>)
    IN  CASE byVisibility # <<>> -> byVisibility
          [] byVisibility = <<>> /\ configured # <<>> -> configured
          [] OTHER -> <<internalDestinationType>>

\* The active destination rows a plan reaches (one row per type), as plan indices.
Targets(plan) == {i \in DOMAIN plan : plan[i] \in ActiveDestinations}

\* publishToDestination throws for a type without an adapter ...
FailingTargets(plan) == {i \in Targets(plan) : plan[i] \notin AdapterTypes}

\* Mutant: the loop stops one target short.
PublishedTypesShort(plan) ==
    {plan[i] : i \in {j \in Targets(plan) : \E k \in Targets(plan) : j < k}}

\* ... and the targets before the first failure have been published by then.
PublishedTypes(plan) ==
    {plan[i] : i \in {j \in Targets(plan) : \A k \in FailingTargets(plan) : j < k}}

=============================================================================
