------------------------ MODULE PolicyRolloutProofs ------------------------
(***************************************************************************)
(* Theorems about PolicyRollout, for any clubs, editors and patches: the   *)
(* console's way of saving keeps what PolicyStoreProofs shows of the rows  *)
(* and the history, and its simulator decides as the worker does.          *)
(***************************************************************************)
EXTENDS PolicyRollout, PolicyStoreProofs, FiniteSetTheorems

-----------------------------------------------------------------------------
(* The console's steps and the store's.                                     *)

\* A restore is not one of the given patches, but sets a field to a value that a
\* policy of the history had.
LEMMA RestoreKeepsBefore ==
    ASSUME BeforeInv, NEW c \in Clients, NEW scope \in Scopes, ConsoleRestores(c, scope)
    PROVE  BeforeInv'
<1>1. PICK user \in Users, i \in EntriesOf(scope) :
          \E field \in listChangedPolicyAreas(history[i].previous, history[i].next) :
             LET patch == [key \in {field} |-> history[i].previous[key]]
             IN  /\ ValidPatch(scope, patch)
                 /\ Send(c, <<Request(scope, user, patch, {field}, NoCleanup)>>)
  BY DEF ConsoleRestores
<1>2. PICK field \in PolicyFields :
          LET patch == [key \in {field} |-> history[i].previous[key]]
          IN  /\ ValidPatch(scope, patch)
              /\ Send(c, <<Request(scope, user, patch, {field}, NoCleanup)>>)
  BY <1>1 DEF listChangedPolicyAreas
<1> DEFINE patch == [key \in {field} |-> history[i].previous[key]]
           request == Request(scope, user, patch, {field}, NoCleanup)
<1>3. IsPolicy(history[i].previous)
  BY TypeParts DEF BeforeInv, TypeInv, HistoryOK, EntriesOf
<1>4. DOMAIN patch = {field} /\ FieldValueOK(field, patch[field]) /\ ValidPatch(scope, patch)
  BY <1>2, <1>3 DEF IsPolicy
<1> HIDE DEF patch
<1>5. IsRequest(request)
  BY <1>4 DEF IsRequest, Request, NoCleanup
<1>6. Send(c, <<request>>)
  BY <1>2 DEF patch
<1> HIDE DEF request
<1>7. TypeInv'
  BY <1>5, <1>6, OneRequest, SendKeepsType DEF BeforeInv
<1> QED
  BY <1>6, <1>7, SendKeepsBefore

\* Every other step is a step of the store, or leaves it alone.
LEMMA RolloutStepKeepsBefore == BeforeInv /\ [RolloutNext]_rolloutVars => BeforeInv'
<1> SUFFICES ASSUME BeforeInv, [RolloutNext]_rolloutVars
             PROVE  BeforeInv'
  OBVIOUS
<1>1. [Next]_vars => BeforeInv'
  BY BeforeStep
<1>2. CASE UNCHANGED rolloutVars
  BY <1>1, <1>2 DEF rolloutVars
<1>3. CASE RolloutNext
  <2>1. PICK c \in Clients :
           \/ CallerPosts(c)
           \/ ConsoleSavesForm(c) \/ ConsoleSavesWithCleanup(c)
           \/ ConsoleInherits(c) \/ ConsoleOpensPage(c)
           \/ \E scope \in Scopes : ConsoleRestores(c, scope)
           \/ \E scope \in Scopes : ReadPolicy(c, scope)
           \/ PostIsReceived(c) \/ PostLoads(c) \/ PostCommits(c) \/ PostFails(c)
    BY <1>3 DEF RolloutNext
  <2>2. CASE \/ CallerPosts(c) \/ ConsoleSavesForm(c) \/ ConsoleSavesWithCleanup(c)
             \/ ConsoleInherits(c) \/ ConsoleOpensPage(c)
    <3>1. Next
      BY <2>2 DEF Next, CallerPosts, ConsoleSavesForm, ConsoleSavesWithCleanup,
                  ConsoleInherits, ConsoleOpensPage
    <3> QED
      BY <1>1, <3>1
  <2>3. CASE PostIsReceived(c) \/ PostLoads(c) \/ PostCommits(c) \/ PostFails(c)
    <3>1. Next
      BY <2>3 DEF Next, PostIsReceived, PostLoads, PostCommits, PostFails
    <3> QED
      BY <1>1, <3>1
  <2>4. ASSUME NEW scope \in Scopes, ReadPolicy(c, scope)
        PROVE  BeforeInv'
    BY <1>1, <2>4 DEF ReadPolicy
  <2> QED
    BY <2>1, <2>2, <2>3, <2>4, RestoreKeepsBefore
<1> QED
  BY <1>2, <1>3

LEMMA RolloutInvAlways == RolloutSpec => []BeforeInv
<1>1. RolloutInit => BeforeInv
  BY BeforeInit DEF RolloutInit
<1> QED
  BY <1>1, RolloutStepKeepsBefore, PTL DEF RolloutSpec

\* Also with the console's reads before each post, and its restores, every "before"
\* of the history was in force once.
THEOREM BeforeWasInForceInRollout == RolloutSpec => []BeforeWasInForce
<1>1. BeforeInv => BeforeWasInForce
  BY DEF BeforeInv
<1> QED
  BY <1>1, RolloutInvAlways, PTL

-----------------------------------------------------------------------------
(* The simulator.                                                           *)

\* The console's effective policy, the API's and the worker's are one, though the
\* console and the API read a club's {} through the API and the worker by itself.
LEMMA PoliciesAgree ==
    ASSUME NEW club \in Clubs
    PROVE  /\ ConsolePolicy(club) = InForce(club)
           /\ buildClubPolicyResponse(club) = InForce(club)
<1>1. club # Organization
  BY StoreAssumption
<1>2. ASSUME NEW field \in PolicyFields
      PROVE  /\ ConsolePolicy(club)[field] = InForce(club)[field]
             /\ buildClubPolicyResponse(club)[field] = InForce(club)[field]
  <2> DEFINE default == defaultWorkflowPolicy[field]
             ofOrg == rows[Organization][field]
             ofClub == IF field \in RuleFields THEN parseOverrideJson(rows[club][field])
                                               ELSE rows[club][field]
  <2>1. /\ LoadedPolicy(Organization, rows[Organization])[field] = ofOrg
        /\ LoadedPolicy(club, rows[club])[field] = ofClub
    BY <1>1, <1>2 DEF LoadedPolicy
  <2>2. /\ ConsolePolicy(club)[field] = pickPolicyValue(ofClub, ofOrg, default)
        /\ buildClubPolicyResponse(club)[field] = pickOverride(ofClub, ofOrg, default)
        /\ InForce(club)[field] = pickOverride(ofClub, ofOrg, default)
    BY <1>2, <2>1 DEF ConsolePolicy, buildEffectivePolicyFromPolicies, InForce,
                      buildClubPolicyResponse, EffectiveWorkflowPolicy
  <2> HIDE DEF default, ofOrg, ofClub
  <2>3. pickPolicyValue(ofClub, ofOrg, default) = pickOverride(ofClub, ofOrg, default)
    BY DEF pickPolicyValue, pickOverride
  <2> QED
    BY <2>2, <2>3
<1> QED
  BY <1>2 DEF ConsolePolicy, buildEffectivePolicyFromPolicies, InForce,
              buildClubPolicyResponse, EffectiveWorkflowPolicy

\* A rule in force is never absent: the built-in default is the empty rule.
LEMMA RulesAreSet ==
    ASSUME NEW club \in Clubs, NEW field \in {"approvalRule", "notificationRule"}
    PROVE  InForce(club)[field] # Null
<1>1. field \in PolicyFields /\ defaultWorkflowPolicy[field] = EmptyObject
  BY DEF PolicyFields, defaultWorkflowPolicy
<1>2. EmptyObject # Null
  BY StoreAssumption
<1>3. \A x, y : pickOverride(x, y, EmptyObject) # Null
  BY <1>2 DEF pickOverride
<1> QED
  BY <1>1, <1>3 DEF InForce, EffectiveWorkflowPolicy

\* The simulator's outcome is the decision of the worker, of the API for the second
\* approval, and of the publication notice, for every row an editor can leave behind
\* and every submission.
THEOREM SimulatorAlwaysAgrees == RolloutSpec => []SimulatorAgrees
<1>1. SimulatorAgrees
  <2> SUFFICES ASSUME NEW club \in Clubs, NEW input \in Simulations
               PROVE  LET policy == InForce(club)
                          ofAPI == [policy EXCEPT !.approvalRule =
                                       loadEffectiveApprovalRuleForClubId(club)]
                          outcome == simulatePolicyOutcome(ConsolePolicy(club), input)
                          review == [riskScore |-> input.riskScore, flagged |-> input.flagged,
                                     mode |-> "hermes", agentRole |-> input.agentRole]
                          allowed == shouldAutoApproveSubmission(policy, input.visibility,
                                         review, input.contentType)
                      IN  /\ outcome.autoApproval = allowed
                          /\ outcome.approverRole =
                                 chooseRoutingDecision(policy, input.visibility, review,
                                                       input.contentType)
                          /\ outcome.secondApproval =
                                 (~allowed /\ shouldRequireSecondApprovalForAction(
                                      ofAPI, "primary", input.visibility, input.contentType))
                          /\ outcome.publishingPlan =
                                 choosePublishingPlan(policy, input.visibility)
                          /\ \A rule \in {policy.notificationRule,
                                          loadEffectiveNotificationRuleForClubId(club)} :
                                 outcome.published = Notifies(rule, "submission_published")
    BY DEF SimulatorAgrees
  <2> DEFINE policy == InForce(club)
             outcome == simulatePolicyOutcome(policy, input)
             review == [riskScore |-> input.riskScore, flagged |-> input.flagged,
                        mode |-> "hermes", agentRole |-> input.agentRole]
             allowed == shouldAutoApproveSubmission(policy, input.visibility, review,
                                                    input.contentType)
             ofAPI == [policy EXCEPT !.approvalRule = loadEffectiveApprovalRuleForClubId(club)]
  <2>1. ConsolePolicy(club) = policy /\ buildClubPolicyResponse(club) = policy
    BY PoliciesAgree
  <2>2. /\ loadEffectiveApprovalRuleForClubId(club) = policy.approvalRule
        /\ loadEffectiveNotificationRuleForClubId(club) = policy.notificationRule
    BY <2>1, RulesAreSet DEF loadEffectiveApprovalRuleForClubId,
                             loadEffectiveNotificationRuleForClubId, RuleOrNone
  <2>3. "approvalRule" \in DOMAIN policy
    BY DEF InForce, EffectiveWorkflowPolicy, PolicyFields, defaultWorkflowPolicy
  <2>4. ofAPI.approvalRule = policy.approvalRule
    BY <2>2, <2>3
  <2> HIDE DEF policy, ofAPI
  <2>5. shouldAutoApproveSubmission(policy, input.visibility, input, input.contentType)
            = allowed
    BY DEF shouldAutoApproveSubmission
  <2>6. outcome.autoApproval = allowed
    BY <2>5 DEF simulatePolicyOutcome
  <2>7. outcome.approverRole =
            chooseRoutingDecision(policy, input.visibility, review, input.contentType)
    BY DEF simulatePolicyOutcome, chooseRoutingDecision
  <2>8. shouldRequireSecondApproval(policy, input) =
            shouldRequireSecondApprovalForAction(ofAPI, "primary", input.visibility,
                                                 input.contentType)
    BY <2>4 DEF shouldRequireSecondApproval, shouldRequireSecondApprovalForAction
  <2>9. outcome.secondApproval =
            (~allowed /\ shouldRequireSecondApprovalForAction(
                 ofAPI, "primary", input.visibility, input.contentType))
    BY <2>5, <2>8 DEF simulatePolicyOutcome
  <2>10. outcome.publishingPlan = choosePublishingPlan(policy, input.visibility)
    BY DEF simulatePolicyOutcome
  <2>11. outcome.published = Notifies(policy.notificationRule, "submission_published")
    BY DEF simulatePolicyOutcome
  <2> HIDE DEF outcome, review, allowed
  <2> QED
    BY <2>1, <2>2, <2>6, <2>7, <2>9, <2>10, <2>11 DEF policy, outcome, review, allowed, ofAPI
<1> QED
  BY <1>1, PTL
-----------------------------------------------------------------------------
(* The warnings.                                                            *)

\* A club's effective notification rule is its own, or the organization's, which
\* the guardrails read with the same default.
LEMMA NotificationRulePicked ==
    ASSUME NEW org, NEW club
    PROVE  buildEffectivePolicyFromPolicies(org, club).notificationRule =
               IF club.notificationRule # Null THEN club.notificationRule
                                               ELSE RuleOrNone(org.notificationRule)
<1>1. "notificationRule" \in PolicyFields
      /\ defaultWorkflowPolicy["notificationRule"] = EmptyObject
  BY DEF PolicyFields, defaultWorkflowPolicy
<1> QED
  BY <1>1 DEF buildEffectivePolicyFromPolicies, pickPolicyValue, RuleOrNone

\* Whatever the stored rows and the draft, a channel that the simulator sees go silent
\* at a club is one that the guardrails name.
THEOREM LossAlwaysWarned == RolloutSpec => []LossIsWarned
<1>1. LossIsWarned
  <2> DEFINE live == LoadedPolicy(Organization, rows[Organization])
             event == "submission_published"
             heard(rule) == Notifies(RuleOrNone(rule), event)
             effective(org, club) ==
                 buildEffectivePolicyFromPolicies(org, LoadedPolicy(club, rows[club]))
  <2> SUFFICES ASSUME NEW edits \in Patches[Organization], NEW club \in Clubs,
                      NEW input \in Simulations
               PROVE  buildOutcomeRiskWarnings(
                          simulatePolicyOutcome(effective(live, club), input),
                          simulatePolicyOutcome(effective(applyPatch(live, edits), club),
                                                input)) \cap Channels
                          \subseteq buildPolicyGuardrailWarnings(live, applyPatch(live, edits))
    BY DEF LossIsWarned
  <2> DEFINE preview == applyPatch(live, edits)
             before == Notifies(effective(live, club).notificationRule, event)
             after == Notifies(effective(preview, club).notificationRule, event)
  <2>1. buildOutcomeRiskWarnings(simulatePolicyOutcome(effective(live, club), input),
                                 simulatePolicyOutcome(effective(preview, club), input))
            \cap Channels = before \ after
    <3>1. /\ simulatePolicyOutcome(effective(live, club), input).published = before
          /\ simulatePolicyOutcome(effective(preview, club), input).published = after
      BY DEF simulatePolicyOutcome
    <3>2. before \subseteq Channels /\ Channels = {"email", "push"}
      BY DEF Notifies, Channels
    <3> HIDE DEF before, after, effective, live, preview
    <3> QED
      BY <3>1, <3>2 DEF buildOutcomeRiskWarnings
  <2>2. before \ after \subseteq heard(live.notificationRule) \ heard(preview.notificationRule)
    <3> DEFINE own == LoadedPolicy(club, rows[club]).notificationRule
    <3>1. \A org : effective(org, club).notificationRule =
                       IF own # Null THEN own ELSE RuleOrNone(org.notificationRule)
      BY NotificationRulePicked
    <3> HIDE DEF own, effective, live, preview
    <3>2. CASE own # Null
      BY <3>1, <3>2
    <3>3. CASE own = Null
      BY <3>1, <3>3
    <3> QED
      BY <3>2, <3>3
  <2>3. heard(live.notificationRule) \ heard(preview.notificationRule)
            \subseteq buildPolicyGuardrailWarnings(live, preview)
    BY DEF buildPolicyGuardrailWarnings
  <2> QED
    BY <2>1, <2>2, <2>3
<1> QED
  BY <1>1, PTL
-----------------------------------------------------------------------------
(* What a save does to a club, for the rows before and after it.            *)

\* The policy in force is picked field by field from what the API shows.
LEMMA EffectiveOf ==
    ASSUME NEW club \in Clubs, NEW org, NEW row, NEW field \in PolicyFields
    PROVE  EffectiveWorkflowPolicy(org, row)[field] =
               pickPolicyValue(LoadedPolicy(club, row)[field], org[field],
                               defaultWorkflowPolicy[field])
<1>1. club # Organization
  BY StoreAssumption
<1>2. LoadedPolicy(club, row)[field] =
          IF field \in RuleFields THEN parseOverrideJson(row[field]) ELSE row[field]
  BY <1>1 DEF LoadedPolicy
<1> QED
  BY <1>2 DEF EffectiveWorkflowPolicy, pickOverride, pickPolicyValue

\* A club's loaded value is the row's own, or absent; an empty rule is absent.
LEMMA LoadedOfClub ==
    ASSUME NEW club \in Clubs, NEW row, NEW field \in PolicyFields
    PROVE  /\ LoadedPolicy(club, row)[field] \in {row[field], Null}
           /\ field \in RuleFields => LoadedPolicy(club, row)[field] # EmptyObject
           /\ field \notin RuleFields => LoadedPolicy(club, row)[field] = row[field]
           /\ row[field] # EmptyObject => LoadedPolicy(club, row)[field] = row[field]
           /\ field \in RuleFields /\ row[field] = EmptyObject =>
                 LoadedPolicy(club, row)[field] = Null
<1>1. club # Organization /\ Null # EmptyObject
  BY StoreAssumption
<1> QED
  BY <1>1 DEF LoadedPolicy, parseOverrideJson

\* A save of the organization: where the club's own value differs from the next
\* policy's, nothing changes; elsewhere the organization's value is in force.
LEMMA OrganizationSaveAtClub ==
    ASSUME NEW club \in Clubs, NEW org, NEW row, IsRow(club, row), NEW next,
           NEW field \in PolicyFields
    PROVE  LET own == LoadedPolicy(club, row)
               left == StoredPolicy(next)
           IN  /\ field \in buildClubOverrideSummary(own, next) =>
                     EffectiveWorkflowPolicy(left, row)[field] =
                         EffectiveWorkflowPolicy(org, row)[field]
               /\ field \notin buildClubOverrideSummary(own, next) =>
                     EffectiveWorkflowPolicy(left, row)[field] =
                         pickPolicyValue(Null, left[field], defaultWorkflowPolicy[field])
<1> DEFINE own == LoadedPolicy(club, row)
           left == StoredPolicy(next)
           default == defaultWorkflowPolicy[field]
<1>1. /\ EffectiveWorkflowPolicy(left, row)[field] =
             pickPolicyValue(own[field], left[field], default)
      /\ EffectiveWorkflowPolicy(org, row)[field] =
             pickPolicyValue(own[field], org[field], default)
  BY EffectiveOf
<1>2. own[field] \in {row[field], Null}
  BY LoadedOfClub
<1>3. own[field] # Null /\ own[field] = next[field] => left[field] = own[field]
  BY <1>2, RowValueIsStored
<1> HIDE DEF own, left, default
<1>4. field \in buildClubOverrideSummary(own, next) <=>
          own[field] # Null /\ own[field] # next[field]
  BY DEF buildClubOverrideSummary
<1>5. CASE own[field] = Null
  BY <1>1, <1>4, <1>5 DEF pickPolicyValue, own, left, default
<1>6. CASE own[field] # Null /\ own[field] # next[field]
  BY <1>1, <1>4, <1>6 DEF pickPolicyValue, own, left, default
<1>7. CASE own[field] # Null /\ own[field] = next[field]
  <2>1. /\ EffectiveWorkflowPolicy(left, row)[field] = own[field]
        /\ pickPolicyValue(Null, left[field], default) = own[field]
    BY <1>1, <1>3, <1>7 DEF pickPolicyValue
  <2> QED
    BY <1>4, <1>7, <2>1 DEF own, left, default
<1> QED
  BY <1>5, <1>6, <1>7

\* A save of a club: a field whose override goes takes the organization's value, and
\* one that overrides afterwards keeps a value of its own.
LEMMA ClubSaveAtClub ==
    ASSUME NEW club \in Clubs, NEW org, IsRow(Organization, org), NEW next, IsPolicy(next),
           \A field \in RuleFields : next[field] # EmptyObject,
           NEW field \in PolicyFields
    PROVE  LET read == LoadedPolicy(Organization, org)
               left == StoredPolicy(next)
           IN  /\ field \notin buildClubOverrideSummary(next, read) =>
                     EffectiveWorkflowPolicy(org, left)[field] =
                         pickPolicyValue(Null, org[field], defaultWorkflowPolicy[field])
               /\ field \in buildClubOverrideSummary(next, read) =>
                     LoadedPolicy(club, left)[field] # Null
<1> DEFINE read == LoadedPolicy(Organization, org)
           left == StoredPolicy(next)
           shown == LoadedPolicy(club, left)
           default == defaultWorkflowPolicy[field]
<1>1. read[field] = org[field]
  BY DEF LoadedPolicy
<1>2. EffectiveWorkflowPolicy(org, left)[field] =
          pickPolicyValue(shown[field], org[field], default)
  BY EffectiveOf
<1>3. next[field] = Null => shown[field] = Null
  <2>1. next[field] = Null => left[field] = IF field \in RuleFields THEN EmptyObject ELSE Null
    BY DEF StoredPolicy
  <2> HIDE DEF left
  <2> QED
    BY <2>1, LoadedOfClub
<1>4. next[field] # Null => shown[field] # Null
  <2> SUFFICES ASSUME next[field] # Null
               PROVE  shown[field] # Null
    OBVIOUS
  <2>1. CASE field = "autoApproveMaxRisk"
    <3>1. next[field] \in 0..1000 /\ left[field] = Rounded(next[field])
      BY <2>1, FieldKinds DEF StoredPolicy, IsPolicy, FieldValueOK
    <3>2. Rounded(next[field]) \in 0..1000
      BY <3>1, SMT DEF Rounded
    <3>3. left[field] # Null
      BY <3>1, <3>2, StoreAssumption
    <3>4. field \notin RuleFields
      BY <2>1, FieldKinds
    <3> HIDE DEF left
    <3> QED
      BY <3>3, <3>4, LoadedOfClub
  <2>2. CASE field # "autoApproveMaxRisk"
    <3>1. left[field] = next[field]
      BY <2>2 DEF StoredPolicy
    <3> HIDE DEF left
    <3> QED
      BY <3>1, LoadedOfClub
  <2> QED
    BY <2>1, <2>2
<1>5. next[field] # Null /\ next[field] = org[field] => shown[field] \in {org[field], Null}
  <2>1. next[field] # Null /\ next[field] = org[field] => left[field] = org[field]
    BY RowValueIsStored
  <2> HIDE DEF left
  <2> QED
    BY <2>1, LoadedOfClub
<1> HIDE DEF read, left, shown, default
<1>6. field \in buildClubOverrideSummary(next, read) <=>
          next[field] # Null /\ next[field] # org[field]
  BY <1>1 DEF buildClubOverrideSummary
<1>7. field \notin buildClubOverrideSummary(next, read) =>
          pickPolicyValue(shown[field], org[field], default) =
              pickPolicyValue(Null, org[field], default)
  BY <1>3, <1>5, <1>6 DEF pickPolicyValue
<1> QED
  BY <1>2, <1>4, <1>6, <1>7 DEF read, left, shown, default

\* Two sets that agree but for one element compare as that element does.
LEMMA OneElementCompared ==
    ASSUME NEW S, NEW T, IsFiniteSet(S), IsFiniteSet(T), NEW x, S \ {x} = T \ {x}
    PROVE  Cardinality(S) < Cardinality(T) <=> x \in T /\ x \notin S
<1> DEFINE R == S \ {x}
<1>1. IsFiniteSet(R) /\ Cardinality(R) \in Nat /\ x \notin R
  BY FS_Difference, FS_CardinalityType
<1>2. Cardinality(R \cup {x}) = Cardinality(R) + 1
  BY <1>1, FS_AddElement
<1>3. /\ S = IF x \in S THEN R \cup {x} ELSE R
      /\ T = IF x \in T THEN R \cup {x} ELSE R
  OBVIOUS
<1> HIDE DEF R
<1>4. CASE x \in S /\ x \notin T
  <2>1. Cardinality(S) = Cardinality(R) + 1 /\ Cardinality(T) = Cardinality(R)
    BY <1>2, <1>3, <1>4, Zenon
  <2>2. ~(Cardinality(S) < Cardinality(T))
    BY <1>1, <2>1
  <2> QED
    BY <1>4, <2>2, Zenon
<1>5. CASE x \in T /\ x \notin S
  <2>1. Cardinality(S) = Cardinality(R) /\ Cardinality(T) = Cardinality(R) + 1
    BY <1>2, <1>3, <1>5, Zenon
  <2>2. Cardinality(S) < Cardinality(T)
    BY <1>1, <2>1
  <2> QED
    BY <1>5, <2>2, Zenon
<1>6. CASE x \in S <=> x \in T
  <2>1. S = T
    BY <1>3, <1>6
  <2>2. Cardinality(T) \in Nat
    BY FS_CardinalityType
  <2> QED
    BY <1>6, <2>1, <2>2
<1> QED
  BY <1>4, <1>5, <1>6

\* The number of fields is finite.
LEMMA FieldsAreFinite == \A S \in SUBSET PolicyFields : IsFiniteSet(S)
<1>1. PolicyFields = RoleFields \cup BooleanFields \cup {"autoApproveMaxRisk"} \cup RuleFields
  BY DEF PolicyFields, defaultWorkflowPolicy, RoleFields, BooleanFields, RuleFields
<1>2. \A x, y : IsFiniteSet({x}) /\ IsFiniteSet({x, y})
  <2> SUFFICES ASSUME NEW x, NEW y
               PROVE  IsFiniteSet({x}) /\ IsFiniteSet({x, y})
    OBVIOUS
  <2>1. IsFiniteSet({x}) /\ IsFiniteSet({y}) /\ {x, y} = {x} \cup {y}
    BY FS_Singleton
  <2> QED
    BY <2>1, FS_Union
<1>3. IsFiniteSet(RoleFields) /\ IsFiniteSet(BooleanFields)
  <2>1. RoleFields = {"defaultApproverRole", "publicApproverRole"}
                         \cup {"mediumRiskApproverRole"}
    BY DEF RoleFields
  <2> QED
    BY <1>2, <2>1, FS_Union DEF BooleanFields
<1>4. IsFiniteSet(RuleFields)
  <2>1. RuleFields = {"autoApprovalRule", "routingRule"}
                         \cup {"approvalRule", "publishingRule"} \cup {"notificationRule"}
    BY DEF RuleFields
  <2>2. IsFiniteSet({"autoApprovalRule", "routingRule"} \cup {"approvalRule", "publishingRule"})
    BY <1>2, FS_Union
  <2> QED
    BY <1>2, <2>1, <2>2, FS_Union
<1>5. IsFiniteSet(RoleFields \cup BooleanFields)
  BY <1>3, FS_Union
<1>6. IsFiniteSet(RoleFields \cup BooleanFields \cup {"autoApproveMaxRisk"})
  BY <1>2, <1>5, FS_Union
<1>7. IsFiniteSet(PolicyFields)
  BY <1>1, <1>4, <1>6, FS_Union
<1> QED
  BY <1>7, FS_Subset

\* In how many fields the policy in force differs from the organization's own.
Differing(org, row) ==
    Cardinality(listChangedPolicyAreas(
        [field \in PolicyFields |->
            pickPolicyValue(Null, org[field], defaultWorkflowPolicy[field])],
        EffectiveWorkflowPolicy(org, row)))

\* A restore of the organization: the exceptions counted at a club change with the
\* one field as the differences do, if the field has a value before and after.
LEMMA RestoreAtClub ==
    ASSUME NEW club \in Clubs, NEW row, NEW live, NEW next, NEW changed \in PolicyFields,
           \A field \in PolicyFields \ {changed} : live[field] = next[field],
           live[changed] # Null, next[changed] # Null
    PROVE  LET own == LoadedPolicy(club, row)
               exceptions(org) == Cardinality(buildClubOverrideSummary(own, org))
           IN  /\ exceptions(next) < exceptions(live) <=>
                     Differing(next, row) < Differing(live, row)
               /\ exceptions(next) > exceptions(live) <=>
                     Differing(next, row) > Differing(live, row)
<1> DEFINE own == LoadedPolicy(club, row)
           default == defaultWorkflowPolicy
           overrides(org) == buildClubOverrideSummary(own, org)
           ofOrg(org) == [field \in PolicyFields |->
                              pickPolicyValue(Null, org[field], default[field])]
           differs(org) ==
               listChangedPolicyAreas(ofOrg(org), EffectiveWorkflowPolicy(org, row))
<1>1. ASSUME NEW org, NEW field \in PolicyFields
      PROVE  /\ field \in overrides(org) <=> own[field] # Null /\ own[field] # org[field]
             /\ field \in differs(org) <=>
                    pickPolicyValue(Null, org[field], default[field]) #
                        pickPolicyValue(own[field], org[field], default[field])
  <2>1. field \in overrides(org) <=> own[field] # Null /\ own[field] # org[field]
    BY DEF buildClubOverrideSummary
  <2>2. EffectiveWorkflowPolicy(org, row)[field] =
            pickPolicyValue(own[field], org[field], default[field])
    BY EffectiveOf
  <2> HIDE DEF own, default
  <2> QED
    BY <2>1, <2>2 DEF listChangedPolicyAreas
<1>2. \A org : overrides(org) \subseteq PolicyFields /\ differs(org) \subseteq PolicyFields
  BY DEF buildClubOverrideSummary, listChangedPolicyAreas
<1>3. ASSUME NEW org, org[changed] # Null
      PROVE  changed \in overrides(org) <=> changed \in differs(org)
  <2>1. /\ changed \in overrides(org) <=> own[changed] # Null /\ own[changed] # org[changed]
        /\ changed \in differs(org) <=>
               pickPolicyValue(Null, org[changed], default[changed]) #
                   pickPolicyValue(own[changed], org[changed], default[changed])
    BY <1>1
  <2> HIDE DEF own, default, overrides, differs
  <2> QED
    BY <1>3, <2>1 DEF pickPolicyValue
<1>4. ASSUME NEW field \in PolicyFields, field # changed
      PROVE  /\ field \in overrides(live) <=> field \in overrides(next)
             /\ field \in differs(live) <=> field \in differs(next)
  <2>1. live[field] = next[field]
    BY <1>4
  <2>2. \A org : /\ field \in overrides(org) <=> own[field] # Null /\ own[field] # org[field]
                 /\ field \in differs(org) <=>
                        pickPolicyValue(Null, org[field], default[field]) #
                            pickPolicyValue(own[field], org[field], default[field])
    BY <1>1
  <2> HIDE DEF own, default, overrides, differs
  <2> QED
    BY <2>1, <2>2
<1> HIDE DEF overrides, differs
<1>5. /\ overrides(live) \ {changed} = overrides(next) \ {changed}
      /\ differs(live) \ {changed} = differs(next) \ {changed}
  BY <1>2, <1>4
<1>6. \A org : IsFiniteSet(overrides(org)) /\ IsFiniteSet(differs(org))
  BY <1>2, FieldsAreFinite
<1>7. /\ Cardinality(overrides(next)) < Cardinality(overrides(live)) <=>
             changed \in overrides(live) /\ changed \notin overrides(next)
      /\ Cardinality(overrides(live)) < Cardinality(overrides(next)) <=>
             changed \in overrides(next) /\ changed \notin overrides(live)
  BY <1>5, <1>6, OneElementCompared
<1>8. /\ Cardinality(differs(next)) < Cardinality(differs(live)) <=>
             changed \in differs(live) /\ changed \notin differs(next)
      /\ Cardinality(differs(live)) < Cardinality(differs(next)) <=>
             changed \in differs(next) /\ changed \notin differs(live)
  BY <1>5, <1>6, OneElementCompared
<1>9. \A S, T : IsFiniteSet(S) /\ IsFiniteSet(T) =>
          (Cardinality(T) > Cardinality(S) <=> Cardinality(S) < Cardinality(T))
  BY FS_CardinalityType
<1>10. /\ changed \in overrides(live) <=> changed \in differs(live)
       /\ changed \in overrides(next) <=> changed \in differs(next)
  BY <1>3
<1>11. /\ Cardinality(overrides(next)) < Cardinality(overrides(live)) <=>
              Cardinality(differs(next)) < Cardinality(differs(live))
       /\ Cardinality(overrides(next)) > Cardinality(overrides(live)) <=>
              Cardinality(differs(next)) > Cardinality(differs(live))
  BY <1>6, <1>7, <1>8, <1>9, <1>10
<1> QED
  BY <1>11 DEF overrides, differs, Differing
-----------------------------------------------------------------------------
(* What a console has read before its post.                                 *)

\* A console's patch: it never sends a club an empty rule.
IsConsolePatch(scope, patch) ==
    scope # Organization =>
        \A field \in DOMAIN patch \cap RuleFields : patch[field] # EmptyObject

\* A restore's patch: one field, to a value an organization's row can hold.
IsRestorePatch(scope, patch) ==
    \E field \in PolicyFields :
        /\ DOMAIN patch = {field}
        /\ scope = Organization =>
              /\ field \in RuleFields => patch[field] # Null
              /\ field = "autoApproveMaxRisk" /\ patch[field] # Null => patch[field] % 10 = 0

\* As long as nothing is saved, what was read is what is stored.
ReadsOK(c) ==
    LET request == Head(requests[c])
    IN  reads[c] # Nothing =>
          /\ requests[c] # <<>>
          /\ DOMAIN reads[c] = {"since", "restores", "policies"}
          /\ reads[c].since \in 0 .. Len(history)
          /\ IsConsolePatch(request.scope, request.patch)
          /\ reads[c].restores => IsRestorePatch(request.scope, request.patch)
          /\ transaction[c] # Nothing =>
                DOMAIN reads[c].policies = NeededScopes(request.scope)
          /\ reads[c].since = Len(history) =>
                /\ \A scope \in DOMAIN reads[c].policies :
                      reads[c].policies[scope] = LoadedPolicy(scope, rows[scope])
                /\ transaction[c] # Nothing /\ transaction[c].previous # Nothing =>
                      transaction[c].previous =
                          LoadedPolicy(request.scope, rows[request.scope])

SnapshotInv ==
    /\ BeforeInv
    /\ DOMAIN reads = Clients
    /\ IsSequence(recorded)
    /\ \A c \in Clients : ReadsOK(c)

\* A patch that the form of a page sends is a console's.
LEMMA FormIsConsolePatch ==
    ASSUME NEW scope, NEW shown, NEW edits
    PROVE  IsConsolePatch(scope, FormPatch(scope, shown, edits))
<1>1. Null # EmptyObject
  BY StoreAssumption
<1> QED
  BY <1>1 DEF IsConsolePatch, FormPatch, FormValue

\* So is one that restores a value of the history, and it fits an organization's row.
LEMMA RestoreIsConsolePatch ==
    ASSUME BeforeInv, NEW scope \in Scopes, NEW i \in EntriesOf(scope),
           NEW field \in PolicyFields
    PROVE  LET patch == [key \in {field} |-> history[i].previous[key]]
           IN  IsConsolePatch(scope, patch) /\ IsRestorePatch(scope, patch)
<1> DEFINE patch == [key \in {field} |-> history[i].previous[key]]
<1>1. PICK row : history[i].previous = LoadedPolicy(scope, row) /\ IsRow("row", row)
  <2>1. history[i].scope = scope /\ i \in DOMAIN history
    BY DEF EntriesOf
  <2>2. CASE history[i].previous = LoadedPolicy(scope, FirstRows[scope])
    <3>1. IsRow(scope, FirstRows[scope])
      BY StoreAssumption
    <3>2. IsRow("row", FirstRows[scope])
      BY <3>1 DEF IsRow, Organization
    <3> QED
      BY <2>2, <3>2
  <2>3. CASE \E j \in 1..(i - 1) : /\ history[j].scope = scope
                                   /\ history[i].previous = LoadedPolicy(scope, Left(j))
    <3>1. PICK j \in 1..(i - 1) : history[i].previous = LoadedPolicy(scope, Left(j))
      BY <2>3
    <3>2. IsSequence(history)
      BY DEF BeforeInv, TypeInv, Shape
    <3>3. j \in DOMAIN history
      BY <2>1, <3>1, <3>2, LenProperties DEF IsSequence
    <3>4. IsPolicy(history[j].next)
      BY <3>3, TypeParts DEF BeforeInv, TypeInv, HistoryOK
    <3>5. IsRow("row", StoredPolicy(history[j].next))
      BY <3>4, StoredIsRow DEF Organization
    <3> QED
      BY <3>1, <3>5 DEF Left
  <2> QED
    BY <2>1, <2>2, <2>3 DEF BeforeInv, BeforeWasInForce
<1>2. patch[field] = LoadedPolicy(scope, row)[field] /\ DOMAIN patch = {field}
  BY <1>1
<1> HIDE DEF patch
<1>3. scope # Organization /\ field \in RuleFields => patch[field] # EmptyObject
  <2>1. scope # Organization => scope \in Clubs
    BY DEF Scopes
  <2> QED
    BY <1>2, <2>1, LoadedOfClub
<1>4. scope = Organization => patch[field] = row[field]
  BY <1>2 DEF LoadedPolicy
<1>5. IsConsolePatch(scope, patch)
  BY <1>2, <1>3 DEF IsConsolePatch
<1>6. IsRestorePatch(scope, patch)
  BY <1>1, <1>2, <1>4 DEF IsRestorePatch, IsRow
<1> QED
  BY <1>5, <1>6 DEF patch

\* A client whose reads, requests and transaction stay the same, when nothing is saved.
LEMMA ReadsStay ==
    ASSUME NEW d \in Clients, ReadsOK(d), UNCHANGED <<rows, history>>,
           reads'[d] = reads[d], requests'[d] = requests[d], transaction'[d] = transaction[d]
    PROVE  ReadsOK(d)'
BY DEF ReadsOK

\* A console that begins to read.
LEMMA StartKeepsSnapshot ==
    ASSUME SnapshotInv, BeforeInv', NEW c \in Clients, NEW sequence, Send(c, sequence),
           sequence # <<>>, NEW restores, StartsReading(c, restores), UNCHANGED recorded,
           IsConsolePatch(Head(sequence).scope, Head(sequence).patch),
           restores => IsRestorePatch(Head(sequence).scope, Head(sequence).patch)
    PROVE  SnapshotInv'
<1>1. /\ requests[c] = <<>>
      /\ requests' = [requests EXCEPT ![c] = sequence]
      /\ UNCHANGED <<rows, history, transaction>>
      /\ reads' = [reads EXCEPT ![c] = [since |-> Len(history), restores |-> restores,
                                        policies |-> EmptyObject]]
  BY DEF Send, StartsReading
<1>2. TypeInv /\ DOMAIN requests = Clients /\ DOMAIN reads = Clients
  BY DEF SnapshotInv, BeforeInv, TypeInv, Shape
<1>3. /\ requests'[c] = sequence
      /\ reads'[c] = [since |-> Len(history), restores |-> restores, policies |-> EmptyObject]
      /\ DOMAIN reads' = Clients
      /\ \A d \in Clients \ {c} : requests'[d] = requests[d] /\ reads'[d] = reads[d]
  BY <1>1, <1>2
<1>4. transaction'[c] = Nothing
  BY <1>1, <1>2, TypeParts DEF TypeInv, ClientOK
<1>5. Len(history) \in Nat
  BY <1>2, AppendElements DEF TypeInv, Shape
<1>6. ReadsOK(c)'
  <2>1. DOMAIN reads'[c].policies = {} /\ reads'[c].since = Len(history)
        /\ reads'[c].restores = restores
        /\ DOMAIN reads'[c] = {"since", "restores", "policies"}
    BY <1>3 DEF EmptyObject
  <2>2. reads'[c].since \in 0 .. Len(history')
    BY <1>1, <1>5, <2>1
  <2> QED
    BY <1>3, <1>4, <2>1, <2>2 DEF ReadsOK
<1>7. ASSUME NEW d \in Clients \ {c}
      PROVE  ReadsOK(d)'
  BY <1>1, <1>3, ReadsStay DEF SnapshotInv
<1> QED
  BY <1>3, <1>6, <1>7 DEF SnapshotInv

\* A client that sends without reading.
LEMMA SendKeepsSnapshot ==
    ASSUME SnapshotInv, BeforeInv', NEW c \in Clients, NEW sequence, Send(c, sequence),
           UNCHANGED <<reads, recorded>>
    PROVE  SnapshotInv'
<1>1. /\ requests[c] = <<>>
      /\ requests' = [requests EXCEPT ![c] = sequence]
      /\ UNCHANGED <<rows, history, transaction>>
  BY DEF Send
<1>2. \A d \in Clients \ {c} : requests'[d] = requests[d]
  BY <1>1 DEF SnapshotInv, BeforeInv, TypeInv, Shape
<1>3. ReadsOK(c)'
  BY <1>1 DEF SnapshotInv, ReadsOK
<1>4. ASSUME NEW d \in Clients \ {c}
      PROVE  ReadsOK(d)'
  BY <1>1, <1>2, ReadsStay DEF SnapshotInv
<1> QED
  BY <1>3, <1>4 DEF SnapshotInv

LEMMA ReadKeepsSnapshot ==
    ASSUME SnapshotInv, BeforeInv', NEW c \in Clients, NEW scope \in Scopes,
           ReadPolicy(c, scope)
    PROVE  SnapshotInv'
<1> DEFINE own == Head(requests[c]).scope
           done == DOMAIN reads[c].policies
           policies == [read \in done \cup {scope} |->
                            IF read = scope THEN LoadedPolicy(scope, rows[scope])
                                            ELSE reads[c].policies[read]]
<1>1. /\ requests[c] # <<>> /\ reads[c] # Nothing
      /\ scope \in NeededScopes(own) \ done
      /\ reads' = [reads EXCEPT ![c].policies = policies]
      /\ UNCHANGED <<rows, history, requests, transaction, recorded>>
  BY DEF ReadPolicy, vars
<1>2. ReadsOK(c) /\ DOMAIN reads = Clients
  BY DEF SnapshotInv
<1>3. /\ DOMAIN reads' = Clients
      /\ \A d \in Clients \ {c} : reads'[d] = reads[d]
      /\ reads'[c] = [reads[c] EXCEPT !.policies = policies]
  BY <1>1, <1>2
<1>4. transaction[c] = Nothing
  BY <1>1, <1>2 DEF ReadsOK
<1>5. ReadsOK(c)'
  <2>1. /\ \A key \in {"since", "restores"} : reads'[c][key] = reads[c][key]
        /\ DOMAIN reads'[c] = DOMAIN reads[c]
    BY <1>1, <1>2, <1>3 DEF ReadsOK
  <2>2. ASSUME reads'[c].since = Len(history'), NEW read \in DOMAIN reads'[c].policies
        PROVE  reads'[c].policies[read] = LoadedPolicy(read, rows'[read])
    <3>1. reads[c].since = Len(history)
      BY <1>1, <2>1, <2>2
    <3>2. \A other \in done : reads[c].policies[other] = LoadedPolicy(other, rows[other])
      BY <1>1, <1>2, <3>1 DEF ReadsOK
    <3>3. reads'[c].policies = policies
      BY <1>1, <1>2, <1>3 DEF ReadsOK
    <3> QED
      BY <1>1, <2>2, <3>2, <3>3
  <2> HIDE DEF policies
  <2> QED
    BY <1>1, <1>2, <1>4, <2>1, <2>2 DEF ReadsOK
<1>6. ASSUME NEW d \in Clients \ {c}
      PROVE  ReadsOK(d)'
  BY <1>1, <1>3, ReadsStay DEF SnapshotInv
<1> QED
  BY <1>1, <1>3, <1>5, <1>6 DEF SnapshotInv

LEMMA BeginKeepsSnapshot ==
    ASSUME SnapshotInv, BeforeInv', NEW c \in Clients, PostIsReceived(c)
    PROVE  SnapshotInv'
<1>1. /\ reads[c] # Nothing =>
             DOMAIN reads[c].policies = NeededScopes(Head(requests[c]).scope)
      /\ transaction' = [transaction EXCEPT ![c] = [begun |-> clock', previous |-> Nothing]]
      /\ UNCHANGED <<rows, history, requests, reads, recorded>>
  BY DEF PostIsReceived, Begin
<1>2. /\ transaction'[c].previous = Nothing
      /\ \A d \in Clients \ {c} : transaction'[d] = transaction[d]
  BY <1>1 DEF SnapshotInv, BeforeInv, TypeInv, Shape
<1>3. ReadsOK(c)'
  BY <1>1, <1>2 DEF SnapshotInv, ReadsOK
<1>4. ASSUME NEW d \in Clients \ {c}
      PROVE  ReadsOK(d)'
  BY <1>1, <1>2, ReadsStay DEF SnapshotInv
<1> QED
  BY <1>1, <1>3, <1>4 DEF SnapshotInv

LEMMA LoadKeepsSnapshot ==
    ASSUME SnapshotInv, BeforeInv', NEW c \in Clients, PostLoads(c)
    PROVE  SnapshotInv'
<1> DEFINE scope == Head(requests[c]).scope
<1>1. /\ transaction[c] # Nothing
      /\ transaction' = [transaction EXCEPT ![c] =
                            [begun |-> transaction[c].begun,
                             previous |-> LoadedPolicy(scope, rows[scope])]]
      /\ UNCHANGED <<rows, history, requests, reads, recorded>>
  BY DEF PostLoads, Load
<1>2. /\ transaction'[c].previous = LoadedPolicy(scope, rows[scope])
      /\ \A d \in Clients \ {c} : transaction'[d] = transaction[d]
  BY <1>1 DEF SnapshotInv, BeforeInv, TypeInv, Shape
<1>3. ReadsOK(c)'
  BY <1>1, <1>2 DEF SnapshotInv, ReadsOK
<1>4. ASSUME NEW d \in Clients \ {c}
      PROVE  ReadsOK(d)'
  BY <1>1, <1>2, ReadsStay DEF SnapshotInv
<1> QED
  BY <1>1, <1>3, <1>4 DEF SnapshotInv

\* Whoever else has read before a save has read too early.
LEMMA CommitKeepsSnapshot ==
    ASSUME SnapshotInv, BeforeInv', NEW c \in Clients, PostCommits(c)
    PROVE  SnapshotInv' /\ recorded'[Len(recorded')] = HistoryContext(c)
<1>1. PICK entry :
          /\ history' = Append(history, entry)
          /\ transaction' = [transaction EXCEPT ![c] = Nothing]
          /\ requests' = [requests EXCEPT ![c] = Tail(@)]
          /\ recorded' = Append(recorded, HistoryContext(c))
          /\ reads' = [reads EXCEPT ![c] = Nothing]
  BY DEF PostCommits, Save
<1>2. /\ DOMAIN requests = Clients /\ DOMAIN transaction = Clients /\ DOMAIN reads = Clients
      /\ IsSequence(history) /\ IsSequence(recorded)
  BY DEF SnapshotInv, BeforeInv, TypeInv, Shape
<1>3. /\ reads'[c] = Nothing /\ DOMAIN reads' = Clients
      /\ \A d \in Clients \ {c} : /\ reads'[d] = reads[d]
                                  /\ requests'[d] = requests[d]
                                  /\ transaction'[d] = transaction[d]
  BY <1>1, <1>2
<1>4. Len(history) \in Nat /\ Len(history') = Len(history) + 1
  <2>1. /\ IsSequence(history')
        /\ DOMAIN history' = DOMAIN history \cup {Len(history) + 1}
        /\ DOMAIN history = 1..Len(history) /\ Len(history) \in Nat
    BY <1>1, <1>2, AppendElements
  <2>2. DOMAIN history' = 1..Len(history') /\ Len(history') \in Nat
    BY <2>1, AppendElements
  <2> QED
    BY <2>1, <2>2
<1>5. /\ IsSequence(recorded') /\ Len(recorded') = Len(recorded) + 1 /\ Len(recorded') \in Nat
      /\ recorded'[Len(recorded')] = HistoryContext(c)
  <2>1. /\ IsSequence(recorded')
        /\ DOMAIN recorded' = DOMAIN recorded \cup {Len(recorded) + 1}
        /\ DOMAIN recorded = 1..Len(recorded) /\ Len(recorded) \in Nat
        /\ recorded'[Len(recorded) + 1] = HistoryContext(c)
    BY <1>1, <1>2, AppendElements
  <2>2. DOMAIN recorded' = 1..Len(recorded') /\ Len(recorded') \in Nat
    BY <2>1, AppendElements
  <2>3. Len(recorded') = Len(recorded) + 1
    BY <2>1, <2>2
  <2> QED
    BY <2>1, <2>2, <2>3
<1>6. ReadsOK(c)'
  BY <1>3 DEF ReadsOK
<1>7. ASSUME NEW d \in Clients \ {c}
      PROVE  ReadsOK(d)'
  <2>1. ReadsOK(d)
    BY DEF SnapshotInv
  <2>2. reads[d] # Nothing =>
            reads[d].since \in 0 .. Len(history') /\ reads[d].since # Len(history')
    BY <1>4, <2>1 DEF ReadsOK
  <2> QED
    BY <1>3, <2>1, <2>2 DEF ReadsOK
<1> QED
  BY <1>3, <1>5, <1>6, <1>7 DEF SnapshotInv

LEMMA FailKeepsSnapshot ==
    ASSUME SnapshotInv, BeforeInv', NEW c \in Clients, PostFails(c)
    PROVE  SnapshotInv'
<1>1. /\ requests' = [requests EXCEPT ![c] = <<>>]
      /\ transaction' = [transaction EXCEPT ![c] = Nothing]
      /\ reads' = [reads EXCEPT ![c] = Nothing]
      /\ UNCHANGED <<rows, history, recorded>>
  BY DEF PostFails, Fail
<1>2. DOMAIN requests = Clients /\ DOMAIN transaction = Clients /\ DOMAIN reads = Clients
  BY DEF SnapshotInv, BeforeInv, TypeInv, Shape
<1>3. /\ reads'[c] = Nothing /\ DOMAIN reads' = Clients
      /\ \A d \in Clients \ {c} : /\ reads'[d] = reads[d]
                                  /\ requests'[d] = requests[d]
                                  /\ transaction'[d] = transaction[d]
  BY <1>1, <1>2
<1>4. ReadsOK(c)'
  BY <1>3 DEF ReadsOK
<1>5. ASSUME NEW d \in Clients \ {c}
      PROVE  ReadsOK(d)'
  BY <1>1, <1>3, ReadsStay DEF SnapshotInv
<1> QED
  BY <1>1, <1>3, <1>4, <1>5 DEF SnapshotInv

\* The console's own ways to send.
LEMMA ConsoleKeepsSnapshot ==
    ASSUME SnapshotInv, BeforeInv', NEW c \in Clients,
           \/ ConsoleSavesForm(c) \/ ConsoleSavesWithCleanup(c) \/ ConsoleInherits(c)
           \/ \E scope \in Scopes : ConsoleRestores(c, scope)
    PROVE  SnapshotInv'
<1>1. \A request : <<request>> # <<>> /\ Head(<<request>>) = request
  OBVIOUS
<1>2. CASE ConsoleSavesForm(c)
  <2> DEFINE scope == page[c].scope
             patch(edits) == FormPatch(scope, page[c].policy, edits)
             request(user, edits) ==
                 Request(scope, user, patch(edits), DOMAIN edits, NoCleanup)
  <2>1. PICK user \in Users, edits \in Patches[scope] : Send(c, <<request(user, edits)>>)
    BY <1>2 DEF ConsoleSavesForm, SubmitForm
  <2>2. StartsReading(c, FALSE) /\ UNCHANGED recorded
    BY <1>2 DEF ConsoleSavesForm
  <2>3. /\ request(user, edits).scope = scope
        /\ request(user, edits).patch = patch(edits)
    BY DEF Request
  <2>4. IsConsolePatch(request(user, edits).scope, request(user, edits).patch)
    BY <2>3, FormIsConsolePatch
  <2> HIDE DEF request
  <2> QED
    BY <1>1, <2>1, <2>2, <2>4, StartKeepsSnapshot
<1>3. CASE ConsoleSavesWithCleanup(c)
  <2> DEFINE named(field, clubs) ==
                 [field |-> field, clubs |-> {clubs[i] : i \in DOMAIN clubs}]
  <2>1. PICK user \in Users, edits \in Patches[Organization], clubs \in CleanupLists,
             field \in Areas :
            Send(c, <<Request(Organization, user,
                              FormPatch(Organization, page[c].policy, edits),
                              DOMAIN edits, named(field, clubs))>>
                        \o Inherit(user, field, clubs))
    BY <1>3 DEF ConsoleSavesWithCleanup, SaveWithCleanup
  <2> HIDE DEF named
  <2> DEFINE request == Request(Organization, user,
                                FormPatch(Organization, page[c].policy, edits),
                                DOMAIN edits, named(field, clubs))
             sequence == <<request>> \o Inherit(user, field, clubs)
  <2>2. StartsReading(c, FALSE) /\ UNCHANGED recorded
    BY <1>3 DEF ConsoleSavesWithCleanup
  <2>3. request.scope = Organization
    BY DEF Request
  <2>4. IsSequence(Inherit(user, field, clubs))
    BY InheritAreRequests DEF AreRequests
  <2> HIDE DEF request
  <2>5. IsSequence(sequence) /\ sequence # <<>> /\ sequence[1] = request
    BY <2>4, ConsElements
  <2>6. Send(c, sequence)
    BY <2>1 DEF request
  <2> HIDE DEF sequence
  <2>7. Head(sequence) = request
    BY <2>5, TailElements
  <2>8. IsConsolePatch(Head(sequence).scope, Head(sequence).patch)
    BY <2>3, <2>7 DEF IsConsolePatch
  <2> QED
    BY <2>2, <2>5, <2>6, <2>8, StartKeepsSnapshot
<1>4. CASE ConsoleInherits(c)
  <2>1. PICK sequence : Send(c, sequence)
    BY <1>4 DEF ConsoleInherits, InheritArea
  <2> QED
    BY <1>4, <2>1, SendKeepsSnapshot DEF ConsoleInherits
<1>5. ASSUME NEW scope \in Scopes, ConsoleRestores(c, scope)
      PROVE  SnapshotInv'
  <2> DEFINE patch(i, field) == [key \in {field} |-> history[i].previous[key]]
             request(user, i, field) ==
                 Request(scope, user, patch(i, field), {field}, NoCleanup)
  <2>1. PICK user \in Users, i \in EntriesOf(scope), field \in PolicyFields :
            Send(c, <<request(user, i, field)>>)
    BY <1>5 DEF ConsoleRestores, listChangedPolicyAreas
  <2>2. StartsReading(c, TRUE) /\ UNCHANGED recorded
    BY <1>5 DEF ConsoleRestores
  <2>3. /\ request(user, i, field).scope = scope
        /\ request(user, i, field).patch = patch(i, field)
    BY DEF Request
  <2>4. IsConsolePatch(scope, patch(i, field)) /\ IsRestorePatch(scope, patch(i, field))
    BY RestoreIsConsolePatch DEF SnapshotInv
  <2> HIDE DEF request
  <2> QED
    BY <1>1, <2>1, <2>2, <2>3, <2>4, StartKeepsSnapshot
<1> QED
  BY <1>2, <1>3, <1>4, <1>5

LEMMA SnapshotStep == SnapshotInv /\ [RolloutNext]_rolloutVars => SnapshotInv'
<1> SUFFICES ASSUME SnapshotInv, [RolloutNext]_rolloutVars
             PROVE  SnapshotInv'
  OBVIOUS
<1>1. BeforeInv'
  BY RolloutStepKeepsBefore DEF SnapshotInv
<1>2. CASE UNCHANGED rolloutVars
  <2>1. ASSUME NEW d \in Clients
        PROVE  ReadsOK(d)'
    BY <1>2, ReadsStay DEF SnapshotInv, rolloutVars, vars
  <2> QED
    BY <1>1, <1>2, <2>1 DEF SnapshotInv, rolloutVars
<1>3. CASE RolloutNext
  <2>1. PICK c \in Clients :
           \/ CallerPosts(c)
           \/ ConsoleSavesForm(c) \/ ConsoleSavesWithCleanup(c) \/ ConsoleInherits(c)
           \/ \E scope \in Scopes : ConsoleRestores(c, scope)
           \/ ConsoleOpensPage(c)
           \/ \E scope \in Scopes : ReadPolicy(c, scope)
           \/ PostIsReceived(c) \/ PostLoads(c) \/ PostCommits(c) \/ PostFails(c)
    BY <1>3 DEF RolloutNext
  <2>2. CASE CallerPosts(c)
    <3>1. PICK sequence : Send(c, sequence)
      BY <2>2 DEF CallerPosts, PostPatch
    <3> QED
      BY <1>1, <2>2, <3>1, SendKeepsSnapshot DEF CallerPosts
  <2>3. CASE ConsoleOpensPage(c)
    <3>1. UNCHANGED <<rows, history, requests, transaction, reads, recorded>>
      BY <2>3 DEF ConsoleOpensPage, OpenPage
    <3>2. ASSUME NEW d \in Clients
          PROVE  ReadsOK(d)'
      BY <3>1, ReadsStay DEF SnapshotInv
    <3> QED
      BY <1>1, <3>1, <3>2 DEF SnapshotInv
  <2>4. ASSUME NEW scope \in Scopes, ReadPolicy(c, scope)
        PROVE  SnapshotInv'
    BY <1>1, <2>4, ReadKeepsSnapshot
  <2> QED
    BY <1>1, <2>1, <2>2, <2>3, <2>4, ConsoleKeepsSnapshot, BeginKeepsSnapshot,
       LoadKeepsSnapshot, CommitKeepsSnapshot, FailKeepsSnapshot
<1> QED
  BY <1>2, <1>3

LEMMA SnapshotInit == RolloutInit => SnapshotInv
<1> SUFFICES ASSUME RolloutInit
             PROVE  SnapshotInv
  OBVIOUS
<1>1. BeforeInv
  BY BeforeInit DEF RolloutInit
<1>2. IsSequence(<<>>)
  BY EmptySeq DEF IsSequence
<1> QED
  BY <1>1, <1>2 DEF RolloutInit, SnapshotInv, ReadsOK
-----------------------------------------------------------------------------
(* The snapshot of a save that nobody came between.                         *)

\* What the audit row says, from the rows the save found.
LEMMA CommitContext ==
    ASSUME SnapshotInv, NEW c \in Clients, PostCommits(c),
           HistoryContext(c).of # Nothing, HistoryContext(c).since = Len(history)
    PROVE  \E scope, patch, read :
             LET next == applyPatch(read[scope], patch)
             IN  /\ scope \in Scopes
                 /\ HistoryContext(c).of = scope
                 /\ \A other \in NeededScopes(scope) :
                        read[other] = LoadedPolicy(other, rows[other])
                 /\ rows' = [rows EXCEPT ![scope] = StoredPolicy(next)]
                 /\ IsPolicy(next)
                 /\ IsConsolePatch(scope, patch)
                 /\ listChangedPolicyAreas(read[scope], next) # {}
                 /\ HistoryContext(c).snapshot = normalizeWorkflowPolicyHistoryContext(
                        IF scope = Organization
                        THEN buildOrganizationHistoryRolloutSnapshot(read, patch)
                        ELSE buildClubHistoryOverrideSnapshot(read, scope, patch))
                 /\ HistoryContext(c).burden # EmptyObject =>
                        /\ IsRestorePatch(scope, patch)
                        /\ HistoryContext(c).burden =
                               buildOrganizationDraftOverrideBurdenSummary(
                                   read, read[scope], next)
<1> DEFINE request == Head(requests[c])
           scope == request.scope
           patch == request.patch
           read == reads[c].policies
           next == applyPatch(read[scope], patch)
           snapshot == IF scope = Organization
                       THEN buildOrganizationHistoryRolloutSnapshot(read, patch)
                       ELSE buildClubHistoryOverrideSnapshot(read, scope, patch)
           burden == IF scope = Organization /\ reads[c].restores
                     THEN buildOrganizationDraftOverrideBurdenSummary(read, read[scope], next)
                     ELSE EmptyObject
           context == [of |-> scope, since |-> reads[c].since,
                       snapshot |-> normalizeWorkflowPolicyHistoryContext(snapshot),
                       burden |-> burden]
<1>1. /\ transaction[c] # Nothing /\ transaction[c].previous # Nothing
      /\ rows' = [rows EXCEPT ![scope] =
                     StoredPolicy(applyPatch(transaction[c].previous, patch))]
  BY DEF PostCommits, Save
<1>2. NoContext.of = Nothing
  BY DEF NoContext
<1>3. HistoryContext(c) = IF reads[c] = Nothing THEN NoContext
                          ELSE IF listChangedPolicyAreas(read[scope], next) = {} THEN NoContext
                          ELSE context
  BY DEF HistoryContext
<1> HIDE DEF context
<1>4. /\ reads[c] # Nothing
      /\ listChangedPolicyAreas(read[scope], next) # {}
      /\ HistoryContext(c) = context
  BY <1>2, <1>3
<1>5. /\ context.of = scope /\ context.since = reads[c].since
      /\ context.snapshot = normalizeWorkflowPolicyHistoryContext(snapshot)
      /\ context.burden = burden
  BY DEF context
<1>6. /\ requests[c] # <<>>
      /\ DOMAIN read = NeededScopes(scope)
      /\ \A other \in NeededScopes(scope) : read[other] = LoadedPolicy(other, rows[other])
      /\ transaction[c].previous = LoadedPolicy(scope, rows[scope])
      /\ IsConsolePatch(scope, patch)
      /\ reads[c].restores => IsRestorePatch(scope, patch)
  BY <1>1, <1>4, <1>5 DEF SnapshotInv, ReadsOK
<1>7. IsRequest(request)
  BY <1>6, HeadIsRequest DEF SnapshotInv, BeforeInv
<1>8. scope \in Scopes /\ \A field \in DOMAIN patch : FieldValueOK(field, patch[field])
  BY <1>7 DEF IsRequest
<1>9. read[scope] = LoadedPolicy(scope, rows[scope])
  BY <1>6, <1>8 DEF NeededScopes
<1>10. IsPolicy(next)
  <2>1. IsPolicy(read[scope])
    BY <1>8, <1>9, LoadedIsPolicy, TypeParts DEF SnapshotInv, BeforeInv, TypeInv
  <2> QED
    BY <1>8, <2>1, AppliedIsPolicy
<1>11. rows' = [rows EXCEPT ![scope] = StoredPolicy(next)]
  BY <1>1, <1>6, <1>9
<1>12. burden # EmptyObject =>
           /\ IsRestorePatch(scope, patch)
           /\ burden = buildOrganizationDraftOverrideBurdenSummary(read, read[scope], next)
  BY <1>6
<1> HIDE DEF request, next, snapshot, burden, read
<1>13. /\ HistoryContext(c).of = scope
       /\ HistoryContext(c).snapshot = normalizeWorkflowPolicyHistoryContext(snapshot)
       /\ HistoryContext(c).burden = burden
  BY <1>4, <1>5
<1> WITNESS scope, patch, read
<1> QED
  BY <1>4, <1>6, <1>8, <1>10, <1>11, <1>12, <1>13 DEF next, snapshot

\* What an organization's snapshot says of a club.
LEMMA RolloutOfClub ==
    ASSUME NEW club \in Clubs, NEW read, NEW patch,
           listChangedPolicyAreas(read[Organization],
                                  applyPatch(read[Organization], patch)) # {}
    PROVE  LET next == applyPatch(read[Organization], patch)
               changed == listChangedPolicyAreas(read[Organization], next)
               own == buildClubOverrideSummary(read[club], next)
               said == normalizeWorkflowPolicyHistoryContext(
                           buildOrganizationHistoryRolloutSnapshot(read, patch))
           IN  /\ said.rollout[club].inheriting = changed \ own
               /\ said.rollout[club].insulated = changed \cap own
<1> DEFINE live == read[Organization]
           next == applyPatch(live, patch)
           changed == listChangedPolicyAreas(live, next)
           own(other) == buildClubOverrideSummary(read[other], next)
           rollout == [other \in Clubs |-> [inheriting |-> changed \ own(other),
                                            insulated |-> changed \cap own(other)]]
           cleanup == buildOrganizationInheritanceCleanupItems(read, changed, next)
           snapshot == [rollout |-> rollout, cleanup |-> cleanup]
<1>1. buildOrganizationHistoryRolloutSnapshot(read, patch) = snapshot
  <2>1. buildOrganizationDirectoryPreview(read, next) = [other \in Clubs |-> own(other)]
    BY DEF buildOrganizationDirectoryPreview
  <2>2. buildLiveOrganizationRolloutSnapshot([other \in Clubs |-> own(other)], changed)
            = rollout
    BY DEF buildLiveOrganizationRolloutSnapshot
  <2> HIDE DEF next, changed, own, rollout
  <2> QED
    BY <2>1, <2>2 DEF buildOrganizationHistoryRolloutSnapshot, next, changed
<1>2. rollout[club].inheriting # {} \/ rollout[club].insulated # {}
  <2> HIDE DEF changed, own
  <2>1. changed # {}
    BY DEF changed
  <2> QED
    BY <2>1
<1>3. /\ rollout[club].inheriting = changed \ own(club)
      /\ rollout[club].insulated = changed \cap own(club)
  <2> HIDE DEF changed, own
  <2> QED
    OBVIOUS
<1> HIDE DEF rollout
<1>4. normalizeWorkflowPolicyHistoryContext(snapshot).rollout = rollout
  <2> DEFINE known == DOMAIN snapshot \cap {"rollout", "overrides"}
             named(r) ==
                 \E other \in Clubs : r[other].inheriting # {} \/ r[other].insulated # {}
             kept == {p \in known : p = "rollout" => named(snapshot[p])}
  <2>1. normalizeWorkflowPolicyHistoryContext(snapshot) = [part \in kept |-> snapshot[part]]
    BY DEF normalizeWorkflowPolicyHistoryContext
  <2>2. snapshot["rollout"] = rollout /\ "rollout" \in known
    OBVIOUS
  <2>3. named(rollout)
    BY <1>2
  <2> HIDE DEF known, named, snapshot
  <2>4. "rollout" \in kept
    BY <2>2, <2>3
  <2> HIDE DEF kept
  <2> QED
    BY <2>1, <2>2, <2>4
<1> HIDE DEF snapshot
<1>5. normalizeWorkflowPolicyHistoryContext(
          buildOrganizationHistoryRolloutSnapshot(read, patch)).rollout = rollout
  BY <1>1, <1>4
<1> QED
  BY <1>3, <1>5

\* What a club's snapshot says.
LEMMA OverridesOfClub ==
    ASSUME NEW club, NEW read, NEW patch
    PROVE  LET before == buildClubOverrideSummary(read[club], read[Organization])
               after == buildClubOverrideSummary(applyPatch(read[club], patch),
                                                 read[Organization])
               said == normalizeWorkflowPolicyHistoryContext(
                           buildClubHistoryOverrideSnapshot(read, club, patch))
           IN  /\ said.overrides.removed = before \ after
               /\ said.overrides.added \cup said.overrides.retained = after
<1> DEFINE next == applyPatch(read[club], patch)
           before == buildClubOverrideSummary(read[club], read[Organization])
           after == buildClubOverrideSummary(next, read[Organization])
           overrides == [added |-> after \ before, removed |-> before \ after,
                         retained |-> after \cap before]
           snapshot == [overrides |-> overrides,
                        cleanup |-> matchingExplicit(next, read[Organization])]
<1>1. buildClubHistoryOverrideSnapshot(read, club, patch) = snapshot
  BY DEF buildClubHistoryOverrideSnapshot, buildClubDraftOverrideImpact
<1>2. /\ overrides.removed = before \ after
      /\ overrides.added \cup overrides.retained = after
  <2> HIDE DEF before, after
  <2> QED
    OBVIOUS
<1> HIDE DEF overrides
<1>3. normalizeWorkflowPolicyHistoryContext(snapshot).overrides = overrides
  <2> DEFINE known == DOMAIN snapshot \cap {"rollout", "overrides"}
             named(r) ==
                 \E other \in Clubs : r[other].inheriting # {} \/ r[other].insulated # {}
             kept == {p \in known : p = "rollout" => named(snapshot[p])}
  <2>1. normalizeWorkflowPolicyHistoryContext(snapshot) = [part \in kept |-> snapshot[part]]
    BY DEF normalizeWorkflowPolicyHistoryContext
  <2>2. snapshot["overrides"] = overrides /\ "overrides" \in known
    OBVIOUS
  <2> HIDE DEF known, named, snapshot
  <2>3. "overrides" \in kept
    BY <2>2
  <2> HIDE DEF kept
  <2> QED
    BY <2>1, <2>2, <2>3
<1> QED
  BY <1>1, <1>2, <1>3

\* A restore of the organization by a console that has read the rows as they are, of a
\* field with a value before and after.
IsRestore(club, org, row, read, patch, next) ==
    /\ IsRow(Organization, org)
    /\ read[Organization] = LoadedPolicy(Organization, org)
    /\ read[club] = LoadedPolicy(club, row)
    /\ IsRestorePatch(Organization, patch)
    /\ next = applyPatch(read[Organization], patch) /\ IsPolicy(next)
    /\ listChangedPolicyAreas(read[Organization], next) # {}
    /\ \A field \in PolicyFields :
           org[field] # StoredPolicy(next)[field] =>
               org[field] # Null /\ StoredPolicy(next)[field] # Null

\* The burden of a restore, in terms of the rows before and after it.
LEMMA BurdenIsTrue ==
    ASSUME NEW club \in Clubs, NEW org, NEW row, NEW read, NEW patch, NEW next,
           IsRestore(club, org, row, read, patch, next)
    PROVE  /\ club \in buildOrganizationDraftOverrideBurdenSummary(
                          read, read[Organization], next).reducing <=>
                 Differing(StoredPolicy(next), row) < Differing(org, row)
           /\ club \in buildOrganizationDraftOverrideBurdenSummary(
                          read, read[Organization], next).gaining <=>
                 Differing(StoredPolicy(next), row) > Differing(org, row)
<1> DEFINE live == read[Organization]
           left == StoredPolicy(next)
           own == LoadedPolicy(club, row)
           exceptions(policy) == Cardinality(buildClubOverrideSummary(own, policy))
           burden == buildOrganizationDraftOverrideBurdenSummary(read, live, next)
<1>1. PICK changed \in PolicyFields :
          /\ DOMAIN patch = {changed}
          /\ changed \in RuleFields => patch[changed] # Null
          /\ changed = "autoApproveMaxRisk" /\ patch[changed] # Null => patch[changed] % 10 = 0
  BY DEF IsRestore, IsRestorePatch
<1>2. \A field \in PolicyFields : live[field] = org[field]
  BY DEF IsRestore, LoadedPolicy
<1>3. \A field \in PolicyFields :
          next[field] = IF field = changed THEN patch[field] ELSE org[field]
  BY <1>1, <1>2 DEF IsRestore, applyPatch
<1>4. ASSUME NEW field \in PolicyFields
      PROVE  left[field] = next[field]
  <2>1. field \in RuleFields => next[field] # Null
    BY <1>1, <1>3 DEF IsRestore, IsRow
  <2>2. CASE field = "autoApproveMaxRisk" /\ next[field] # Null
    <3>1. next[field] \in 0..1000 /\ next[field] % 10 = 0
      BY <1>1, <1>3, <2>2, FieldKinds DEF IsRestore, IsRow, IsPolicy, FieldValueOK
    <3>2. Rounded(next[field]) = next[field]
      BY <3>1, SMT DEF Rounded
    <3> QED
      BY <2>2, <3>2 DEF StoredPolicy
  <2>3. CASE ~(field = "autoApproveMaxRisk" /\ next[field] # Null)
    BY <2>1, <2>3 DEF StoredPolicy
  <2> QED
    BY <2>2, <2>3
<1> HIDE DEF left
<1>5. /\ buildClubOverrideSummary(own, live) = buildClubOverrideSummary(own, org)
      /\ buildClubOverrideSummary(own, next) = buildClubOverrideSummary(own, left)
  BY <1>2, <1>4 DEF buildClubOverrideSummary
<1>6. /\ club \in burden.reducing <=> exceptions(next) < exceptions(live)
      /\ club \in burden.gaining <=> exceptions(next) > exceptions(live)
  BY DEF IsRestore, buildOrganizationDraftOverrideBurdenSummary
<1>7. /\ \A field \in PolicyFields \ {changed} : org[field] = left[field]
      /\ org[changed] # left[changed]
  <2>1. \A field \in PolicyFields \ {changed} : org[field] = left[field]
    BY <1>3, <1>4
  <2>2. PICK field \in PolicyFields : live[field] # next[field]
    BY DEF IsRestore, listChangedPolicyAreas
  <2>3. org[field] # left[field]
    BY <1>2, <1>4, <2>2
  <2> QED
    BY <2>1, <2>3
<1>8. org[changed] # Null /\ left[changed] # Null
  BY <1>7 DEF IsRestore, left
<1>9. /\ exceptions(left) < exceptions(org) <=> Differing(left, row) < Differing(org, row)
      /\ exceptions(left) > exceptions(org) <=> Differing(left, row) > Differing(org, row)
  <2> HIDE DEF live
  <2> QED
    BY <1>7, <1>8, RestoreAtClub
<1> HIDE DEF burden
<1>10. /\ club \in burden.reducing <=> Differing(left, row) < Differing(org, row)
       /\ club \in burden.gaining <=> Differing(left, row) > Differing(org, row)
  BY <1>5, <1>6, <1>9
<1> QED
  BY <1>10 DEF left, burden
\* The snapshot with a commit that nobody came between says what the commit does.
LEMMA CommitIsSnapshotted ==
    ASSUME SnapshotInv, NEW c \in Clients, PostCommits(c), NEW club \in Clubs,
           recorded'[Len(recorded')] = HistoryContext(c),
           HistoryContext(c).of # Nothing, HistoryContext(c).since = Len(history)
    PROVE  CommitAsSnapshotted(club)
<1> DEFINE context == HistoryContext(c)
           said == context.snapshot
           org == rows[Organization]
           left == rows'[Organization]
           ofOrg(policy) == [field \in PolicyFields |->
               pickPolicyValue(Null, policy[field], defaultWorkflowPolicy[field])]
           before == EffectiveWorkflowPolicy(org, rows[club])
           after == EffectiveWorkflowPolicy(left, rows'[club])
           differingBefore == Cardinality(listChangedPolicyAreas(ofOrg(org), before))
           differingAfter == Cardinality(listChangedPolicyAreas(ofOrg(left), after))
           organizationPart ==
               /\ \A area \in said.rollout[club].insulated : after[area] = before[area]
               /\ \A area \in said.rollout[club].inheriting : after[area] = ofOrg(left)[area]
               /\ /\ context.burden # EmptyObject
                  /\ \A field \in PolicyFields :
                        org[field] # left[field] => Null \notin {org[field], left[field]}
                  => /\ club \in context.burden.reducing <=> differingAfter < differingBefore
                     /\ club \in context.burden.gaining <=> differingAfter > differingBefore
           clubPart ==
               /\ \A area \in said.overrides.removed : after[area] = ofOrg(left)[area]
               /\ \A area \in said.overrides.added \cup said.overrides.retained :
                     LoadedPolicy(club, rows'[club])[area] # Null
<1> SUFFICES /\ context.of = Organization => organizationPart
             /\ context.of = club => clubPart
  BY DEF CommitAsSnapshotted, InForce
<1>1. PICK scope, patch, read :
         LET next == applyPatch(read[scope], patch)
         IN  /\ scope \in Scopes
             /\ context.of = scope
             /\ \A other \in NeededScopes(scope) :
                    read[other] = LoadedPolicy(other, rows[other])
             /\ rows' = [rows EXCEPT ![scope] = StoredPolicy(next)]
             /\ IsPolicy(next)
             /\ IsConsolePatch(scope, patch)
             /\ listChangedPolicyAreas(read[scope], next) # {}
             /\ said = normalizeWorkflowPolicyHistoryContext(
                    IF scope = Organization
                    THEN buildOrganizationHistoryRolloutSnapshot(read, patch)
                    ELSE buildClubHistoryOverrideSnapshot(read, scope, patch))
             /\ context.burden # EmptyObject =>
                    /\ IsRestorePatch(scope, patch)
                    /\ context.burden =
                           buildOrganizationDraftOverrideBurdenSummary(read, read[scope], next)
  BY CommitContext
<1> HIDE DEF context
<1> DEFINE next == applyPatch(read[scope], patch)
<1>2. /\ DOMAIN rows = Scopes
      /\ IsRow(Organization, org) /\ IsRow(club, rows[club])
      /\ club # Organization /\ club \in Scopes /\ Organization \in Scopes
  <2>1. club # Organization /\ club \in Scopes /\ Organization \in Scopes
    BY StoreAssumption DEF Scopes
  <2> QED
    BY <2>1, TypeParts DEF SnapshotInv, BeforeInv, TypeInv
<1>3. CASE scope = Organization
  <2>1. left = StoredPolicy(next) /\ rows'[club] = rows[club]
    BY <1>1, <1>2, <1>3
  <2>2. /\ read[Organization] = LoadedPolicy(Organization, org)
        /\ read[club] = LoadedPolicy(club, rows[club])
    BY <1>1, <1>2, <1>3 DEF NeededScopes
  <2> DEFINE changed == listChangedPolicyAreas(read[Organization], next)
             own == buildClubOverrideSummary(read[club], next)
  <2>3. /\ said.rollout[club].inheriting = changed \ own
        /\ said.rollout[club].insulated = changed \cap own
    <3>1. /\ next = applyPatch(read[Organization], patch)
          /\ listChangedPolicyAreas(read[Organization], next) # {}
          /\ said = normalizeWorkflowPolicyHistoryContext(
                        buildOrganizationHistoryRolloutSnapshot(read, patch))
      BY <1>1, <1>3
    <3> HIDE DEF next, said
    <3> QED
      BY <3>1, RolloutOfClub
  <2>4. changed \subseteq PolicyFields
    BY DEF listChangedPolicyAreas
  <2>5. ASSUME NEW area \in PolicyFields
        PROVE  /\ area \in own => after[area] = before[area]
               /\ area \notin own => after[area] = ofOrg(left)[area]
    <3>1. /\ area \in own => EffectiveWorkflowPolicy(StoredPolicy(next), rows[club])[area] =
                                 EffectiveWorkflowPolicy(org, rows[club])[area]
          /\ area \notin own => EffectiveWorkflowPolicy(StoredPolicy(next), rows[club])[area] =
                 pickPolicyValue(Null, StoredPolicy(next)[area], defaultWorkflowPolicy[area])
      BY <1>2, <2>2, OrganizationSaveAtClub
    <3> HIDE DEF next
    <3> QED
      BY <2>1, <3>1
  <2>6. ASSUME context.burden # EmptyObject,
               \A field \in PolicyFields :
                   org[field] # left[field] => Null \notin {org[field], left[field]}
        PROVE  /\ club \in context.burden.reducing <=>
                      Differing(left, rows[club]) < Differing(org, rows[club])
               /\ club \in context.burden.gaining <=>
                      Differing(left, rows[club]) > Differing(org, rows[club])
    <3>1. /\ IsRestorePatch(Organization, patch)
          /\ context.burden = buildOrganizationDraftOverrideBurdenSummary(
                                  read, read[Organization], next)
          /\ IsPolicy(next)
          /\ listChangedPolicyAreas(read[Organization], next) # {}
          /\ next = applyPatch(read[Organization], patch)
      BY <1>1, <1>3, <2>6
    <3>2. \A field \in PolicyFields :
              org[field] # StoredPolicy(next)[field] =>
                  org[field] # Null /\ StoredPolicy(next)[field] # Null
      BY <2>1, <2>6
    <3> HIDE DEF next, org, left
    <3> DEFINE row == rows[club]
    <3>3. IsRestore(club, org, row, read, patch, next)
      BY <1>2, <2>2, <3>1, <3>2 DEF IsRestore
    <3> HIDE DEF row
    <3>4. /\ club \in buildOrganizationDraftOverrideBurdenSummary(
                       read, read[Organization], next).reducing <=>
                 Differing(StoredPolicy(next), row) < Differing(org, row)
          /\ club \in buildOrganizationDraftOverrideBurdenSummary(
                       read, read[Organization], next).gaining <=>
                 Differing(StoredPolicy(next), row) > Differing(org, row)
      BY <3>3, BurdenIsTrue
    <3> QED
      BY <2>1, <3>1, <3>4 DEF row
  <2>7. context.of = Organization /\ context.of # club
    BY <1>1, <1>2, <1>3
  <2>8. /\ Differing(org, rows[club]) = differingBefore
        /\ Differing(left, rows[club]) = differingAfter
    BY <2>1 DEF Differing
  <2>9. /\ \A area \in said.rollout[club].insulated : after[area] = before[area]
        /\ \A area \in said.rollout[club].inheriting : after[area] = ofOrg(left)[area]
    <3> HIDE DEF changed, own, after, before, ofOrg
    <3> QED
      BY <2>3, <2>4, <2>5
  <2> HIDE DEF differingBefore, differingAfter, said, after, before, org, left
  <2> QED
    BY <2>6, <2>7, <2>8, <2>9
<1>4. CASE scope = club
  <2>1. left = org /\ rows'[club] = StoredPolicy(next)
    BY <1>1, <1>2, <1>4
  <2>2. /\ read[Organization] = LoadedPolicy(Organization, org)
        /\ read[club] = LoadedPolicy(club, rows[club])
    BY <1>1, <1>2, <1>4 DEF NeededScopes
  <2>3. \A field \in RuleFields : next[field] # EmptyObject
    <3> SUFFICES ASSUME NEW field \in RuleFields
                 PROVE  next[field] # EmptyObject
      OBVIOUS
    <3>1. field \in PolicyFields
      BY FieldKinds
    <3>2. next[field] = IF field \in DOMAIN patch THEN patch[field] ELSE read[club][field]
      BY <1>4, <3>1 DEF applyPatch
    <3>3. field \in DOMAIN patch => patch[field] # EmptyObject
      BY <1>1, <1>2, <1>4 DEF IsConsolePatch
    <3>4. read[club][field] # EmptyObject
      BY <2>2, <3>1, LoadedOfClub
    <3> HIDE DEF next
    <3> QED
      BY <3>2, <3>3, <3>4
  <2> DEFINE overridden == buildClubOverrideSummary(read[club], read[Organization])
             overrides == buildClubOverrideSummary(next, read[Organization])
  <2>4. /\ said.overrides.removed = overridden \ overrides
        /\ said.overrides.added \cup said.overrides.retained = overrides
    BY <1>1, <1>2, <1>4, OverridesOfClub
  <2>5. overridden \subseteq PolicyFields /\ overrides \subseteq PolicyFields
    BY DEF buildClubOverrideSummary
  <2>6. ASSUME NEW area \in PolicyFields
        PROVE  /\ area \notin overrides => after[area] = ofOrg(left)[area]
               /\ area \in overrides => LoadedPolicy(club, rows'[club])[area] # Null
    <3>1. IsPolicy(next)
      BY <1>1
    <3> HIDE DEF next
    <3>2. /\ area \notin buildClubOverrideSummary(next, LoadedPolicy(Organization, org)) =>
                 EffectiveWorkflowPolicy(org, StoredPolicy(next))[area] =
                     pickPolicyValue(Null, org[area], defaultWorkflowPolicy[area])
          /\ area \in buildClubOverrideSummary(next, LoadedPolicy(Organization, org)) =>
                 LoadedPolicy(club, StoredPolicy(next))[area] # Null
      BY <1>2, <2>3, <3>1, ClubSaveAtClub
    <3> QED
      BY <2>1, <2>2, <3>2
  <2>7. context.of = club /\ context.of # Organization
    BY <1>1, <1>2, <1>4
  <2>8. /\ \A area \in said.overrides.removed : after[area] = ofOrg(left)[area]
        /\ \A area \in said.overrides.added \cup said.overrides.retained :
              LoadedPolicy(club, rows'[club])[area] # Null
    <3> HIDE DEF overridden, overrides, after, ofOrg
    <3> QED
      BY <2>4, <2>5, <2>6
  <2> HIDE DEF said, after
  <2> QED
    BY <2>7, <2>8
<1>5. CASE scope # Organization /\ scope # club
  <2>1. context.of # Organization /\ context.of # club
    BY <1>1, <1>5
  <2> QED
    BY <2>1
<1> QED
  BY <1>3, <1>4, <1>5

\* Whatever others post, and however many calls the console makes: the context that
\* buildOrganizationHistoryRolloutSnapshot and its companions put into the history is
\* true of the save, if no other save came since the console began to read.
THEOREM SnapshotsAreTrue == RolloutSpec => SnapshotIsTrue
<1>1. SnapshotInv /\ [RolloutNext]_rolloutVars =>
          [\A c \in Clients :
             LET context == recorded'[Len(recorded')]
             IN  /\ transaction[c] # Nothing /\ transaction'[c] = Nothing
                 /\ recorded' # recorded /\ context.of # Nothing
                 /\ context.since = Len(history)
                 => \A club \in Clubs : CommitAsSnapshotted(club)]_rolloutVars
  <2> DEFINE context == recorded'[Len(recorded')]
  <2> SUFFICES ASSUME SnapshotInv, RolloutNext,
                      recorded' # recorded, context.of # Nothing,
                      context.since = Len(history), NEW club \in Clubs
               PROVE  CommitAsSnapshotted(club)
    OBVIOUS
  <2>1. PICK c \in Clients : PostCommits(c)
    BY DEF RolloutNext, CallerPosts, ConsoleSavesForm, ConsoleSavesWithCleanup,
           ConsoleInherits, ConsoleOpensPage, ConsoleRestores, ReadPolicy, PostIsReceived,
           PostLoads, PostFails
  <2>2. context = HistoryContext(c)
    <3>1. BeforeInv'
      BY RolloutStepKeepsBefore DEF SnapshotInv
    <3> QED
      BY <2>1, <3>1, CommitKeepsSnapshot
  <2> QED
    BY <2>1, <2>2, CommitIsSnapshotted
<1> QED
  BY <1>1, SnapshotStep, SnapshotInit, PTL DEF RolloutSpec, SnapshotIsTrue
=============================================================================
