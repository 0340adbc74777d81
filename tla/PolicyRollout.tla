--------------------------- MODULE PolicyRollout ---------------------------
(***************************************************************************)
(* What the admin console says of policies: the simulator and the warnings *)
(* of its workflow-settings page, and the snapshot of the clubs that it    *)
(* puts into the history with a save.                                      *)
(*                                                                         *)
(* The console is a server of its own. For a save or a restore it first    *)
(* reads the scope, then what the scope touches, one call each, and only   *)
(* then posts the update of PolicyStore; others update in between.         *)
(***************************************************************************)
EXTENDS PolicyStore, FiniteSets

CONSTANTS
    Consoles,       \* the clients that are console sessions; others call the API
    Simulations     \* submissions, with a review outcome, the simulator is tried on

VARIABLES
    reads,      \* what a client's save has read before it posts
    recorded    \* per history entry its historyContext

rolloutVars == <<vars, reads, recorded>>

ASSUME RolloutAssumption ==
    /\ Consoles \subseteq Clients
    /\ Simulations \subseteq [visibility : Visibilities, contentType : ContentTypes,
                              riskScore : 0 .. 1000, flagged : BOOLEAN,
                              agentRole : ReviewerRoles \cup {Null}]

-----------------------------------------------------------------------------
(* The console's reading of the policies.                                   *)

\* Mutant: the arguments swapped.
pickPolicyValueSwapped(overrideValue, fallbackValue, defaultValue) ==
    IF fallbackValue # Null THEN fallbackValue
    ELSE IF overrideValue # Null THEN overrideValue ELSE defaultValue

pickPolicyValue(overrideValue, fallbackValue, defaultValue) ==
    IF overrideValue # Null THEN overrideValue
    ELSE IF fallbackValue # Null THEN fallbackValue ELSE defaultValue

buildEffectivePolicyFromPolicies(org, club) ==
    [field \in PolicyFields |->
        pickPolicyValue(club[field], org[field], defaultWorkflowPolicy[field])]

\* The API's own reading: its effectivePolicy, and the rules taken from it.
buildClubPolicyResponse(club) ==
    [field \in PolicyFields |->
        pickOverride(LoadedPolicy(club, rows[club])[field],
                     LoadedPolicy(Organization, rows[Organization])[field],
                     defaultWorkflowPolicy[field])]
RuleOrNone(rule) == IF rule = Null THEN EmptyObject ELSE rule
loadEffectiveNotificationRuleForClubId(club) ==
    RuleOrNone(buildClubPolicyResponse(club).notificationRule)
loadEffectiveApprovalRuleForClubId(club) ==
    RuleOrNone(buildClubPolicyResponse(club).approvalRule)

\* The console's overrides, and those that only repeat the organization's value.
buildClubOverrideSummary(club, org) ==
    {field \in PolicyFields : club[field] # Null /\ club[field] # org[field]}
matchingExplicit(club, org) ==
    {field \in PolicyFields : club[field] # Null /\ club[field] = org[field]}

listChangedPolicyAreas(live, preview) ==
    {field \in PolicyFields : live[field] # preview[field]}

-----------------------------------------------------------------------------
(* The simulator.                                                           *)

shouldRequireSecondApproval(policy, input) ==
    LET types == Field(policy.approvalRule, "secondApprovalContentTypes", {})
    IN  /\ Field(policy.approvalRule, "requireSecondApprovalForPublic", FALSE)
        /\ input.visibility = "public"
        /\ types # {} => input.contentType \in types

\* Whether a notification of the event goes out on the channel.
resolveNotificationChannelPolicy(rule, event, channel) ==
    LET ofEvent == Field(Field(rule, "eventChannels", EmptyObject), event, EmptyObject)
    IN  Field(rule, channel, TRUE) /\ Field(ofEvent, channel, TRUE)

Channels == {"email", "push"}
Notifies(rule, event) ==
    {channel \in Channels : resolveNotificationChannelPolicy(rule, event, channel)}

simulatePolicyOutcome(policy, input) ==
    LET local == choosePolicyApproverRole(policy, input.visibility, input.riskScore,
                                          input.contentType)
        allowed == shouldAutoApproveSubmission(policy, input.visibility, input,
                                               input.contentType)
    IN  [approverRole |->
            IF /\ ~HasContentTypeApprover(policy, input.contentType)
               /\ policy.allowAgentRouting /\ input.agentRole # Null
            THEN input.agentRole ELSE local,
         autoApproval |-> allowed,
         secondApproval |-> ~allowed /\ shouldRequireSecondApproval(policy, input),
         publishingPlan |-> choosePublishingPlan(policy, input.visibility),
         reviewStarted |->
            IF allowed THEN {} ELSE Notifies(policy.notificationRule, "submission_review_started"),
         published |-> Notifies(policy.notificationRule, "submission_published")]

-----------------------------------------------------------------------------
(* Warnings before a save.                                                  *)

\* What the draft takes from the simulated submission.
buildOutcomeRiskWarnings(live, preview) ==
    {warning \in {"second approval"} : live.secondApproval /\ ~preview.secondApproval}
    \cup {warning \in {"auto approval"} : ~live.autoApproval /\ preview.autoApproval}
    \cup (live.published \ preview.published)

\* Mutant: the channel alone, not the event's.
GuardrailWarningsTopLevel(live, preview) ==
    {channel \in Channels : /\ Field(RuleOrNone(live.notificationRule), channel, TRUE)
                            /\ ~Field(RuleOrNone(preview.notificationRule), channel, TRUE)}

\* The guardrails on the diff of two policies of an organization, whose draft may
\* have no rule.
buildPolicyGuardrailWarnings(live, preview) ==
    LET needsTwo(policy) ==
            Field(RuleOrNone(policy.approvalRule), "requireSecondApprovalForPublic", FALSE)
        limits == {live.autoApproveMaxRisk, preview.autoApproveMaxRisk}
    IN  {warning \in {"second approval"} : needsTwo(live) /\ ~needsTwo(preview)}
        \cup {warning \in {"auto approval"} : /\ ~live.autoApproveInternalLowRisk
                                              /\ preview.autoApproveInternalLowRisk}
        \cup {warning \in {"threshold"} : /\ Null \notin limits
                                          /\ preview.autoApproveMaxRisk > live.autoApproveMaxRisk}
        \cup (Notifies(RuleOrNone(live.notificationRule), "submission_published")
                 \ Notifies(RuleOrNone(preview.notificationRule), "submission_published"))

-----------------------------------------------------------------------------
(* The snapshot of a save.                                                  *)

\* Per club the fields it overrides.
buildOrganizationDirectoryPreview(read, org) ==
    [club \in Clubs |-> buildClubOverrideSummary(read[club], org)]

\* Where the clubs inherit the changed areas, and where they are insulated.
buildLiveOrganizationRolloutSnapshot(directory, changed) ==
    [club \in Clubs |-> [inheriting |-> changed \ directory[club],
                         insulated |-> changed \cap directory[club]]]

\* Where a club now only repeats the organization.
buildOrganizationInheritanceCleanupItems(read, changed, org) ==
    [club \in Clubs |-> changed \cap matchingExplicit(read[club], org)]

\* The clubs with fewer exceptions than before, and with more.
buildOrganizationDraftOverrideBurdenSummary(read, live, next) ==
    LET exceptions(club, org) == Cardinality(buildClubOverrideSummary(read[club], org))
    IN  [reducing |-> {club \in Clubs : exceptions(club, next) < exceptions(club, live)},
         gaining |-> {club \in Clubs : exceptions(club, next) > exceptions(club, live)}]

\* Mutant: overrides against the organization's former policy.
RolloutSnapshotOfLive(read, patch) ==
    LET live == read[Organization]
        next == applyPatch(live, patch)
        changed == listChangedPolicyAreas(live, next)
    IN  [rollout |-> buildLiveOrganizationRolloutSnapshot(
                         buildOrganizationDirectoryPreview(read, live), changed),
         cleanup |-> buildOrganizationInheritanceCleanupItems(read, changed, next)]

buildOrganizationHistoryRolloutSnapshot(read, patch) ==
    LET live == read[Organization]
        next == applyPatch(live, patch)
        changed == listChangedPolicyAreas(live, next)
    IN  [rollout |-> buildLiveOrganizationRolloutSnapshot(
                         buildOrganizationDirectoryPreview(read, next), changed),
         cleanup |-> buildOrganizationInheritanceCleanupItems(read, changed, next)]

\* The overrides a club's save adds, removes and keeps.
buildClubDraftOverrideImpact(org, live, preview) ==
    LET before == buildClubOverrideSummary(live, org)
        after == buildClubOverrideSummary(preview, org)
    IN  [added |-> after \ before, removed |-> before \ after, retained |-> after \cap before]

buildClubHistoryOverrideSnapshot(read, club, patch) ==
    LET next == applyPatch(read[club], patch)
    IN  [overrides |-> buildClubDraftOverrideImpact(read[Organization], read[club], next),
         cleanup |-> matchingExplicit(next, read[Organization])]

\* What the API keeps of it: the parts it knows, which cleanup is not, and a rollout
\* only if it names a club.
normalizeWorkflowPolicyHistoryContext(snapshot) ==
    LET known == DOMAIN snapshot \cap {"rollout", "overrides"}
        named(rollout) == \E club \in Clubs : rollout[club].inheriting # {}
                                              \/ rollout[club].insulated # {}
    IN  [part \in {p \in known : p = "rollout" => named(snapshot[p])} |-> snapshot[part]]

\* What a save of the scope reads first, and then.
NeededScopes(scope) == IF scope = Organization THEN Scopes ELSE {scope, Organization}

\* A save that changes nothing carries no snapshot; the burden is shown after a
\* restore.
NoContext == [of |-> Nothing]
HistoryContext(c) ==
    LET request == Head(requests[c])
        scope == request.scope
        read == reads[c].policies
        next == applyPatch(read[scope], request.patch)
        snapshot == IF scope = Organization
                    THEN buildOrganizationHistoryRolloutSnapshot(read, request.patch)
                    ELSE buildClubHistoryOverrideSnapshot(read, scope, request.patch)
    IN  IF reads[c] = Nothing THEN NoContext
        ELSE IF listChangedPolicyAreas(read[scope], next) = {} THEN NoContext
        ELSE [of |-> scope, since |-> reads[c].since,
              snapshot |-> normalizeWorkflowPolicyHistoryContext(snapshot),
              burden |-> IF scope = Organization /\ reads[c].restores
                         THEN buildOrganizationDraftOverrideBurdenSummary(read, read[scope], next)
                         ELSE EmptyObject]

-----------------------------------------------------------------------------
RolloutInit ==
    /\ Init
    /\ reads = [c \in Clients |-> Nothing]
    /\ recorded = <<>>

\* Nothing read yet, but to be read.
StartsReading(c, restores) ==
    reads' = [reads EXCEPT ![c] = [since |-> Len(history), restores |-> restores,
                                   policies |-> EmptyObject]]

\* A caller of the API posts at once; the console reads first.
CallerPosts(c) ==
    /\ \E user \in Users, scope \in Scopes : PostPatch(c, user, scope)
    /\ UNCHANGED <<reads, recorded>>

ConsoleSavesForm(c) ==
    /\ \E user \in Users : SubmitForm(c, user)
    /\ StartsReading(c, FALSE)
    /\ UNCHANGED recorded

ConsoleSavesWithCleanup(c) ==
    /\ \E user \in Users : SaveWithCleanup(c, user)
    /\ StartsReading(c, FALSE)
    /\ UNCHANGED recorded

\* A field is set back to its value before an entry that was the newest when the
\* page was loaded.
ConsoleRestores(c, scope) ==
    /\ \E user \in Users, i \in EntriesOf(scope) :
       \E field \in listChangedPolicyAreas(history[i].previous, history[i].next) :
          LET patch == [key \in {field} |-> history[i].previous[key]]
          IN  /\ ValidPatch(scope, patch)
              /\ Send(c, <<Request(scope, user, patch, {field}, NoCleanup)>>)
    /\ StartsReading(c, TRUE)
    /\ UNCHANGED recorded

\* The bulk clean-up records no snapshot.
ConsoleInherits(c) ==
    /\ \E user \in Users : InheritArea(c, user)
    /\ UNCHANGED <<reads, recorded>>

ConsoleOpensPage(c) ==
    /\ \E scope \in Scopes : OpenPage(c, scope)
    /\ UNCHANGED <<reads, recorded>>

\* One GET: the request's own scope first, then the others in any order.
ReadPolicy(c, scope) ==
    LET own == Head(requests[c]).scope
        done == DOMAIN reads[c].policies
    IN  /\ requests[c] # <<>> /\ reads[c] # Nothing
        /\ scope \in NeededScopes(own) \ done
        /\ done = {} => scope = own
        /\ reads' = [reads EXCEPT ![c].policies =
                        [read \in done \cup {scope} |->
                            IF read = scope THEN LoadedPolicy(scope, rows[scope])
                                            ELSE reads[c].policies[read]]]
        /\ UNCHANGED <<vars, recorded>>

\* The POST goes out with all that was to be read.
PostIsReceived(c) ==
    /\ requests[c] # <<>>
    /\ reads[c] # Nothing =>
           DOMAIN reads[c].policies = NeededScopes(Head(requests[c]).scope)
    /\ Begin(c)
    /\ UNCHANGED <<reads, recorded>>

PostLoads(c) == Load(c) /\ UNCHANGED <<reads, recorded>>

\* The audit row carries the context; a clean-up's further updates have none.
PostCommits(c) ==
    /\ Save(c)
    /\ recorded' = Append(recorded, HistoryContext(c))
    /\ reads' = [reads EXCEPT ![c] = Nothing]

PostFails(c) ==
    /\ Fail(c)
    /\ reads' = [reads EXCEPT ![c] = Nothing]
    /\ UNCHANGED recorded

RolloutNext ==
    \E c \in Clients :
        \/ c \notin Consoles /\ CallerPosts(c)
        \/ /\ c \in Consoles
           /\ \/ ConsoleSavesForm(c) \/ ConsoleSavesWithCleanup(c)
              \/ ConsoleInherits(c) \/ ConsoleOpensPage(c)
              \/ \E scope \in Scopes : ConsoleRestores(c, scope)
        \/ \E scope \in Scopes : ReadPolicy(c, scope)
        \/ PostIsReceived(c) \/ PostLoads(c) \/ PostCommits(c) \/ PostFails(c)

RolloutSpec == RolloutInit /\ [][RolloutNext]_rolloutVars

-----------------------------------------------------------------------------
(* Properties.                                                              *)

ConsolePolicy(club) ==
    buildEffectivePolicyFromPolicies(LoadedPolicy(Organization, rows[Organization]),
                                     LoadedPolicy(club, rows[club]))

\* The page says it shows "what the worker will do" (apps/admin-web/server.js:8602):
\* from every row the editors can leave behind, the simulator's outcome is the
\* decision of the worker, and of the API for the second approval, though the three
\* read the rows each in a way of its own.
SimulatorAgrees ==
    \A club \in Clubs, input \in Simulations :
        LET policy == InForce(club)
            ofAPI == [policy EXCEPT !.approvalRule = loadEffectiveApprovalRuleForClubId(club)]
            outcome == simulatePolicyOutcome(ConsolePolicy(club), input)
            review == [riskScore |-> input.riskScore, flagged |-> input.flagged,
                       mode |-> "hermes", agentRole |-> input.agentRole]
            allowed == shouldAutoApproveSubmission(policy, input.visibility, review,
                                                   input.contentType)
        IN  /\ outcome.autoApproval = allowed
            /\ outcome.approverRole =
                   chooseRoutingDecision(policy, input.visibility, review, input.contentType)
            /\ outcome.secondApproval =
                   (~allowed /\ shouldRequireSecondApprovalForAction(
                                    ofAPI, "primary", input.visibility, input.contentType))
            /\ outcome.publishingPlan = choosePublishingPlan(policy, input.visibility)
            /\ \A rule \in {policy.notificationRule, loadEffectiveNotificationRuleForClubId(club)} :
                   outcome.published = Notifies(rule, "submission_published")

\* The guardrails "still show up even when a single simulator scenario would miss
\* them" (apps/admin-web/server.js:3890): a draft of the organization that would
\* silence a channel on which submitters hear of publication at some club, however
\* the club inherits the rule, is not without a warning that names the channel.
LossIsWarned ==
    LET live == LoadedPolicy(Organization, rows[Organization])
    IN  \A edits \in Patches[Organization], club \in Clubs, input \in Simulations :
            LET preview == applyPatch(live, edits)
                outcome(org) ==
                    simulatePolicyOutcome(
                        buildEffectivePolicyFromPolicies(org, LoadedPolicy(club, rows[club])),
                        input)
            IN  buildOutcomeRiskWarnings(outcome(live), outcome(preview)) \cap Channels
                    \subseteq buildPolicyGuardrailWarnings(live, preview)

\* What the context of an audit row, the newest, says of its commit at a club.
CommitAsSnapshotted(club) ==
    LET context == recorded'[Len(recorded')]
        said == context.snapshot
        ofOrg(org) == [field \in PolicyFields |->
            pickPolicyValue(Null, org[field], defaultWorkflowPolicy[field])]
        before == ofOrg(rows[Organization])
        after == ofOrg(rows'[Organization])
        differing == Cardinality(listChangedPolicyAreas(before, InForce(club)))
        differingAfter == Cardinality(listChangedPolicyAreas(after, InForce(club)'))
    IN  /\ context.of = Organization =>
              /\ \A area \in said.rollout[club].insulated :
                     InForce(club)'[area] = InForce(club)[area]
              /\ \A area \in said.rollout[club].inheriting :
                     InForce(club)'[area] = after[area]
              /\ /\ context.burden # EmptyObject
                 /\ \A field \in PolicyFields :
                       rows[Organization][field] # rows'[Organization][field] =>
                           Null \notin {rows[Organization][field], rows'[Organization][field]}
                 => /\ club \in context.burden.reducing <=> differingAfter < differing
                    /\ club \in context.burden.gaining <=> differingAfter > differing
        /\ context.of = club =>
              /\ \A area \in said.overrides.removed : InForce(club)'[area] = after[area]
              /\ \A area \in said.overrides.added \cup said.overrides.retained :
                     LoadedPolicy(club, rows'[club])[area] # Null

\* A snapshot "captures which clubs were inheriting the changed organization areas
\* and which clubs were still insulated" (apps/admin-web/server.js:6780): a save that
\* nobody else's came between, however many calls its console made before, changes
\* nothing where it says insulated, brings the organization's value where it says
\* inheriting or removed, and keeps the club's own where it says added or retained.
\* The clubs a restore says lose or gain exceptions differ from the organization in
\* fewer or more fields, if the field restored has a value before and after (the count
\* is of stored overrides, which do not see the built-in default under an empty field).
SnapshotIsTrue ==
    [][\A c \in Clients :
          LET context == recorded'[Len(recorded')]
          IN  /\ transaction[c] # Nothing /\ transaction'[c] = Nothing
              /\ recorded' # recorded /\ context.of # Nothing
              /\ context.since = Len(history)
              => \A club \in Clubs : CommitAsSnapshotted(club)]_rolloutVars
=============================================================================
