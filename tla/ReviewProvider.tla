-------------------------- MODULE ReviewProvider ---------------------------
(* The AI review a worker runs inside processSubmissionCreated: which providers
   it calls, in which order, what it makes of their answers, and the local rules
   it falls back to (review-provider.js, hermes-review.js, openai.js,
   fallback-review.js).  Each call may fail; answers are what a model may write.

   Scores are in thousandths: the sums scoreRisk makes of binary fractions are
   taken as exact, which decides nothing unless a policy's limit is 0.30, 0.45
   or 0.65.  A summary's wording is left out. *)
EXTENDS WorkflowPolicy, FiniteSets

CONSTANTS
    Policies,       \* effective policies
    Texts           \* captions: Null, or the set of word groups one matches

Words == {"injury", "contact", "profanity"}

ASSUME NullAssumption == Null \notin BOOLEAN
ASSUME TextsAssumption == Texts \subseteq {Null} \cup SUBSET Words
ASSUME PoliciesAssumption ==
    \A p \in Policies : \A v \in Visibilities, risk \in 0 .. 1000, c \in ContentTypes :
        choosePolicyApproverRole(p, v, risk, c) \in ReviewerRoles

highRisk == 750

Modes == {"auto", "disabled", "log_only", "fallback_only", "hermes_only", "openai_only"}
SkippingModes == {"disabled", "log_only", "fallback_only"}
AgentModes == {"review_agent", "ollama_generate", "responses_api"}

VARIABLES
    env,        \* the worker process's environment
    text,       \* the submission's caption
    pc,         \* what the review waits for
    calls,      \* the providers called, in order
    moderation, \* what OpenAI's moderation said, once it did
    written,    \* what the last provider wrote
    artifacts   \* the review's result

vars == <<env, text, pc, calls, moderation, written, artifacts>>

Answer == [body : {"unreachable", "error", "empty", "garbled", "null", "review"},
           risk : {"low", "medium", "high", "other"},
           role : {"club_comms", "club_admin", "other"}]

\* What a review says matters only if there is one.
Answers == {a \in Answer : a.body = "review" \/ (a.risk = "low" /\ a.role = "other")}

Artifacts == [mode : Modes \cup {"hermes", "openai", "fallback"}, riskScore : 0 .. 1000,
              flagged : BOOLEAN, agentRole : ReviewerRoles \cup {Null}, finding : BOOLEAN]

TypeOK ==
    /\ env \in [mode : Modes \cup {"misspelt"}, agent : AgentModes \cup {Null},
                openai : {Null, "replace-me", "key"}]
    /\ text \in Texts
    /\ pc \in {"start", "hermes", "moderation", "structured", "done"}
    /\ calls \in Seq({"hermes", "moderation", "structured"})
    /\ moderation \in BOOLEAN \cup {Null}
    /\ written \in Answers \cup {Null}
    /\ artifacts \in Artifacts \cup {Null}

-----------------------------------------------------------------------------
(* The local rules. *)

scoreRisk(caption) ==
    IF caption = Null THEN 100
    ELSE 100 + (IF "injury" \in caption THEN 350 ELSE 0)
             + (IF "contact" \in caption THEN 250 ELSE 0)
             + (IF "profanity" \in caption THEN 200 ELSE 0)

buildFallbackArtifacts(caption, mode) ==
    [mode |-> mode, riskScore |-> scoreRisk(caption),
     flagged |-> scoreRisk(caption) >= highRisk, agentRole |-> Null,
     finding |-> scoreRisk(caption) >= mediumRisk]

-----------------------------------------------------------------------------
(* What is made of the providers' answers. *)

\* Mutant: an unknown level passes through.
normalizeRiskLevelAsIs(level) == level
normalizeRiskLevel(level) == IF level \in {"low", "medium", "high"} THEN level ELSE "medium"

\* Mutant: the agent's role passes through.
normalizeApproverRoleAsIs(role) == role
normalizeApproverRole(role) == IF role \in {"club_admin", "club_comms"} THEN role ELSE Null

riskLevelToScore(level) ==
    CASE level = "high" -> 850 [] level = "medium" -> 550 [] OTHER -> 150

hasHermesReviewAgent == env.agent # Null
hasOpenAI == env.openai \notin {Null, "replace-me"}

normalizeReviewProviderMode == IF env.mode \in Modes THEN env.mode ELSE "auto"

\* runHermesReviewAgent throws; which bodies do depends on the agent's protocol.
HermesRaises(answer) ==
    \/ answer.body \in {"unreachable", "error", "garbled"}
    \/ answer.body = IF env.agent = "review_agent" THEN "null" ELSE "empty"

buildHermesArtifacts(answer) ==
    LET level == normalizeRiskLevel(IF answer.body = "review" THEN answer.risk ELSE "other")
        score == riskLevelToScore(level)
    IN  [mode |-> "hermes", riskScore |-> score, flagged |-> score >= highRisk,
         agentRole |-> IF answer.body = "review" THEN normalizeApproverRole(answer.role) ELSE Null,
         finding |-> FALSE]

\* runStructuredReview throws. JSON null is an empty review.
StructuredRaises(answer) == answer.body \in {"unreachable", "error", "empty", "garbled"}

\* Mutant: flagged is what the score says.
buildOpenAIArtifactsByScore(flagged, answer) ==
    LET score == riskLevelToScore(IF answer.body = "review" THEN answer.risk ELSE "other")
    IN  [mode |-> "openai", riskScore |-> score, flagged |-> score >= highRisk,
         agentRole |-> Null, finding |-> FALSE]

buildOpenAIArtifacts(flagged, answer) ==
    LET score == riskLevelToScore(IF answer.body = "review" THEN answer.risk ELSE "other")
    IN  [mode |-> "openai", riskScore |-> IF flagged /\ score < 800 THEN 800 ELSE score,
         flagged |-> flagged, agentRole |-> Null, finding |-> FALSE]

-----------------------------------------------------------------------------
Init ==
    /\ env \in [mode : Modes \cup {"misspelt"}, agent : AgentModes \cup {Null},
                openai : {Null, "replace-me", "key"}]
    /\ text \in Texts
    /\ pc = "start"
    /\ calls = <<>>
    /\ moderation = Null
    /\ written = Null
    /\ artifacts = Null

Call(provider) ==
    /\ pc' = provider
    /\ calls' = Append(calls, provider)
    /\ UNCHANGED artifacts

Finish(result) ==
    /\ pc' = "done"
    /\ artifacts' = result
    /\ UNCHANGED calls

FallBack == Finish(buildFallbackArtifacts(text, "fallback"))

\* buildReviewArtifacts up to its first call, or to its end if there is none.
Start ==
    /\ pc = "start"
    /\ LET mode == normalizeReviewProviderMode
       IN  \/ /\ \/ mode \in SkippingModes
                 \/ mode = "openai_only" /\ ~hasOpenAI
                 \/ mode = "hermes_only" /\ ~hasHermesReviewAgent
              /\ Finish(buildFallbackArtifacts(text, mode))
           \/ /\ mode \in {"auto", "hermes_only"} /\ hasHermesReviewAgent
              /\ Call("hermes")
           \/ /\ \/ mode = "openai_only"
                 \/ mode = "auto" /\ ~hasHermesReviewAgent
              /\ hasOpenAI
              /\ Call("moderation")
           \/ /\ mode = "auto" /\ ~hasHermesReviewAgent /\ ~hasOpenAI
              /\ FallBack
    /\ UNCHANGED <<env, text, moderation, written>>

\* Mutant: hermes_only throws the error on, and the worker goes to its next event.
HermesAnswersOrThrows(answer) ==
    /\ pc = "hermes"
    /\ \/ /\ ~HermesRaises(answer)
          /\ Finish(buildHermesArtifacts(answer))
       \/ /\ HermesRaises(answer)
          /\ normalizeReviewProviderMode = "hermes_only"
          /\ pc' = "start"
          /\ calls' = <<>>
          /\ UNCHANGED artifacts
       \/ /\ HermesRaises(answer)
          /\ normalizeReviewProviderMode # "hermes_only"
          /\ IF hasOpenAI THEN Call("moderation") ELSE FallBack
    /\ written' = answer
    /\ UNCHANGED <<env, text, moderation>>

\* Mutant: hermes_only goes on like auto.
HermesAnswersThenOpenAI(answer) ==
    /\ pc = "hermes"
    /\ \/ /\ ~HermesRaises(answer)
          /\ Finish(buildHermesArtifacts(answer))
       \/ /\ HermesRaises(answer)
          /\ IF hasOpenAI THEN Call("moderation") ELSE FallBack
    /\ written' = answer
    /\ UNCHANGED <<env, text, moderation>>

HermesAnswers(answer) ==
    /\ pc = "hermes"
    /\ \/ /\ ~HermesRaises(answer)
          /\ Finish(buildHermesArtifacts(answer))
       \/ /\ HermesRaises(answer)
          /\ normalizeReviewProviderMode = "hermes_only"
          /\ Finish(buildFallbackArtifacts(text, "hermes_only"))
       \/ /\ HermesRaises(answer)
          /\ normalizeReviewProviderMode # "hermes_only"
          /\ IF hasOpenAI THEN Call("moderation") ELSE FallBack
    /\ written' = answer
    /\ UNCHANGED <<env, text, moderation>>

\* A moderation result without an entry counts as not flagged.
ModerationAnswers(flagged) ==
    /\ pc = "moderation"
    /\ moderation' = flagged
    /\ Call("structured")
    /\ UNCHANGED <<env, text, written>>

ModerationFails ==
    /\ pc = "moderation"
    /\ FallBack
    /\ UNCHANGED <<env, text, moderation, written>>

StructuredAnswers(answer) ==
    /\ pc = "structured"
    /\ IF StructuredRaises(answer) THEN FallBack
       ELSE Finish(buildOpenAIArtifacts(moderation, answer))
    /\ written' = answer
    /\ UNCHANGED <<env, text, moderation>>

\* The worker takes another submission.
TakeNext ==
    /\ pc = "done"
    /\ pc' = "start"
    /\ text' \in Texts
    /\ calls' = <<>>
    /\ moderation' = Null
    /\ written' = Null
    /\ artifacts' = Null
    /\ UNCHANGED env

ProviderAnswers ==
    \/ \E answer \in Answers : HermesAnswers(answer) \/ StructuredAnswers(answer)
    \/ \E flagged \in BOOLEAN : ModerationAnswers(flagged)
    \/ ModerationFails

Next == Start \/ ProviderAnswers \/ TakeNext

\* fetch gives up on a silent server, so each call ends.
Spec == Init /\ [][Next]_vars /\ WF_vars(Start) /\ WF_vars(ProviderAnswers)

-----------------------------------------------------------------------------
(* Properties. *)

Called == {calls[i] : i \in DOMAIN calls}

\* README's table of modes: which provider may be called at all, and OpenAI in
\* auto only when Hermes is not configured or has failed.
OnlyProvidersOfTheMode ==
    /\ env.mode \in SkippingModes => calls = <<>>
    /\ env.mode = "hermes_only" => Called \subseteq {"hermes"}
    /\ env.mode = "openai_only" => "hermes" \notin Called
    /\ "hermes" \in Called => calls[1] = "hermes"
    /\ hasHermesReviewAgent /\ "moderation" \in Called /\ env.mode # "openai_only"
           => calls[1] = "hermes"

\* Whatever provider fails or writes nonsense, the review ends with a result: a
\* throw would leave the submission's event failed.
ReviewEnds == pc = "start" ~> pc = "done"

\* What SubmissionWorkflow assumes of the constant Reviews: whatever a provider
\* writes, the item goes to a role that reviews.
RoutesToReviewers ==
    pc = "done" => \A p \in Policies, v \in Visibilities, c \in ContentTypes :
        chooseRoutingDecision(p, v, artifacts, c) \in ReviewerRoles

\* Hermes gets an item into automatic approval only by calling it low: text the
\* normalization does not recognize never counts as low.
HermesLowIsExplicit ==
    pc = "done" /\ artifacts.mode = "hermes" /\ artifacts.riskScore < mediumRisk
    => written.body = "review" /\ written.risk = "low"

AutoApprovable ==
    \E p \in Policies, v \in Visibilities, c \in ContentTypes :
        shouldAutoApproveSubmission(p, v, artifacts, c)

\* Moderation has flagged the text, then the structured review failed: the local
\* rules' result carries no trace of the flag.
FlagIsLost ==
    moderation = TRUE /\ artifacts.mode = "fallback" /\ StructuredRaises(written)

\* What a policy approves automatically, be its limit any score, everyone who
\* judged it has let pass: moderation did not flag it, Hermes did not call it high,
\* the local rules did not put it at high risk. There is one exception, which is
\* what the code does: a flag is lost when the structured review fails after it, and
\* then the local rules alone have let the text pass.
AutoApprovedWasCleared ==
    pc = "done" /\ AutoApprovable =>
        /\ moderation = TRUE => FlagIsLost
        /\ artifacts.mode = "hermes" => ~(written.body = "review" /\ written.risk = "high")
        /\ artifacts.mode \notin {"hermes", "openai"} => scoreRisk(text) < highRisk

=============================================================================
