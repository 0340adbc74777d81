------------------------ MODULE ReviewProviderProofs ------------------------
(* Theorems about ReviewProvider, for any policies whose rules name reviewer
   roles, any captions, and whatever the providers write. *)
EXTENDS ReviewProvider, TLAPS

-----------------------------------------------------------------------------
(* What the three builders return. *)

\* The word rules never leave 0 .. 900.
LEMMA ScoreType ==
    ASSUME NEW caption PROVE scoreRisk(caption) \in 0 .. 1000
<1> DEFINE a == IF "injury" \in caption THEN 350 ELSE 0
           b == IF "contact" \in caption THEN 250 ELSE 0
           c == IF "profanity" \in caption THEN 200 ELSE 0
<1>1. a \in 0 .. 350 /\ b \in 0 .. 250 /\ c \in 0 .. 200
  OBVIOUS
<1>2. scoreRisk(caption) = IF caption = Null THEN 100 ELSE 100 + a + b + c
  BY DEF scoreRisk
<1> HIDE DEF a, b, c
<1> QED
  BY <1>1, <1>2

\* A level's score is one of three.
LEMMA LevelScoreType ==
    ASSUME NEW level
    PROVE  /\ riskLevelToScore(level) \in {150, 550, 850}
           /\ riskLevelToScore(level) = 150 => level \notin {"medium", "high"}
BY DEF riskLevelToScore

\* What the local rules give.
LEMMA FallbackArtifacts ==
    ASSUME NEW mode \in Modes \cup {"fallback"}
    PROVE  LET result == buildFallbackArtifacts(text, mode)
           IN  /\ result \in Artifacts
               /\ result.mode = mode
               /\ result.flagged = (scoreRisk(text) >= highRisk)
BY ScoreType DEF buildFallbackArtifacts, Artifacts

\* What an answer of Hermes gives.
LEMMA HermesArtifacts ==
    ASSUME NEW answer \in Answers
    PROVE  LET result == buildHermesArtifacts(answer)
           IN  /\ result \in Artifacts
               /\ result.mode = "hermes"
               /\ result.flagged = (answer.body = "review" /\ answer.risk = "high")
               /\ result.riskScore < mediumRisk
                      => answer.body = "review" /\ answer.risk = "low"
<1> DEFINE wrote == IF answer.body = "review" THEN answer.risk ELSE "other"
           level == normalizeRiskLevel(wrote)
           score == riskLevelToScore(level)
           routed == IF answer.body = "review" THEN normalizeApproverRole(answer.role) ELSE Null
<1>1. score \in {150, 550, 850} /\ (score = 150 => level \notin {"medium", "high"})
  BY LevelScoreType
<1>2. /\ level \in {"low", "medium", "high"} /\ (level = "low" => wrote = "low")
      /\ level = "high" <=> wrote = "high"
  BY DEF normalizeRiskLevel
<1>3. /\ wrote = "low" => answer.body = "review" /\ answer.risk = "low"
      /\ wrote = "high" <=> answer.body = "review" /\ answer.risk = "high"
  OBVIOUS
<1>4. routed \in ReviewerRoles \cup {Null}
  BY DEF normalizeApproverRole, ReviewerRoles
<1>5. buildHermesArtifacts(answer) =
          [mode |-> "hermes", riskScore |-> score, flagged |-> score >= highRisk,
           agentRole |-> routed, finding |-> FALSE]
  BY DEF buildHermesArtifacts
<1>7. score = 850 <=> level = "high"
  BY DEF riskLevelToScore
<1> HIDE DEF wrote, level, score, routed
<1>8. (score >= highRisk) = (answer.body = "review" /\ answer.risk = "high")
  BY <1>1, <1>2, <1>3, <1>7 DEF highRisk
<1>6. score \in 0 .. 1000 /\ (score < mediumRisk => score = 150)
  BY <1>1 DEF mediumRisk
<1> QED
  BY <1>1, <1>2, <1>3, <1>4, <1>5, <1>6, <1>8 DEF Artifacts

\* What OpenAI's two answers give: moderation alone decides the flag.
LEMMA OpenAIArtifacts ==
    ASSUME NEW answer \in Answers, NEW flagged \in BOOLEAN
    PROVE  LET result == buildOpenAIArtifacts(flagged, answer)
           IN  result \in Artifacts /\ result.mode = "openai" /\ result.flagged = flagged
<1> DEFINE score == riskLevelToScore(IF answer.body = "review" THEN answer.risk ELSE "other")
<1>1. score \in {150, 550, 850}
  BY LevelScoreType
<1>2. buildOpenAIArtifacts(flagged, answer) =
          [mode |-> "openai", riskScore |-> IF flagged /\ score < 800 THEN 800 ELSE score,
           flagged |-> flagged, agentRole |-> Null, finding |-> FALSE]
  BY DEF buildOpenAIArtifacts
<1> HIDE DEF score
<1> QED
  BY <1>1, <1>2 DEF Artifacts

\* The mode a misspelt setting stands for.
LEMMA ModeType ==
    ASSUME TypeOK PROVE normalizeReviewProviderMode \in Modes
BY DEF normalizeReviewProviderMode, Modes

-----------------------------------------------------------------------------
(* The inductive invariant. *)

\* A result is well-formed and its flag is that of whoever gave it; moderation's own
\* flag is lost only with the structured review; a low result of Hermes was written
\* as low. The structured call follows moderation's answer, the others come before.
ResultInv ==
    /\ pc \in {"start", "hermes", "moderation"} => moderation = Null
    /\ pc = "structured" => moderation \in BOOLEAN
    /\ pc = "done" =>
           /\ artifacts \in Artifacts
           /\ artifacts.mode = "openai" => artifacts.flagged = moderation
           /\ artifacts.mode = "hermes" =>
                  artifacts.flagged = (written.body = "review" /\ written.risk = "high")
           /\ artifacts.mode \notin {"hermes", "openai"} =>
                  artifacts.flagged = (scoreRisk(text) >= highRisk)
           /\ moderation = TRUE => artifacts.mode = "openai" \/ FlagIsLost
           /\ artifacts.mode = "hermes" /\ artifacts.riskScore < mediumRisk
                  => written.body = "review" /\ written.risk = "low"

IInv == TypeOK /\ ResultInv

\* A new worker has no result.
LEMMA InitInv == Init => IInv
BY DEF Init, IInv, TypeOK, ResultInv

\* Going on to a provider.
LEMMA CallKeeps ==
    ASSUME IInv, NEW provider \in {"hermes", "moderation", "structured"}, Call(provider),
           UNCHANGED <<env, text>>, written' \in Answers \cup {Null},
           moderation' \in IF provider = "structured" THEN BOOLEAN ELSE {Null}
    PROVE  IInv'
<1>1. moderation' \in BOOLEAN \cup {Null}
  OBVIOUS
<1>2. TypeOK'
  BY <1>1 DEF IInv, TypeOK, Call
<1>3. pc' = provider
  BY DEF Call
<1>4. ResultInv'
  BY <1>3 DEF ResultInv
<1> QED
  BY <1>2, <1>4 DEF IInv

\* Ending with a result.
LEMMA FinishKeeps ==
    ASSUME IInv, NEW result \in Artifacts, Finish(result),
           UNCHANGED <<env, text, moderation>>, written' \in Answers \cup {Null},
           result.mode = "openai" => result.flagged = moderation,
           result.mode = "hermes" =>
               result.flagged = (written'.body = "review" /\ written'.risk = "high"),
           result.mode \notin {"hermes", "openai"} =>
               result.flagged = (scoreRisk(text) >= highRisk),
           moderation = TRUE =>
               \/ result.mode = "openai"
               \/ result.mode = "fallback" /\ StructuredRaises(written'),
           result.mode = "hermes" /\ result.riskScore < mediumRisk
               => written'.body = "review" /\ written'.risk = "low"
    PROVE  IInv'
<1>1. pc' = "done" /\ artifacts' = result /\ text' = text /\ moderation' = moderation
  BY DEF Finish
<1>2. TypeOK'
  BY <1>1 DEF IInv, TypeOK, Finish
<1>3. /\ artifacts' \in Artifacts
      /\ artifacts'.mode = "openai" => artifacts'.flagged = moderation'
      /\ artifacts'.mode = "hermes" =>
             artifacts'.flagged = (written'.body = "review" /\ written'.risk = "high")
  BY <1>1
<1>4. /\ artifacts'.mode \notin {"hermes", "openai"} =>
             artifacts'.flagged = (scoreRisk(text') >= highRisk)
      /\ artifacts'.mode = "hermes" /\ artifacts'.riskScore < mediumRisk
             => written'.body = "review" /\ written'.risk = "low"
  BY <1>1
<1>5. moderation' = TRUE => artifacts'.mode = "openai" \/ FlagIsLost'
  BY <1>1 DEF FlagIsLost
<1>6. ResultInv'
  BY <1>1, <1>3, <1>4, <1>5 DEF ResultInv
<1> QED
  BY <1>2, <1>6 DEF IInv

\* Ending with the local rules.
LEMMA FallbackKeeps ==
    ASSUME IInv, NEW mode \in Modes \cup {"fallback"},
           Finish(buildFallbackArtifacts(text, mode)),
           UNCHANGED <<env, text, moderation>>, written' \in Answers \cup {Null},
           moderation = TRUE => mode = "fallback" /\ StructuredRaises(written')
    PROVE  IInv'
<1> DEFINE result == buildFallbackArtifacts(text, mode)
<1>1. /\ result \in Artifacts /\ result.mode = mode
      /\ result.flagged = (scoreRisk(text) >= highRisk)
  BY FallbackArtifacts
<1>2. mode \notin {"hermes", "openai"} /\ Finish(result)
  BY DEF Modes
<1> HIDE DEF result
<1> QED
  BY <1>1, <1>2, FinishKeeps

\* An answer of Hermes that is used.
LEMMA HermesKeeps ==
    ASSUME IInv, moderation = Null, NEW answer \in Answers,
           Finish(buildHermesArtifacts(answer)),
           UNCHANGED <<env, text, moderation>>, written' = answer
    PROVE  IInv'
<1> DEFINE result == buildHermesArtifacts(answer)
<1>1. /\ result \in Artifacts /\ result.mode = "hermes"
      /\ result.flagged = (answer.body = "review" /\ answer.risk = "high")
      /\ result.riskScore < mediumRisk => answer.body = "review" /\ answer.risk = "low"
  BY HermesArtifacts
<1>2. Finish(result) /\ moderation # TRUE
  BY NullAssumption
<1> HIDE DEF result
<1> QED
  BY <1>1, <1>2, FinishKeeps

\* OpenAI's answers, moderation and review, that are used.
LEMMA OpenAIKeeps ==
    ASSUME IInv, pc = "structured", NEW answer \in Answers,
           Finish(buildOpenAIArtifacts(moderation, answer)),
           UNCHANGED <<env, text, moderation>>, written' = answer
    PROVE  IInv'
<1> DEFINE result == buildOpenAIArtifacts(moderation, answer)
<1>1. moderation \in BOOLEAN
  BY DEF IInv, ResultInv
<1>2. result \in Artifacts /\ result.mode = "openai" /\ result.flagged = moderation
  BY <1>1, OpenAIArtifacts
<1>3. Finish(result)
  OBVIOUS
<1> HIDE DEF result
<1> QED
  BY <1>2, <1>3, FinishKeeps

\* Every step keeps the invariant.
LEMMA StepInv == IInv /\ [Next]_vars => IInv'
<1> SUFFICES ASSUME IInv, [Next]_vars PROVE IInv'
  OBVIOUS
<1> USE ModeType DEF IInv
<1>0. written \in Answers \cup {Null} /\ moderation \in BOOLEAN \cup {Null}
  BY DEF TypeOK
<1>9. pc \in {"start", "hermes", "moderation"} => moderation = Null /\ moderation # TRUE
  BY NullAssumption DEF ResultInv
<1>1. CASE Start
  <2>1. CASE Finish(buildFallbackArtifacts(text, normalizeReviewProviderMode))
    <3>1. normalizeReviewProviderMode \in Modes \cup {"fallback"}
      OBVIOUS
    <3> QED
      BY <1>0, <1>9, <1>1, <2>1, <3>1, FallbackKeeps DEF Start
  <2>2. CASE FallBack
    BY <1>0, <1>9, <1>1, <2>2, FallbackKeeps DEF Start, FallBack
  <2>3. ASSUME NEW provider \in {"hermes", "moderation"}, Call(provider)
        PROVE  IInv'
    BY <1>0, <1>9, <1>1, <2>3, CallKeeps DEF Start
  <2> QED
    BY <1>1, <2>1, <2>2, <2>3 DEF Start
<1>2. ASSUME NEW answer \in Answers, HermesAnswers(answer) PROVE IInv'
  <2>1. CASE Finish(buildHermesArtifacts(answer))
    BY <1>2, <1>9, <2>1, HermesKeeps DEF HermesAnswers
  <2>2. CASE Finish(buildFallbackArtifacts(text, "hermes_only"))
    BY <1>2, <1>9, <2>2, FallbackKeeps DEF HermesAnswers, Modes
  <2>3. CASE FallBack
    BY <1>2, <1>9, <2>3, FallbackKeeps DEF HermesAnswers, FallBack
  <2>4. CASE Call("moderation")
    BY <1>0, <1>9, <1>2, <2>4, CallKeeps DEF HermesAnswers
  <2> QED
    BY <1>2, <2>1, <2>2, <2>3, <2>4 DEF HermesAnswers
<1>3. ASSUME NEW answer \in Answers, StructuredAnswers(answer) PROVE IInv'
  <2>1. CASE StructuredRaises(answer)
    <3>1. Finish(buildFallbackArtifacts(text, "fallback")) /\ StructuredRaises(written')
      BY <1>3, <2>1 DEF StructuredAnswers, FallBack
    <3>2. UNCHANGED <<env, text, moderation>> /\ written' \in Answers \cup {Null}
      BY <1>3 DEF StructuredAnswers
    <3> QED
      BY <3>1, <3>2, FallbackKeeps
  <2>2. CASE ~StructuredRaises(answer)
    BY <1>3, <2>2, OpenAIKeeps DEF StructuredAnswers
  <2> QED
    BY <2>1, <2>2
<1>4. ASSUME NEW flagged \in BOOLEAN, ModerationAnswers(flagged) PROVE IInv'
  BY <1>0, <1>9, <1>4, CallKeeps DEF ModerationAnswers
<1>5. CASE ModerationFails
  BY <1>0, <1>9, <1>5, FallbackKeeps DEF ModerationFails, FallBack
<1>6. CASE TakeNext
  BY <1>6 DEF TakeNext, TypeOK, ResultInv
<1>7. CASE UNCHANGED vars
  BY <1>7 DEF vars, TypeOK, ResultInv, FlagIsLost
<1> QED
  BY <1>1, <1>2, <1>3, <1>4, <1>5, <1>6, <1>7 DEF Next, ProviderAnswers

\* What every reachable state satisfies.
LEMMA Invariant == Spec => []IInv
BY InitInv, StepInv, PTL DEF Spec

-----------------------------------------------------------------------------
\* Whatever the environment, the captions and the providers' answers, the worker's
\* review variables keep their types.
THEOREM TypeCorrect == Spec => []TypeOK
BY Invariant, PTL DEF IInv

\* Whatever a provider writes, a level or a role outside its instructions, JSON
\* null or nothing, routing names a role that reviews, under every policy.
THEOREM AlwaysRoutesToReviewers == Spec => []RoutesToReviewers
<1>1. IInv => RoutesToReviewers
  <2> SUFFICES ASSUME IInv, pc = "done", NEW p \in Policies, NEW v \in Visibilities,
                      NEW c \in ContentTypes
               PROVE  chooseRoutingDecision(p, v, artifacts, c) \in ReviewerRoles
    BY DEF RoutesToReviewers
  <2>1. artifacts.riskScore \in 0 .. 1000 /\ artifacts.agentRole \in ReviewerRoles \cup {Null}
    BY DEF IInv, ResultInv, Artifacts
  <2>2. choosePolicyApproverRole(p, v, artifacts.riskScore, c) \in ReviewerRoles
    BY <2>1, PoliciesAssumption
  <2> QED
    BY <2>1, <2>2 DEF chooseRoutingDecision
<1> QED
  BY <1>1, Invariant, PTL

\* Text the normalization does not know never counts as low: an item gets into
\* automatic approval by Hermes only when Hermes called it low.
THEOREM HermesLowIsWritten == Spec => []HermesLowIsExplicit
<1>1. IInv => HermesLowIsExplicit
  BY DEF IInv, ResultInv, HermesLowIsExplicit
<1> QED
  BY <1>1, Invariant, PTL

\* What any policy approves automatically everyone who judged it has let pass, with
\* one exception: moderation's flag is lost when the structured review fails after
\* it, and then the local rules have let the text pass. No failure in any other
\* place of the chain loses a flag.
THEOREM AutoApprovedAlwaysCleared == Spec => []AutoApprovedWasCleared
<1>1. IInv => AutoApprovedWasCleared
  <2> SUFFICES ASSUME IInv, pc = "done", AutoApprovable
               PROVE  /\ moderation = TRUE => FlagIsLost
                      /\ artifacts.mode = "hermes" =>
                             ~(written.body = "review" /\ written.risk = "high")
                      /\ artifacts.mode \notin {"hermes", "openai"} =>
                             scoreRisk(text) < highRisk
    BY DEF AutoApprovedWasCleared
  <2>1. artifacts.flagged = FALSE
    BY DEF AutoApprovable, shouldAutoApproveSubmission, IInv, ResultInv, Artifacts
  <2>2. scoreRisk(text) \in 0 .. 1000
    BY ScoreType
  <2>3. artifacts.mode # "openai" \/ moderation = FALSE
    BY <2>1 DEF IInv, ResultInv
  <2>4. moderation = TRUE => FlagIsLost
    BY <2>3 DEF IInv, ResultInv
  <2>5. artifacts.mode = "hermes" => ~(written.body = "review" /\ written.risk = "high")
    BY <2>1 DEF IInv, ResultInv
  <2>6. ASSUME artifacts.mode \notin {"hermes", "openai"} PROVE scoreRisk(text) < highRisk
    <3>1. ~(scoreRisk(text) >= highRisk)
      BY <2>1, <2>6 DEF IInv, ResultInv
    <3> QED
      BY <2>2, <3>1 DEF highRisk
  <2> QED
    BY <2>4, <2>5, <2>6
<1> QED
  BY <1>1, Invariant, PTL

-----------------------------------------------------------------------------
(* Which providers see the content. *)

\* What the chain called so far tells of the environment it was called in.
ChainInv ==
    /\ pc = "start" => calls = <<>>
    /\ pc = "hermes" => "hermes" \in Called
    /\ pc \in {"moderation", "structured"} => "moderation" \in Called
    /\ calls # <<>> => env.mode \notin SkippingModes
    /\ "hermes" \in Called =>
           /\ calls # <<>> /\ calls[1] = "hermes"
           /\ env.mode \in {"auto", "misspelt", "hermes_only"}
    /\ ~(Called \subseteq {"hermes"}) =>
           /\ env.mode \in {"auto", "misspelt", "openai_only"}
           /\ hasHermesReviewAgent /\ env.mode # "openai_only" => "hermes" \in Called

\* A new worker has called nobody.
LEMMA InitChain == Init => ChainInv
BY DEF Init, ChainInv, Called

\* One more provider at the end of the chain.
LEMMA CallAdds ==
    ASSUME TypeOK, NEW provider \in {"hermes", "moderation", "structured"}, Call(provider)
    PROVE  /\ Called' = Called \cup {provider}
           /\ calls' # <<>> /\ pc' = provider
           /\ calls'[1] = IF calls = <<>> THEN provider ELSE calls[1]
<1>1. calls \in Seq({"hermes", "moderation", "structured"})
  BY DEF TypeOK
<1>2. /\ calls' = Append(calls, provider) /\ pc' = provider
      /\ Len(calls) \in Nat /\ DOMAIN calls = 1 .. Len(calls)
  BY <1>1 DEF Call
<1>3. /\ DOMAIN calls' = 1 .. Len(calls) + 1
      /\ calls'[Len(calls) + 1] = provider
      /\ \A i \in 1 .. Len(calls) : calls'[i] = calls[i]
  BY <1>1, <1>2
<1>4. Called' = Called \cup {provider}
  BY <1>2, <1>3 DEF Called
<1>5. calls' # <<>>
  BY <1>2, <1>3
<1>6. calls'[1] = IF calls = <<>> THEN provider ELSE calls[1]
  BY <1>1, <1>2, <1>3
<1> QED
  BY <1>2, <1>4, <1>5, <1>6

\* The end of the review calls nobody.
LEMMA FinishChain ==
    ASSUME ChainInv, UNCHANGED <<env, calls>>, pc' = "done"
    PROVE  ChainInv'
BY DEF ChainInv, Called, hasHermesReviewAgent

\* Every step keeps to the chain of the mode.
LEMMA StepChain == TypeOK /\ ChainInv /\ [Next]_vars => ChainInv'
<1> SUFFICES ASSUME TypeOK, ChainInv, [Next]_vars PROVE ChainInv'
  OBVIOUS
<1>1. CASE Start
  <2>1. calls = <<>> /\ Called = {} /\ UNCHANGED env
    BY <1>1 DEF Start, ChainInv, Called
  <2>2. CASE calls' = calls /\ pc' = "done"
    BY <2>1, <2>2, FinishChain
  <2>3. CASE Call("hermes") /\ normalizeReviewProviderMode \in {"auto", "hermes_only"}
    <3>1. Called' = {"hermes"} /\ calls' # <<>> /\ calls'[1] = "hermes" /\ pc' = "hermes"
      BY <2>1, <2>3, CallAdds
    <3>2. env.mode \in {"auto", "misspelt", "hermes_only"}
      BY <2>3 DEF normalizeReviewProviderMode, TypeOK, Modes
    <3> QED
      BY <2>1, <3>1, <3>2 DEF ChainInv, SkippingModes
  <2>4. CASE /\ Call("moderation")
             /\ \/ normalizeReviewProviderMode = "openai_only"
                \/ normalizeReviewProviderMode = "auto" /\ ~hasHermesReviewAgent
    <3>1. Called' = {"moderation"} /\ calls' # <<>> /\ pc' = "moderation"
      BY <2>1, <2>4, CallAdds
    <3>2. \/ env.mode = "openai_only"
          \/ env.mode \in {"auto", "misspelt"} /\ ~hasHermesReviewAgent
      BY <2>4 DEF normalizeReviewProviderMode, TypeOK, Modes
    <3> QED
      BY <2>1, <3>1, <3>2 DEF ChainInv, SkippingModes, hasHermesReviewAgent
  <2> QED
    BY <1>1, <2>1, <2>2, <2>3, <2>4 DEF Start, Finish, FallBack
<1>2. ASSUME NEW answer \in Answers, HermesAnswers(answer) PROVE ChainInv'
  <2>1. "hermes" \in Called /\ UNCHANGED env
    BY <1>2 DEF HermesAnswers, ChainInv
  <2>2. CASE calls' = calls /\ pc' = "done"
    BY <2>1, <2>2, FinishChain
  <2>3. CASE Call("moderation") /\ normalizeReviewProviderMode # "hermes_only"
    <3>1. /\ Called' = Called \cup {"moderation"} /\ calls' # <<>> /\ pc' = "moderation"
          /\ calls # <<>> /\ calls'[1] = calls[1] /\ calls[1] = "hermes"
      BY <2>1, <2>3, CallAdds DEF ChainInv
    <3>2. env.mode \in {"auto", "misspelt"}
      BY <2>1, <2>3 DEF normalizeReviewProviderMode, ChainInv, Modes
    <3> QED
      BY <2>1, <3>1, <3>2 DEF ChainInv, SkippingModes
  <2> QED
    BY <1>2, <2>2, <2>3 DEF HermesAnswers, Finish, FallBack
<1>3. ASSUME NEW answer \in Answers, StructuredAnswers(answer) PROVE ChainInv'
  BY <1>3, FinishChain DEF StructuredAnswers, Finish, FallBack
<1>4. ASSUME NEW flagged \in BOOLEAN, ModerationAnswers(flagged) PROVE ChainInv'
  <2>1. "moderation" \in Called /\ UNCHANGED env /\ Call("structured")
    BY <1>4 DEF ModerationAnswers, ChainInv
  <2>2. calls # <<>>
    BY <2>1 DEF Called
  <2>3. /\ Called' = Called \cup {"structured"} /\ calls' # <<>> /\ pc' = "structured"
        /\ calls'[1] = calls[1]
    BY <2>1, <2>2, CallAdds
  <2> QED
    BY <2>1, <2>2, <2>3 DEF ChainInv, SkippingModes, hasHermesReviewAgent
<1>5. CASE ModerationFails
  BY <1>5, FinishChain DEF ModerationFails, Finish, FallBack
<1>6. CASE TakeNext
  BY <1>6 DEF TakeNext, ChainInv, Called
<1>7. CASE UNCHANGED vars
  BY <1>7 DEF vars, ChainInv, Called, hasHermesReviewAgent
<1> QED
  BY <1>1, <1>2, <1>3, <1>4, <1>5, <1>6, <1>7 DEF Next, ProviderAnswers

\* Whatever fails, content reaches only the providers the mode allows, and OpenAI
\* in auto only when Hermes is not configured or has been asked first.
THEOREM OnlyTheModesProviders == Spec => []OnlyProvidersOfTheMode
<1>1. TypeOK /\ ChainInv => OnlyProvidersOfTheMode
  BY DEF ChainInv, OnlyProvidersOfTheMode, TypeOK, Called, SkippingModes
<1>2. Spec => []ChainInv
  <2>1. Spec => []TypeOK
    BY TypeCorrect
  <2> QED
    BY <2>1, InitChain, StepChain, PTL DEF Spec
<1> QED
  BY <1>1, <1>2, TypeCorrect, PTL
=============================================================================
