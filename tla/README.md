# Verification of the club content platform

TLA+ models of the club content platform, the TLC runs that check them on small
instances, and theorems about them checked by TLAPS. The source is the reference:
`PROJECT.json` names, for each definition, the lines it models.

## The system

A club's members submit photos, videos and texts; a worker reviews them with an
AI model, routes them to a reviewer or approves them itself, and publishes what
is approved to the club's feed. The processes share one PostgreSQL database and
talk to each other only through it.

| Part | State | Operations | Hard behaviour |
|---|---|---|---|
| Submission workflow API (`apps/app-api/src/index.js`, `approval-authorization.js`) | `submissions`, `approval_requests`, `approval_actions`, `submission_events` | create, resubmit, approve, reject, request changes, retry an event; queue and feed queries | decisions repeated or contradicting each other, decisions on old requests, races with the worker |
| Worker (`apps/worker/src/index.js`, `pipeline.js`, `publishing.js`) | the same tables, `publishing_jobs`, `published_posts`, audit rows | `tick` every few seconds: claim the oldest pending event, review or publish, mark it done or failed | overlapping ticks, reads before an await and writes after it, exceptions, crashes, partial publishing |
| Workflow policy decisions (`apps/worker/src/workflow-policy.js`) | none | effective policy, routing, auto-approval, publishing plan | inheritance: absent, null and empty values differ |
| Workflow policy store (`apps/app-api/src/workflow-policies.js`) | `organization_workflow_policies`, `club_workflow_policies`, audit rows | load, patch, history | read-modify-write by two editors, two readers of the same rows |
| Notifications (`packages/shared/src/notification-delivery.js`, `push-delivery.js`, `apps/app-api/src/notification-*.js`) | `notifications`, audit rows | create and deliver inside the caller's transaction; delivery webhooks | messages sent by a transaction that rolls back, webhooks early, late, twice or out of order |
| Push tokens (`apps/app-api/src/push-tokens.js`, `apps/mobile/pushRegistration.js`) | audit rows used as a log; the device's status line | register, unregister, list the active ones; the app's registering effect | answers late or lost, two users or devices and one installation |
| AI review (`apps/worker/src/review-provider.js`, `hermes-review.js`, `openai.js`, `fallback-review.js`) | none | a chain of providers with fallbacks | each call may fail, answers outside the instructions |
| Read models (`submission-*.js`, `approval-request-detail.js`, `workflow-events.js`, `feedFilters.js`) | none | SELECTs and formatting | none of their own |
| Media storage (`storage.js`) | object store | presigned URLs | none in the program |
| Bootstrap and readiness (`bootstrap.js`, `simulator-org-state.js`, `app-readiness.js`, `db/schema.sql`) | users, memberships, policy and destination rows of the demo and the pilot tenant | seed at each start, reset and validate the pilot tenant | other addresses at each start, lock order of a start and a reset, crashes |
| Admin console (`apps/admin-web`) | what the page showed; what a save has read | policy editor with simulator, warnings and snapshots; the API's operations | acting on a stale page, many requests for one save |
| Mobile app (`apps/mobile`) | what each screen last loaded | queue, detail sheet, decisions, waiting for publication; the submitter's form | answers late, out of order, lost; a decision that goes on while the user does other things |
| Scripts (`scripts`) | the pilot tenant's rows | apply and roll back a candidate's SQL; smoke and deployment | applied next to resets and starts |

The correctness properties of each part, in words:

- *Workflow*: nothing is published that was not released; no item gets stuck without
  a queued event, a listed failure or a listed request; nothing is posted twice
  unless asked; the second stage follows the first; a decision means what the
  product tells its users it means.
- *Worker*: every event is handled or listed as failed, whatever overlaps or crashes;
  an interrupted handler leaves nothing behind.
- *Policy*: the worker and the API read the same effective policy; an edit changes
  what it names and nothing else; the history tells what happened.
- *Notifications*: a delivery report reaches the notification it is about.
- *Push tokens*: a device receives the notifications of the user it belongs to.
- *AI review*: it ends, and an item skips review only if those whose answer was used have let
  it pass.
- *Tenants*: a start takes over the configured addresses and nothing else; a reset ends in
  the baseline; neither waits for ever.
- *Console*: what it says of a policy is what the worker will do, and what it records of a
  save is what the save did.
- *Mobile app*: whatever order answers come in, what it shows as over is over, its requests
  are of the item they are shown with, and an item that waits for a decision gets listed.

`PROJECT.json` lists the hazards, each at its line with the properties that watch it.

## Modules

- **`WorkflowPolicy`**: the policy as a record and the decisions taken from it. A JSON
  rule is a function whose domain is the set of keys present, so `{}` is the empty
  function; SQL NULL is the model value `Null`; risk scores are thousandths.
- **`ApproverDirectory`** extends it with the memberships and the three queries over
  them: `findApprover` (worker, first stage), `findApprovalStageApprover` (API, second
  stage), `MayActOn` (who the API lets decide).
- **`SubmissionWorkflow`** extends that with the shared tables and the processes:

| Code | Model |
|---|---|
| `handleCreateSubmission`, `handleResubmitSubmission` | `Create`, `Resubmit` |
| `handleApprovalAction` | `Approve`, `ApproveFirstStage`, `SendBack` (they share `RecordAction`, `Decided`) |
| `handleRetryWorkflowEvent` | `RetryWorkflowEvent` |
| PATCH of a policy, as the workflow sees it | `UpdateWorkflowPolicy` |
| `pollOnce`, up to the handler's SELECT | `Claim` |
| `processSubmissionCreated` | `FinishWithAutoApproval`, `FinishWithReviewRequest`, `HandlerThrows` |
| `processSubmissionApproved` | `FinishPublishing`, `HandlerThrows` |
| `markEventFailed` | `MarkEventFailed` |
| a crash, a lost connection | `Interrupt` |

- **`PublicationPromise`** is what a club can rely on when items are published, without ticks,
  locks and transactions; `SubmissionWorkflow` implements it:

| `SubmissionWorkflow` | Promise |
|---|---|
| `Approve`, `FinishWithAutoApproval` (they insert an approved event) | `Approve` |
| `FinishPublishing` | `Publish`, on the destinations it reached, perhaps none |
| `MarkEventFailed` of a pending approved event | `GiveUp` |
| `RetryWorkflowEvent` of an approved event that a tick is done with | `Retry` |
| `ApproveFirstStage`, `SendBack`, `FinishWithReviewRequest` | `Decide` |
| the other steps, a late `MarkEventFailed` among them | a stutter |

- **`PolicyStore`** extends `WorkflowPolicy` with the stored rows, their history, and the
  console sessions and API transactions that change them:

| Code | Model |
|---|---|
| `POST /workflow-policies/...` by itself, a console restore | `PostPatch` |
| `renderWorkflowSettingsPage` with the editor open | `OpenPage` |
| `buildPolicyPayload`, the form's save | `FormValue`, `FormRule`, `FormPatch`, `SubmitForm` |
| `save-with-cleanup`, `bulk-inherit-area` | `SaveWithCleanup`, `InheritArea` |
| `withTransaction`'s BEGIN | `Begin` |
| `loadWorkflowPolicyScope`, `authorizeWorkflowPolicyActor` | `Load` |
| `applyPatchValue`, the upsert, the audit row, COMMIT | `Save` |
| 403, an exception, a lost response | `Fail` |
| the worker's reading of the rows | `InForce` |

- **`PolicyRollout`** extends `PolicyStore` with what the console reads before it posts, what
  it says and what it records:

| Code | Model |
|---|---|
| `buildEffectivePolicyFromPolicies`, `pickPolicyValue` | the same names |
| `buildClubPolicyResponse`, `loadEffective...RuleForClubId` of the API | the same names |
| `simulatePolicyOutcome` and its parts | `simulatePolicyOutcome`, `shouldRequireSecondApproval`, `Notifies` |
| the warnings of the simulator and of the diff | `buildOutcomeRiskWarnings`, `buildPolicyGuardrailWarnings` |
| the snapshots of a save, what the API keeps of them | `build...Snapshot`, `build...Summary`, `build...Impact`, `normalizeWorkflowPolicyHistoryContext` |
| the GETs before a POST, one by one | `ReadPolicy` |
| restore from the history | `ConsoleRestores` |
| the other buttons | `ConsoleSavesForm`, `ConsoleSavesWithCleanup`, `ConsoleInherits`, `ConsoleOpensPage` |
| POST, its transaction, its failure | `PostIsReceived`, `PostLoads`, `PostCommits`, `PostFails` |

- **`ReviewProvider`** extends `WorkflowPolicy` with one worker's review of a submission:

| Code | Model |
|---|---|
| environment, `normalizeReviewProviderMode` | `env`, `normalizeReviewProviderMode` |
| `buildReviewArtifacts` up to its first call | `Start` |
| `runHermesReviewAgent`, `buildHermesArtifacts` | `HermesAnswers`, `HermesRaises`, `buildHermesArtifacts` |
| the moderation call | `ModerationAnswers`, `ModerationFails` |
| `runStructuredReview`, `buildOpenAIArtifacts` | `StructuredAnswers`, `StructuredRaises`, `buildOpenAIArtifacts` |
| `scoreRisk`, `buildFallbackArtifacts` | the same names |

- **`PushTokens`**: the log of registrations and the app's effect; **`NotificationDelivery`**
  extends it with the handlers' deliveries; **`NotificationPromise`** is what a submitter
  can rely on, which `NotificationDelivery` implements:

| Code | Model |
|---|---|
| the effect that registers, its answer, `isCurrent` | `UseAddress`, `Answered`, `RequestLost` |
| `POST /push-tokens` | `registerPushToken`, `Revoke` |
| `listActivePushRegistrations` | the same name |
| BEGIN, effective policy, INSERT of the notification | `Begin` |
| `resolveNotificationChannelPolicy` | the same name |
| `sendEmailViaResend` and its audit row | `sendEmailViaResend`, `EmailDone` |
| `sendPushNotifications` and its audit row | `sendPushNotifications` |
| COMMIT; a crash, a later statement that fails | `Commit`, `Fail` |
| `recordNotificationWebhookEvent` | the same name |

- **`TenantSetup`**: the two tenants that the platform brings along.

| Code | Model |
|---|---|
| `buildSeed`, defaults and environment | `buildSeed`, `Defaults`, `Environments` |
| `ensureRoleMembership`, `upsertUser`, `ensureOrganizationMembership` | the same names; each is the set of results it may have |
| BEGIN and `ensureWorkflowPolicyTables` of a start | `LockTables` |
| `ensureSeedData`, both passes, COMMIT, listen | `SeedTenant`, `SeedAndListen` |
| `repairSimulatorOrganizationState`, `validateSimulatorOrganizationState` | `BeginReset`, `FinishReset`, `Repaired`, `PilotMatchesBaseline` |
| PostgreSQL's deadlock detection, restart by the container | `AbortDeadlocked` |
| a deployment or a crash | `Deploy` |
| the candidate scripts' SQL | `ApplyCandidate`, `RollBackCandidate` |
| PATCH of a policy | `EditPolicy` |

- **`MobileClient`**: the app in a reviewer's hands, and of the server what the app reads:
  requests, whether an item has an event to publish it, whether it has a post.

| Code | Model |
|---|---|
| `loadReviewQueue` and its timer | `loadReviewQueue`, `QueueArrives` |
| `loadSubmissionDetail`, `openReviewItem` | `loadSubmissionDetail`, `DetailArrives` |
| `performReviewAction`, from await to await | `submitReviewAction`, `ServerTakes`, `ActionFails`, `ActionOver`, `Refreshes`, `waitForPublishedSubmission`, `NextItem`, `ShowNextItem` |
| `selectReviewAction`, `setActiveView`, `setRoleMode` with its effect | the same names |
| the sheet's close button, the card "Last approved" | `CloseDetail`, `OpenLastApproved` |
| `loadSubmissionWorkflowDetail`, `loadApprovalQueue` | `Detail`, `PendingItems` |
| `handleApprovalAction`, of the app and of others | `Decide` |
| other reviewers, submitters, the worker | `Others` (`Ask`, `AutoApprove`, `Decide`, `Publish`) |

- **`MC...`** modules give the constants values for TLC, **`...Proofs`** modules hold the
  theorems of the module they are named after; `PolicyRolloutProofs` builds on
  `PolicyStoreProofs`, and `SubmissionPostsProofs` (the bound on repeated posts and
  the promise of publication) on `SubmissionWorkflowProofs`.

How they compose: `SubmissionWorkflow` takes the outcomes of the AI review and the policies
in force as constants; `ReviewProvider`'s `RoutesToReviewers` is what it assumes of the
former (`WorkflowAssumption`), and `PolicyStore` shows what the latter may be.
`PolicyRollout` is `PolicyStore` with the console around it, `NotificationDelivery` is
`PushTokens` with the handlers around it, and its jobs stand for the events and decisions
of `SubmissionWorkflow` that notify. `MobileClient`'s server abstracts `SubmissionWorkflow`:
like `RecordAction` there it takes a decision on any request, but it keeps only whether a
request is pending or decided and drops texts, statuses and events that are done. What a
decision does to those, a stale one included, is checked in `SubmissionWorkflow`.

Operators marked *Mutant* stand next to the definition they alter. They are plausible
bugs, used only to show that each property can fail.

Choices that matter for the reading of the model:

- An API handler runs in one transaction and locks the rows it decides on before it
  reads them (`FOR UPDATE` over request and submission), so it is one action. A worker
  tick reads the submission without a lock, awaits a review or other queries, and its
  writes become visible at COMMIT; `Claim` and the `Finish` actions are separate and
  anything may happen between them. `seen` is what the tick read.
- `created_at` is the start of the inserting transaction, which may wait for a lock
  before it commits, so the oldest visible event is any pending event.
- ROLLBACK and `markEventFailed` are two transactions; between them the event is free.
- Only the `internal_feed` adapter exists, so publishing is a write to the database.
  One active destination row per type is assumed, as the bootstrap makes it.
- `visibility_target` is free text in the schema; the clients send `internal` or `public`.
- The feed joins posts to the submission's current text: `revision` says which one.
- An update of a policy reads the row without a lock and takes the row's lock with its
  upsert, which it holds to COMMIT: the write and the COMMIT are one action, BEGIN and the
  read are others. `begun` is the transaction's time, which `audit_logs.created_at` records.
- A console endpoint that sends several requests is a sequence of requests of the session;
  what it reads for its own display and choice (`InheritArea`) is one read. The form rebuilds
  the rules it posts (`FormRule`); every rule but the notification rule is taken to survive
  that as it was shown or edited. Clubs belong to one
  organization, and policy rows exist as the bootstrap and the pilot scripts make them.
- `PolicyStore` and `SubmissionWorkflow` meet in `UpdateWorkflowPolicy`, which lets
  the policy in force be any of the given ones at any time.
- Left out of `SubmissionWorkflow` because no decision reads them: review runs and findings,
  publishing jobs, media rows, notifications, and the events whose handlers are empty.
- A provider's answer in `ReviewProvider` is what its text means to the parser: which bodies
  raise depends on the agent's protocol; scores are thousandths, and sums of binary
  fractions are taken as exact.
- In `NotificationDelivery` neither a rejected fetch nor an answer with an error status says
  whether the mail was accepted: a gateway may fail after the provider took it.
  A mail's id names the transaction that sent it. Registrations carry the time their
  transaction began; a registration is one step.
- In `TenantSetup` a start's ALTER TABLE holds the tables from its first statements to its
  COMMIT and a reset holds the organization's row from its first statement, so that the
  two wait for each other; nothing else of the two transactions is visible in between.
  Of several holders of a role the oldest is taken to be any of them.
- In `MobileClient` a request's number is its place in the order of `created_at`, which is
  when its transaction began, so that a row may be inserted before rows that are there.
  Approved, rejected, sent back and expired are one state, since the app only words them
  differently. A detail's queries are read in one step and each handler runs to its next
  await in one step. The detail sheet is a modal, so nothing below it can be tapped while
  it shows an item.

## Runs

| Run | Question | Result |
|---|---|---|
| `submission_safety` | Do requests, decisions, posts and status stay consistent over review, send-back, resubmission, both stages, auto-approval, publishing and policy changes? | holds |
| `submission_overlap` | Do overlapping ticks, exceptions, crashes and retries lose an item, repeat a post or break the promise of publication? | they do not |
| `submission_progress` | Is every received or approved item eventually moved on or listed as failed? | it is |
| `rejected_published` | Does a rejection keep the item from being published? | no: after an approval, the queued event publishes it |
| `unreviewed_public_post` | Was the text a public item shows approved? | not after an approved item is sent back and resubmitted |
| `policy_one_editor` | Do the rows stay legal, does an edit change only what it was asked to, is the history a chain, for one session with failures? | holds |
| `policy_two_editors` | With a console session and a caller of the API that overlap: was each "before" in force once, does the simulator say what the worker does, is a silenced channel warned of, are the recorded snapshots true of the saves nobody came between? | they are |
| `lost_policy_edit` | Does an edit change only its fields when two sessions overlap? | no: the later commit takes the earlier edit back |
| `tenant_setup` | Over starts with other addresses, crashes, resets that deadlock with a start, candidates and edits: are addresses unique, do identities and edits survive, does a reset end in the baseline, does a start end? | holds |
| `review_chain` | In every mode, for every failure and kind of answer: does the review end, call only whom the mode allows, route to a reviewer, take a Hermes answer for low only if it says so, and let nothing moderation flagged be approved automatically? | holds, except that the flag is lost when the structured review fails after it |
| `notification_delivery` | With failing providers, rollbacks, repeats, webhooks in any order and a device that registers, changes its address and is revoked: is "delivered" and "skipped" stored only where it is so, is what is switched off or revoked silent, is the promise kept? | holds |
| `mobile_client` | With answers late, out of order or lost, and decisions of others on any request: does what the app shows as over stay over, and does an item that waits get into the queue? | holds |

`HistoryExplains` and `OnlyAskedFieldsChange` are claimed for one session only: two
transactions that read the same row and save one after the other leave a newest entry whose
"before" is not what the entry below it left, and the later one takes back the earlier edit.
What two editors do to each other is for `BeforeWasInForce` and `lost_policy_edit` to show.
`OnlyAskedFieldsChange` also supposes `FormShowsRules`, that the form has inputs for every rule
stored or posted: it drops what it has none for. `PushReadyIsRegistered` is claimed for users
with one device per platform (`OneDevicePerPlatform`): an installation id names the address and
the platform, so a second device takes the first one's place. `SubmitterInboxApplied` is
claimed for environments in which no address serves both tenants (`SeparateTenants`): with
one that does, the pass of a start for the pilot tenant may rename the user whom the pass for
the demo tenant has just made the submitter (`bootstrap.js:282`). The MC modules assume the
last three, so that TLC checks that the instances satisfy them; the first is `Clients`.

Each run that ends in "no" or "not" states what a message to the user or the plan says; the
findings in `PROJECT.json` quote it.

**Known differences.** Met while modelling, with no run of their own:

- a change request does not pause the review: a decided request still takes decisions
  (`index.js:1205` of the API), while the mail says that it is
  paused (`notification-delivery.js:106`);
- the worker may assign a team manager of another team (`pipeline.js:66`), whom the API
  refuses (`approval-authorization.js:89`); a club admin or another reviewer can still act;
- the console's form drops channels of events it has no selectors for (`server.js:9142`);
- save-with-cleanup may end half done while the history already names the clubs as cleaned
  (`server.js:10514`, `10536`);
- the cleanup part of a snapshot is dropped by `normalizeWorkflowPolicyHistoryContext`
  (`index.js:568`), so the history card always says that no club value matched
  (`server.js:6751`), and a club restore's summary reads two undefined names
  (`server.js:10411`);
- a snapshot or a confirm dialog describes the policies as they were read: if another editor
  commits between the reads and the post, the entry's context is stale, and no other check
  notices (`SnapshotIsTrue` is about the saves nobody came between);
- the burden of a restore counts stored overrides and not what is in force: where the
  organization's own field is empty, a club that repeats the built-in default counts as an
  exception (`SnapshotIsTrue` is about restored fields that have a value before and after);
- the guardrails look at switches and limits, not at content-type lists that are narrowed;
- the reviewer's address set alone (README.md:390) does not stay: the club admin is by default
  the same user, whom the same start then renames back to the default (`bootstrap.js:282`);
- what a transaction sent by e-mail or push stays sent when it is rolled back: the promise
  that is kept (`NotificationPromise`) allows several e-mails before one notification;
- an e-mail or a push stored as "failed" may have been accepted: a lost push answer and every
  answer with an error status are stored like a refusal (`notification-delivery.js:291`);
- when moderation has flagged a text and the structured review fails after it, the fallback
  decides without the flag, and an item it scores low may be approved automatically
  (`review-provider.js:72`-`101`);
- an OpenAI `risk_level` that is neither high nor medium scores like low, whatever it says
  (`review-provider.js:6`, `78`); only a Hermes answer is normalized upwards;
- a tap on Approve is taken for the request the sheet was loaded with, decided or superseded
  meanwhile or not (`index.js:1133`, `approval-authorization.js:7`): after another reviewer
  sent the item back and the submitter resubmitted, it approves a text that was not on the
  screen;
- the sheet offers a decided request again after an answer was lost, when the next item
  fails to load or a late detail answer replaces it (`App.js:703`, `1126`); the second tap is
  taken, and an approval publishes again;
- the sheet acts on the item's latest request only, while the queue lists every pending one: an
  item whose older request is pending stays in the queue and opens without a panel;
- "Queue is clear" is also said when the queue could not be read (`App.js:1014`, `1196`).

**Bounds.** One submission is enough because handlers touch the rows of one submission
only; the shared pieces are the policy, the members and the worker's ticks. Two requests
and three events allow two stages, one resubmission with a second review, a repeated
approval, and a retry. `submission_safety` has one tick and two revisions, so that a
decision and a resubmission fall between the tick's read and write. `submission_overlap`
has two ticks, one retry and one interruption: two handlers at once on one item, a
second claim between ROLLBACK and `markEventFailed`, and a crash. Its one policy has all at
once: auto-approval, a second stage and a plan whose second destination has no adapter, so
that a publication fails after its first post. Ids are UUIDs, any free
one is as good as another, and ticks are alike, which is the symmetry used; the liveness
run uses none. In the `PolicyStore` runs a transaction that begins counts against
`MaxTransactions`: four for one session are an organization's save, a club's cleanup and
two more edits, so every pair of operations follows each other and each kind of failure
falls between them; three for two sessions are two that overlap and one before, between or
after. `policy_two_editors` has two: they overlap at every read of the console and at both
reads and writes of the API, and a restore goes back over the first. One club and the
organization suffice for what an edit may carry along, since a club reads its own row and the
organization's only. The patches set, clear and inherit a rule, a boolean and a limit with
three decimals; the simulated submissions meet each branch of the decisions.

`tenant_setup` has one process (a second start waits for the first one's table locks, so it
only repeats it), two deployments or crashes and two operations, so that an environment
changes to another and back and a reset meets a start or what a candidate left; its
environments set an address of nobody's, of another role's holder, and one address for
several roles. `review_chain` is the whole state space of one worker: every environment,
answer and several captions. `notification_delivery` has two jobs and two attempts, so
that two transactions are open at once or one repeats the other, two changes
of the device's address and one revocation: a revocation or a registration falls before,
between and after the reads of either. Its two webhooks come back twice for one mail, or for
two mails in either order, before or after the COMMIT of what they are about; one of its rules
switches both channels off, which an event of it contradicts. `mobile_client` has one item with
two requests, so that a request is decided again after its successor came, a second stage is
asked for, and the app shows one request while it decides another; two queue answers and one
detail answer on their way beside those of the action, which overlap and overtake each other;
one failure, and a wait of one read (`Attempts` counts the reads before the last). Two items
would make some ten million states; that answers about two items do not mix is left to
`OverStaysOver`, which is for any number of items, and a next item other than the one decided
comes only with two.
`CHECK_DEADLOCK FALSE`: at the bounds everything may be used up.

**Fairness.** `FairSpec` asks that each tick slot keeps running: `setInterval` calls `tick`
for as long as the process lives, and each query or provider call of a tick returns or
fails (the providers have timeouts or fall back), after which the tick commits or takes the
error path. No member is required to act, and interruptions are bounded: a worker that
always crashes makes no progress. `ReviewProvider` asks that the review is carried on and
that a call ends: `fetch` gives up on a silent server. `TenantSetup`'s `FairSpec` asks that
the container restarts a process that is down, that a start goes on once nothing blocks it
and that PostgreSQL finds the deadlock; strong fairness of `LockTables` and `FinishReset` is
the lock queue, in which a waiting transaction is served in its turn although others come
and go. `MobileClient`'s `FairSpec` asks that the Review tab's timer polls while the tab is on
(`setInterval`, 20 s) and that each answer of the queue arrives or fails: the app sets no
timeout, so the second is an assumption on the network and on `fetch`. Failures are bounded by
`MaxFailures`; an app whose every poll fails lists nothing. No reviewer is required to act.
The other specifications state no fairness and no liveness.

**Refinement.** `SubmissionWorkflow` implements `PublicationPromise`: `owed` are an item's
approved events that are pending, `paid` those a tick is done with, `shown` the posts and
`said` the items that read published. Claims, exceptions and crashes are stutters. The step
that could break it is a COMMIT for an event another tick has finished or marked meanwhile,
which would post what is no longer owed; the row lock rules it out.

`NotificationDelivery` implements `NotificationPromise`: `mailed` are the jobs a mail was
accepted for, `told` is the outcome stored with the committed notification. A rejected fetch,
an error after acceptance, a rollback and a repeat are stutters or further mails of the
promise; that a COMMIT is its `Tell` rests on there being no second notification of a job.

## Proofs

The theorems hold for every value of the constants that satisfies the assumptions
`MembershipAssumption` (`created_at` orders the members), `WorkflowAssumption` (policies and
reviews name reviewer roles, which the endpoint and `normalizeApproverRole` ensure),
`NoRowAssumption` (the value for an absent row is not a row), `StoreAssumption` (the
first rows satisfy the schema, the patches are of the types the endpoint lets through),
`RolloutAssumption`, `PoliciesAssumption` (a policy routes to reviewer roles),
`TextsAssumption`, `PushAssumption`, `DeliveryAssumption`, `ClientAssumption`,
`DefaultsAssumption` (the pilot's defaults name all addresses, the demo's all but the two the
code leaves out), `EnvironmentsAssumption` and `BoundsAssumption`. TLC evaluates them in the
runs.

| Module | Theorem | Property |
|---|---|---|
| `SubmissionWorkflowProofs` | `TypeCorrect` | `TypeOK` |
| | `ReceivedNeverLost` | `ReceivedHasWork` |
| | `ApprovedNeverLost` | `ApprovedHasWork` |
| | `ReviewNeverUnlisted` | `ReviewHasRequest` |
| | `SecondStageOrder` | `SecondStageFollowsFirst` |
| | `PublishedShows` | `PublishedIsLive` (in the runs it is part of the promise) |
| | `OnlyReleasedIsPosted` | `PostsAreReleased` |
| `SubmissionPostsProofs` | `RepeatsAreAsked` | `RepeatedPostsAreAsked` |
| | `ImplementsPromise` | `PublishesAsPromised` |
| `PolicyStoreProofs` | `TypeCorrect` | `TypeOK` |
| | `BeforeWasInForceAlways` | `BeforeWasInForce` |
| | `HistoryAlwaysExplains` | `HistoryExplains`, given `OneSession` |
| | `OnlyAskedFieldsEverChange` | `OnlyAskedFieldsChange`, given `OneSession`, `FormShowsRules` |
| `PolicyRolloutProofs` | `BeforeWasInForceInRollout` | `BeforeWasInForce` |
| | `SimulatorAlwaysAgrees` | `SimulatorAgrees` |
| | `LossAlwaysWarned` | `LossIsWarned` |
| | `SnapshotsAreTrue` | `SnapshotIsTrue` |
| `TenantSetupProofs` | `TypeCorrect` | `TypeOK` |
| | `EmailsStayUnique` | `EmailsAreUnique` |
| | `StartsNeverResetPolicies` | `StartsKeepPolicyEdits` |
| | `ResetEndsInBaseline` | `ResetRestoresBaseline` |
| | `SubmissionsAlwaysStayAttached` | `SubmissionsStayAttached` |
| | `SubmitterInboxAlwaysApplied` | `SubmitterInboxApplied`, given `SeparateTenants` |
| `ReviewProviderProofs` | `TypeCorrect` | `TypeOK` |
| | `AlwaysRoutesToReviewers` | `RoutesToReviewers` |
| | `HermesLowIsWritten` | `HermesLowIsExplicit` |
| | `AutoApprovedAlwaysCleared` | `AutoApprovedWasCleared` |
| | `OnlyTheModesProviders` | `OnlyProvidersOfTheMode` |
| `NotificationDeliveryProofs` | `TypeCorrect` | `TypeOK` |
| | `StoredOutcomeAlwaysTrue` | `StoredOutcomeIsTrue` |
| | `SwitchedOffStaysSilent` | `SwitchedOffIsSilent` |
| | `StatusAlwaysOfOwnMail` | `StatusIsOfOwnMail` |
| | `ImplementsPromise` | `KeepsThePromise` |
| | `RevokedStaysSilent` | `RevokedDeviceIsSilent` |
| | `ReadyStaysRegistered` | `PushReadyIsRegistered`, given `OneDevicePerPlatform` |
| `MobileClientProofs` | `TypeCorrect` | `TypeOK` |
| | `OverStaysOver` | `WhatIsOverStaysOver` |

**`SubmissionWorkflow`.** `TypeOK` is inductive by itself and carries the fact the rest needs,
that a busy tick holds an existing event. `ReceivedHasWork` and `ApprovedHasWork` are inductive
with it: by `WorkStays` an event that is not done stays so unless a handler commits it, and the
commit moves the status away; `StatusChanges` lists the steps that set a status.
`ReviewHasRequest` and `SecondStageFollowsFirst` rest on `RequestsStay`: a request keeps its
submission and stage, and only a decision, which sets the status too, ends it.
`PostsAreReleased` is not inductive: publishing looks at the event and not at how it came to
be. The strengthening `ApprovedEventsAreReleased` says that an approved event exists only for
an item that a reviewer or the rule released, which `Approve` and `FinishWithAutoApproval`
establish and nothing undoes, because `actions` and `autoApproved` only grow.
`RepeatedPostsAreAsked` counts rows: a publish adds at most one post and finishes the event it
works on, and a retry takes at most one finished event away and is counted itself
(`TriedChanges`). That a publish finishes a *new* event needs `HandledIsHeld`, which is what
`FOR UPDATE SKIP LOCKED` gives: an event in work is pending, and no other tick, retry or
failure mark touches it. `TriedIsFinite` makes the count defined: the table starts empty and a
step writes finitely many rows. `ImplementsPromise` has a lemma for each kind of step. They
rest on `InsertOwes` and `StateOwes`, which turn what a step does to the table of events into
what it does to `owed` and `paid`; a publication needs `HandledIsHeld` again: the event it
commits is still owed.

**`PolicyStore`.** Its `TypeOK` is inductive together with `Shape`, which says that the history
and the requests are sequences. Its weight is in the conversions: `LoadedIsPolicy`,
`AppliedIsPolicy`, `FormIsPolicy` and `StoredIsRow` show that what is read from a legal row,
patched or sent through the form, and stored again is a legal row. `BeforeWasInForce` is not
inductive, since the entry is written from what a transaction read earlier: `RowsWereLeft` says
that every row is the bootstrap's or what some entry left, and `TransactionsReadWhatWasLeft`
the same of what the open transactions hold; both survive a `Save` of another session because
history only grows.

`HistoryExplains` needs, besides, `SessionInv`: what the
session's transaction has read is still in force, because nobody else writes, and it began
after every entry, so that the entry it writes is the newest. `OnlyAskedFieldsChange` adds
`AskedInv`: an open page shows what is stored, only the first of a session's requests sends
fields it was not asked to (the others name one field), and those as they are stored
(`FormSendsTheRest`), because every stored rule survives the form (`FormKeeps`). A save then
stores the row it found but for what was asked (`SaveAsks`).

**`PolicyRollout`.** Its steps are `PolicyStore`'s, except a restore, whose patch comes from
the history and is legal because `TypeOK` says so of the entries; so the inductive invariant of
`BeforeWasInForce` carries over. `SimulatorAgrees` rests on `PoliciesAgree`: the three readings
of the rows give one policy, whatever the rows hold, and `RulesAreSet`: a rule in force is
never absent. `LossIsWarned` needs no invariant: the simulator and the guardrails read one rule
with one default (`NotificationRulePicked`), whatever is stored. `SnapshotIsTrue` rests on
`SnapshotInv`: as long as the history has not grown since a console began to read, what it read
and what its transaction has loaded are the stored policies, and a restore asks for nothing but
what its burden counted. `CommitContext` says what the audit row then holds of the rows the
save found; the areas of its snapshot are compared with the policies in force field by field,
the burden by counting (`listChangedPolicyAreas` is finite).

**`TenantSetup`.** `Inv` is `TypeOK` with the addresses unique. The lemmas follow the
statements: a user is renamed only to an address that nobody has (`NamedIsSound`), hence each
statement, each pass of a start, and the five upserts of a reset keep `Sound`.
`ResetEndsInBaseline` needs it too: that there is one organization admin is that one user has
the address. `EnsureRoleEffect` says what one call leaves of users and members, by who held
the role and who had the address. `SubmissionsStayAttached` follows a start call by call: until
the submitter's turn nobody is given the new address and the submitter keeps the role
(`EnsureRoleKeepsHolder`), then the submitter is renamed, and no later call, for either tenant,
names that address for another user. `SubmitterInboxApplied` needs `Apart`, that a tenant's
members have addresses of the tenant: the pilot pass then renames no member of the demo tenant.

**`ReviewProvider`.** `ResultInv` ties the result to what was answered: which flag each kind of
result carries, that moderation's flag is lost only to a structured review that raised after
it (`FlagIsLost`), and that a low Hermes score comes with the word. `AutoApprovedWasCleared`
then needs only that no policy approves a flagged result. `ChainInv` says who
has been called at each point, which the modes' property does not say of the points between.

**`NotificationDelivery`.** `IInv` has four parts beside the types: `StoredOutcomes` (a step
has what the steps before it store), `Numbered` (attempts are numbered, one notification per
job and none while the job is open), `Truthful` (what an open transaction will store agrees
with what it has sent, where `Tells` leaves "failed" open) and `WebhooksMatch`. The refinement
uses `Numbered` for `Told` to be well defined. `RevokedStaysSilent` needs `Standing`: the
tokens read, and the pushes sent, had a standing registration, which a longer log cannot
change, since it is append-only. `ReadyStaysRegistered` needs `Registered`, which follows the
effect's calls: a device that shows ready has a row of its installation in the log, unless a
call of its address is still open, and with one device per platform no other device writes rows
of that installation.

**`MobileClient`.** `WhatIsOverStaysOver` is inductive with `TypeOK`. `ServerKept` says what
holds of every step of the server, decisions on decided requests included: a request keeps its
item, what is decided stays so (`RowStep`), posts stay; so a detail that was true remains true
however old it is (`StaysTrue`). `StepDetails` says where each detail of the next state comes
from: from another place in the app, or from a read that the server has just answered, which
is true (`ReadIsTrue`).

Model-checked only: the five liveness properties `ReceivedIsHandled`, `ApprovedIsHandled`,
`StartsListen`, `ReviewEnds` and `PendingIsListed`, which rest on fairness and are out of the
prover's reach. Every other property of a passing run is a theorem.

## Plan

1. *Done*: policy decisions, members, the submission workflow, its runs and the theorems of
   its eight state invariants, and the promise of publication it implements.
2. *Done*: `PolicyStore`, its runs and theorems, the history as a chain for one session.
3. *Done*: `NotificationDelivery` with `PushTokens`, the promise it implements, its theorems.
4. *Done*: `ReviewProvider`, with what `SubmissionWorkflow` assumes of `Reviews` as a theorem.
5. *Done*: `PolicyRollout`, the console's simulator, warnings and snapshots.
6. *Done*: `MobileClient`, the reviewer's screens, and `TenantSetup`, starts and resets.
7. Left: the submitter's form with its uploads and the second submission a lost answer leads
   to (`App.js:1350`).

## Not modelled

- Read models and storage: no state of their own, or pure I/O.
- Of the mobile app, the submitter's form, media upload and the demo feed, which create and
  show items of `SubmissionWorkflow`.
- Of the console, the pages that only show, the demo page, and the review pages, whose posts
  are `SubmissionWorkflow`'s actions.
- Of bootstrap and scripts, DDL, HTTP plumbing, the readiness page's texts, smoke tests,
  backups and deployment.
- Five hazards have no property, each with its reason in `PROJECT.json`: approvers chosen by
  two queries (`pipeline.js:66`), one person approving both stages (`index.js:1219`), a cleanup
  half done (`server.js:10536`), a submission sent twice (`App.js:1350`), a decision on a sheet
  that is out of date (`App.js:1126`).

Formatting, localisation, HTML and wording are left out everywhere. Security of the endpoints
is not a subject of this project: an actor is the user the request names.
