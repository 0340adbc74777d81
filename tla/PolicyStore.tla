---------------------------- MODULE PolicyStore ----------------------------
(***************************************************************************)
(* The stored workflow policies of an organization and its clubs, edited   *)
(* through the API's update endpoints and the admin console.               *)
(*                                                                         *)
(* An update is a transaction that reads the row without a lock, applies   *)
(* the patch in memory and writes every column back, with a history entry  *)
(* in audit_logs. The upsert's row lock is held from the write to the      *)
(* COMMIT, so BEGIN, the read (Load) and the write (Save) are actions of   *)
(* their own. The console's editor posts every field as its page showed    *)
(* it, and some of its buttons send several updates, one after the other.  *)
(***************************************************************************)
EXTENDS WorkflowPolicy

CONSTANTS
    Clubs,              \* the organization's clubs
    Users,
    Managers,           \* [Scopes -> SUBSET Users]: who may edit a scope
    Clients,            \* console sessions and direct callers of the API
    FirstRows,          \* [Scopes -> rows] the bootstrap left
    Patches,            \* [Scopes -> sets of valid patches]
    CleanupLists,       \* sequences of distinct clubs a cleanup may pick
    Areas,              \* the fields picked for a cleanup
    Nothing,            \* no page open, no transaction begun
    MaxTransactions     \* bound: transactions begun

Organization == "organization"
Scopes == {Organization} \cup Clubs

RoleFields == {"defaultApproverRole", "publicApproverRole", "mediumRiskApproverRole"}
BooleanFields == {"allowAgentRouting", "autoApproveInternalLowRisk"}

\* The event types whose channels the console's form has selectors for.
FormEvents == {"submission_review_started", "submission_published"}

VARIABLES
    rows,           \* organization_workflow_policies and club_workflow_policies
    history,        \* audit_logs rows workflow_policy.updated, in commit order
    page,           \* what a client's open editor shows
    requests,       \* updates a client has still to send
    transaction,    \* the update a client's request is in
    clock           \* transactions begun so far; BEGIN is what NOW() reads

vars == <<rows, history, page, requests, transaction, clock>>

\* The columns' types; a rule may be any object.
FieldValueOK(field, value) ==
    \/ value = Null
    \/ field \in RoleFields /\ value \in ReviewerRoles
    \/ field \in BooleanFields /\ value \in BOOLEAN
    \/ field = "autoApproveMaxRisk" /\ value \in 0..1000
    \/ field \in RuleFields

IsPolicy(policy) ==
    /\ DOMAIN policy = PolicyFields
    /\ \A field \in PolicyFields : FieldValueOK(field, policy[field])

\* What a row may hold beyond that: no NULL rule, no NULL boolean of the
\* organization, two decimals.
IsRow(scope, row) ==
    /\ IsPolicy(row)
    /\ \A field \in RuleFields : row[field] # Null
    /\ scope = Organization => \A field \in BooleanFields : row[field] # Null
    /\ row["autoApproveMaxRisk"] # Null => row["autoApproveMaxRisk"] % 10 = 0

ASSUME StoreAssumption ==
    /\ Organization \notin Clubs
    /\ Null # EmptyObject /\ Null \notin 0..1000
    /\ DOMAIN FirstRows = Scopes
    /\ \A scope \in Scopes : IsRow(scope, FirstRows[scope])
    /\ \A scope \in Scopes : \A patch \in Patches[scope] :
          /\ DOMAIN patch \subseteq PolicyFields
          /\ \A field \in DOMAIN patch : FieldValueOK(field, patch[field])
    /\ Areas \subseteq PolicyFields
    /\ \A clubs \in CleanupLists : clubs \in Seq(Clubs) /\ clubs # <<>>
    /\ MaxTransactions \in Nat

-----------------------------------------------------------------------------
(* From a policy to its row and back.                                       *)

\* NUMERIC(5,2) keeps two of the three decimals a score has here.
Rounded(risk) == ((risk + 5) \div 10) * 10

\* Mutant: JSON.stringify(null) reaches the row.
StoredPolicyNullRules(policy) ==
    [field \in PolicyFields |->
        IF field = "autoApproveMaxRisk" /\ policy[field] # Null
        THEN Rounded(policy[field])
        ELSE policy[field]]

\* What the upsert stores: NULL rules become {}, scores are rounded.
StoredPolicy(policy) ==
    [field \in PolicyFields |->
        IF policy[field] = Null
        THEN IF field \in RuleFields THEN EmptyObject ELSE Null
        ELSE IF field = "autoApproveMaxRisk" THEN Rounded(policy[field]) ELSE policy[field]]

\* Mutant: Boolean(null).
LoadedPolicyBoolean(scope, row) ==
    [field \in PolicyFields |->
        IF field \in BooleanFields /\ row[field] = Null THEN FALSE
        ELSE IF scope # Organization /\ field \in RuleFields
        THEN parseOverrideJson(row[field])
        ELSE row[field]]

\* What a reader of the API sees: a club's {} reads as no override.
LoadedPolicy(scope, row) ==
    [field \in PolicyFields |->
        IF scope # Organization /\ field \in RuleFields
        THEN parseOverrideJson(row[field])
        ELSE row[field]]

\* The organization's booleans are NOT NULL and its patches may not clear them.
ValidPatch(scope, patch) ==
    \A field \in DOMAIN patch :
        scope = Organization /\ field \in BooleanFields => patch[field] # Null

applyPatch(policy, patch) ==
    [field \in PolicyFields |-> IF field \in DOMAIN patch THEN patch[field] ELSE policy[field]]

\* The policy the worker applies to a club's submissions.
InForce(club) == EffectiveWorkflowPolicy(rows[Organization], rows[club])

Init ==
    /\ rows = FirstRows
    /\ history = <<>>
    /\ page = [c \in Clients |-> Nothing]
    /\ requests = [c \in Clients |-> <<>>]
    /\ transaction = [c \in Clients |-> Nothing]
    /\ clock = 0

-----------------------------------------------------------------------------
(* The console.                                                             *)

\* An update request: what it sends, and for the properties what the user asked
\* for; the cleanup a console save announces in the history.
Request(scope, user, patch, asked, cleaned) ==
    [scope |-> scope, user |-> user, patch |-> patch, asked |-> asked, cleaned |-> cleaned]

NoCleanup == [field |-> Null, clubs |-> {}]

Send(c, sequence) ==
    /\ requests[c] = <<>>
    /\ requests' = [requests EXCEPT ![c] = sequence]
    /\ page' = [page EXCEPT ![c] = Nothing]
    /\ UNCHANGED <<rows, history, transaction, clock>>

\* POST /workflow-policies/..., by a direct caller or a console "restore" button
PostPatch(c, user, scope) ==
    \E patch \in Patches[scope] :
        /\ ValidPatch(scope, patch)
        /\ Send(c, <<Request(scope, user, patch, DOMAIN patch, NoCleanup)>>)

\* GET /workflow-settings with the editor open
OpenPage(c, scope) ==
    /\ requests[c] = <<>>
    /\ page' = [page EXCEPT ![c] = [scope |-> scope,
                                    policy |-> LoadedPolicy(scope, rows[scope])]]
    /\ UNCHANGED <<rows, history, requests, transaction, clock>>

\* The form rebuilds each rule from its inputs: channels of events it has no
\* selector for are not sent, and a rule left blank is sent as null or {}.
FormRule(rule) ==
    LET shown == [event \in DOMAIN Field(rule, "eventChannels", EmptyObject) \cap FormEvents |->
                     rule["eventChannels"][event]]
        keys == IF shown = EmptyObject THEN DOMAIN rule \ {"eventChannels"} ELSE DOMAIN rule
    IN  [key \in keys |-> IF key = "eventChannels" THEN shown ELSE rule[key]]

FormValue(scope, field, value) ==
    IF field \notin RuleFields THEN value
    ELSE LET rule == IF value = Null THEN EmptyObject ELSE FormRule(value)
         IN  IF scope # Organization /\ rule = EmptyObject THEN Null ELSE rule

\* Every field the form holds: as the page showed it, with the user's edits on top.
FormPatch(scope, shown, edits) ==
    [field \in PolicyFields |-> FormValue(scope, field, applyPatch(shown, edits)[field])]

\* Saving the form of an open page
SubmitForm(c, user) ==
    /\ page[c] # Nothing
    /\ LET scope == page[c].scope IN
       \E edits \in Patches[scope] :
          LET patch == FormPatch(scope, page[c].policy, edits)
          IN  /\ ValidPatch(scope, patch)
              /\ Send(c, <<Request(scope, user, patch, DOMAIN edits, NoCleanup)>>)

\* One field of some clubs set back to the organization's default, club by club.
Inherit(user, field, clubs) ==
    [i \in DOMAIN clubs |->
        Request(clubs[i], user, [key \in {field} |-> Null], {field}, NoCleanup)]

\* save-with-cleanup: the organization's form, whose history entry names the clubs
\* about to be cleaned, then the clubs.
SaveWithCleanup(c, user) ==
    /\ page[c] # Nothing
    /\ page[c].scope = Organization
    /\ \E edits \in Patches[Organization], clubs \in CleanupLists :
          LET patch == FormPatch(Organization, page[c].policy, edits)
          IN  /\ ValidPatch(Organization, patch)
              /\ \E field \in Areas :
                    Send(c, <<Request(Organization, user, patch, DOMAIN edits,
                                      [field |-> field,
                                       clubs |-> {clubs[i] : i \in DOMAIN clubs}])>>
                            \o Inherit(user, field, clubs))

\* bulk-inherit-area: of the picked clubs, those that override the field with a
\* value of their own
InheritArea(c, user) ==
    \E field \in Areas, clubs \in CleanupLists :
        /\ \A i \in DOMAIN clubs :
              LoadedPolicy(clubs[i], rows[clubs[i]])[field]
                  \notin {Null, rows[Organization][field]}
        /\ Send(c, Inherit(user, field, clubs))

-----------------------------------------------------------------------------
(* The API.                                                                 *)

\* BEGIN, whose time is the created_at of the audit row
Begin(c) ==
    /\ requests[c] # <<>>
    /\ transaction[c] = Nothing
    /\ clock < MaxTransactions
    /\ clock' = clock + 1
    /\ transaction' = [transaction EXCEPT ![c] = [begun |-> clock', previous |-> Nothing]]
    /\ UNCHANGED <<rows, history, page, requests>>

\* The row read without a lock, the actor's membership
Load(c) ==
    LET request == Head(requests[c])
    IN  /\ transaction[c] # Nothing
        /\ transaction[c].previous = Nothing
        /\ request.user \in Managers[request.scope]
        /\ transaction' = [transaction EXCEPT ![c] =
                [begun |-> transaction[c].begun,
                 previous |-> LoadedPolicy(request.scope, rows[request.scope])]]
        /\ UNCHANGED <<rows, history, page, requests, clock>>

\* Mutants: the history swaps before and after; a column is missing in DO UPDATE SET.
SaveSwapped(c) ==
    LET request == Head(requests[c])
        next == applyPatch(transaction[c].previous, request.patch)
    IN  /\ transaction[c] # Nothing
        /\ transaction[c].previous # Nothing
        /\ rows' = [rows EXCEPT ![request.scope] = StoredPolicy(next)]
        /\ history' = Append(history,
                [scope |-> request.scope, previous |-> next, next |-> transaction[c].previous,
                 begun |-> transaction[c].begun, cleaned |-> request.cleaned])
        /\ transaction' = [transaction EXCEPT ![c] = Nothing]
        /\ requests' = [requests EXCEPT ![c] = Tail(@)]
        /\ UNCHANGED <<page, clock>>
SaveWithoutRouting(c) ==
    LET request == Head(requests[c])
        next == applyPatch(transaction[c].previous, request.patch)
    IN  /\ transaction[c] # Nothing
        /\ transaction[c].previous # Nothing
        /\ rows' = [rows EXCEPT ![request.scope] =
                       [StoredPolicy(next) EXCEPT !["routingRule"] =
                            rows[request.scope]["routingRule"]]]
        /\ history' = Append(history,
                [scope |-> request.scope, previous |-> transaction[c].previous, next |-> next,
                 begun |-> transaction[c].begun, cleaned |-> request.cleaned])
        /\ transaction' = [transaction EXCEPT ![c] = Nothing]
        /\ requests' = [requests EXCEPT ![c] = Tail(@)]
        /\ UNCHANGED <<page, clock>>

\* The upsert of every column, the audit row and COMMIT; then the next request
Save(c) ==
    LET request == Head(requests[c])
        next == applyPatch(transaction[c].previous, request.patch)
    IN  /\ transaction[c] # Nothing
        /\ transaction[c].previous # Nothing
        /\ rows' = [rows EXCEPT ![request.scope] = StoredPolicy(next)]
        /\ history' = Append(history,
                [scope |-> request.scope, previous |-> transaction[c].previous, next |-> next,
                 begun |-> transaction[c].begun, cleaned |-> request.cleaned])
        /\ transaction' = [transaction EXCEPT ![c] = Nothing]
        /\ requests' = [requests EXCEPT ![c] = Tail(@)]
        /\ UNCHANGED <<page, clock>>

\* 403, a lost connection or a crash: ROLLBACK, and the console sends no more.
Fail(c) ==
    /\ requests[c] # <<>>
    /\ requests' = [requests EXCEPT ![c] = <<>>]
    /\ transaction' = [transaction EXCEPT ![c] = Nothing]
    /\ UNCHANGED <<rows, history, page, clock>>

Next ==
    \E c \in Clients :
        \/ \E user \in Users :
              \/ \E scope \in Scopes : PostPatch(c, user, scope)
              \/ SubmitForm(c, user)
              \/ SaveWithCleanup(c, user)
              \/ InheritArea(c, user)
        \/ \E scope \in Scopes : OpenPage(c, scope)
        \/ Begin(c)
        \/ Load(c)
        \/ Save(c)
        \/ Fail(c)

Spec == Init /\ [][Next]_vars

-----------------------------------------------------------------------------
(* Properties.                                                              *)

IsRequest(request) ==
    /\ request.scope \in Scopes
    /\ request.user \in Users
    /\ DOMAIN request.patch \subseteq PolicyFields
    /\ \A field \in DOMAIN request.patch : FieldValueOK(field, request.patch[field])
    /\ ValidPatch(request.scope, request.patch)
    /\ request.asked \subseteq DOMAIN request.patch
    /\ request.cleaned.clubs \subseteq Clubs

\* Every row satisfies the schema's constraints whatever is patched, so that no
\* upsert of a valid patch is refused by the database; entries are numbered by
\* the BEGIN of their transactions.
TypeOK ==
    /\ DOMAIN rows = Scopes
    /\ \A scope \in Scopes : IsRow(scope, rows[scope])
    /\ \A i \in DOMAIN history :
          /\ history[i].scope \in Scopes
          /\ IsPolicy(history[i].previous) /\ IsPolicy(history[i].next)
          /\ history[i].begun \in 1..clock
    /\ \A c \in Clients :
          /\ \A i \in DOMAIN requests[c] : IsRequest(requests[c][i])
          /\ page[c] # Nothing => page[c].scope \in Scopes /\ IsPolicy(page[c].policy)
          /\ transaction[c] # Nothing =>
                /\ requests[c] # <<>>
                /\ transaction[c].begun \in 1..clock
                /\ transaction[c].previous # Nothing =>
                      /\ IsPolicy(transaction[c].previous)
                      /\ Head(requests[c]).scope = Organization =>
                            \A field \in BooleanFields : transaction[c].previous[field] # Null
    /\ clock \in 0..MaxTransactions

\* Every rule that the bootstrap stored or that is posted is one the form has inputs for.
FormShowsRules ==
    \A scope \in Scopes, field \in RuleFields :
        /\ FormRule(FirstRows[scope][field]) = FirstRows[scope][field]
        /\ \A patch \in Patches[scope] :
              field \in DOMAIN patch /\ patch[field] # Null =>
                  FormRule(patch[field]) = patch[field]

\* A save changes what is in force for a club in the fields it was asked to change,
\* and an organization's save only where the club does not override: no edit
\* carries other changes along.
OnlyAskedFieldsChange ==
    [][\A club \in Clubs, field \in PolicyFields :
          InForce(club)'[field] # InForce(club)[field] =>
              \E c \in Clients :
                  LET request == Head(requests[c])
                  IN  /\ transaction[c] # Nothing /\ transaction'[c] = Nothing
                      /\ field \in request.asked
                      /\ \/ request.scope = club
                         \/ /\ request.scope = Organization
                            /\ LoadedPolicy(club, rows[club])[field] = Null]_vars

EntriesOf(scope) == {i \in DOMAIN history : history[i].scope = scope}
Left(i) == StoredPolicy(history[i].next)

\* The history page, newest first, can be read downwards as a chain: the newest
\* entry's "after" is in force, and each "before" is what the entry below it left.
\* This is what makes rolling back the latest change mean anything.
HistoryExplains ==
    \A scope \in Scopes : \A i \in EntriesOf(scope) :
        LET newer == {j \in EntriesOf(scope) : history[j].begun > history[i].begun}
        IN  /\ newer = {} => rows[scope] = Left(i)
            /\ \A j \in newer :
                  (\A k \in newer : history[j].begun <= history[k].begun) =>
                      history[j].previous = LoadedPolicy(scope, Left(i))

\* A "before" in the history was in force once: it is the bootstrap's policy or what
\* one earlier save left, never a mixture of two editors' saves.
BeforeWasInForce ==
    \A i \in DOMAIN history :
        LET scope == history[i].scope
        IN  \/ history[i].previous = LoadedPolicy(scope, FirstRows[scope])
            \/ \E j \in 1..(i - 1) : /\ history[j].scope = scope
                                     /\ history[i].previous = LoadedPolicy(scope, Left(j))

=============================================================================
