---------------------------- MODULE TenantSetup ----------------------------
(* How the two tenants the platform brings along come into being and change:
   the API seeds both each time a process starts, with the addresses its
   environment names (bootstrap.js); an operator resets the pilot tenant to its
   baseline (simulator-org-state.js) or applies and rolls back a candidate's SQL
   (pilot_candidate_creation_plan.sh); the console edits policies.

   A user is an id with an address that may change; a membership names the id.
   The transactions of a start and of a reset take locks in opposite orders. *)
EXTENDS Naturals, FiniteSets

CONSTANTS
    UserIds,        \* users.id, enough of them for one per address
    Emails,         \* users.email
    NoEmail,        \* an empty environment variable; also: the id is not in use
    Servers,        \* API processes
    Defaults,       \* defaultDemoSeed and defaultSimulatedPilotSeed, addresses only
    Environments,   \* what deployments set: per tenant, a partial function of slots
    Candidates,     \* seeds of the SQL an operator applies to the pilot tenant
    MaxDeploys,     \* bound: deployments and crashes
    MaxOperations   \* bound: resets, candidate applications and rollbacks

Tenants == {"demo", "pilot"}
Roles == {"club_comms", "club_admin", "team_manager", "submitter_coach"}
Slots == Roles \cup {"organization_admin"}
Scopes == {"organization", "club"}

ASSUME DefaultsAssumption ==
    /\ NoEmail \notin Emails
    /\ Defaults \in [Tenants -> [Slots -> Emails \cup {NoEmail}]]
    /\ \A slot \in Slots : Defaults["pilot"][slot] # NoEmail
    /\ \A slot \in Slots \ {"club_admin", "team_manager"} : Defaults["demo"][slot] # NoEmail
    /\ Candidates \subseteq [Slots -> Emails]
ASSUME EnvironmentsAssumption ==
    \A env \in Environments : \A tenant \in Tenants :
        /\ DOMAIN env[tenant] \subseteq Slots
        /\ \A slot \in DOMAIN env[tenant] : env[tenant][slot] \in Emails
ASSUME BoundsAssumption == MaxDeploys \in Nat /\ MaxOperations \in Nat

VARIABLES
    accounts,       \* users, memberships of the seeded team, organization_memberships
    policies,       \* workflow policy rows, per tenant and scope
    destinations,   \* internal_feed rows of the club, per tenant
    servers,        \* per process: where its start is, and its environment
    reset,          \* the reset's transaction
    deploys, operations

vars == <<accounts, policies, destinations, servers, reset, deploys, operations>>

PolicyRows == {"absent", "baseline", "edited"}

TypeOK ==
    /\ accounts \in [emailOf : [UserIds -> Emails \cup {NoEmail}],
                     members : [Tenants -> SUBSET (UserIds \X Roles)],
                     orgAdmins : [Tenants -> SUBSET UserIds]]
    /\ policies \in [Tenants -> [Scopes -> PolicyRows]]
    /\ destinations \in [Tenants -> Nat]
    /\ servers \in [Servers -> [pc : {"down", "seeding", "listening"}, env : Environments]]
    /\ reset \in {"idle", "holdsOrganization"}
    /\ deploys \in 0 .. MaxDeploys
    /\ operations \in 0 .. MaxOperations

-----------------------------------------------------------------------------
(* What the statements do to users and memberships. Each returns the set of
   possible results: ids are any, and of several holders of a role the oldest
   is taken to be any of them. *)

UserWith(a, email) == {u \in UserIds : a.emailOf[u] = email}
HoldersOf(a, tenant, role) == {u \in UserIds : <<u, role>> \in a.members[tenant]}

NewUser(a) ==
    LET free == UserWith(a, NoEmail)
    IN  IF free = {} THEN {} ELSE {CHOOSE u \in free : TRUE}

Named(a, u, email) == [a EXCEPT !.emailOf[u] = email]

\* Mutant: without the DELETE.
OneMoreHolder(a, tenant, role, u) == [a EXCEPT !.members[tenant] = @ \cup {<<u, role>>}]

\* The DELETE and the INSERT at the end: the user is the role's only holder.
OnlyHolder(a, tenant, role, u) ==
    [a EXCEPT !.members[tenant] = {m \in @ : m[2] # role} \cup {<<u, role>>}]

\* Mutant: an unused address is always a new user's.
ensureRoleMembershipAnew(a, tenant, role, email) ==
    IF UserWith(a, email) # {}
    THEN {OnlyHolder(a, tenant, role, u) : u \in UserWith(a, email)}
    ELSE {OnlyHolder(Named(a, u, email), tenant, role, u) : u \in NewUser(a)}

\* An address in use gets the role; otherwise the role's holder is renamed, and
\* only if there is none is a user created.
ensureRoleMembership(a, tenant, role, email) ==
    IF UserWith(a, email) # {}
    THEN {OnlyHolder(a, tenant, role, u) : u \in UserWith(a, email)}
    ELSE {OnlyHolder(Named(a, u, email), tenant, role, u) :
             u \in IF HoldersOf(a, tenant, role) # {}
                   THEN HoldersOf(a, tenant, role) ELSE NewUser(a)}

\* Mutant: INSERT without ON CONFLICT.
upsertUserAnew(a, email) == {Named(a, u, email) : u \in NewUser(a)}

upsertUser(a, email) ==
    IF UserWith(a, email) # {} THEN {a} ELSE {Named(a, u, email) : u \in NewUser(a)}

\* Former organization admins stay.
ensureOrganizationMembership(a, tenant, email) ==
    {[b EXCEPT !.orgAdmins[tenant] = @ \cup UserWith(b, email)] : b \in upsertUser(a, email)}

\* One pass of ensureSeedData's loop.
SeedTenant(a, tenant, seed) ==
    LET Ensure(states, role) ==
            UNION {ensureRoleMembership(b, tenant, role, seed[role]) : b \in states}
        withComms == Ensure({a}, "club_comms")
        withAdmin == Ensure(withComms, "club_admin")
        withManager == IF seed["team_manager"] = NoEmail THEN withAdmin
                       ELSE Ensure(withAdmin, "team_manager")
        withSubmitter == Ensure(withManager, "submitter_coach")
    IN  UNION {ensureOrganizationMembership(b, tenant, seed["organization_admin"]) :
                   b \in withSubmitter}

UpsertAll(a, seed) ==
    LET Upsert(states, slot) == UNION {upsertUser(b, seed[slot]) : b \in states}
    IN  Upsert(Upsert(Upsert(Upsert(Upsert({a}, "submitter_coach"), "club_comms"),
            "club_admin"), "team_manager"), "organization_admin")

RolesOf(a, seed) == {m \in UserIds \X Roles : a.emailOf[m[1]] = seed[m[2]]}

\* Mutant: the organization's former admins stay.
RepairedAdminsStay(a, seed) ==
    {[b EXCEPT !.members["pilot"] = RolesOf(b, seed),
               !.orgAdmins["pilot"] = @ \cup UserWith(b, seed["organization_admin"])] :
        b \in UpsertAll(a, seed)}

\* repairSimulatorOrganizationState: delete the memberships, upsert the users, insert.
Repaired(a, seed) ==
    {[b EXCEPT !.members["pilot"] = RolesOf(b, seed),
               !.orgAdmins["pilot"] = UserWith(b, seed["organization_admin"])] :
        b \in UpsertAll(a, seed)}

\* The candidate's SQL only adds; its rollback takes the named addresses out.
Added(a, seed) ==
    {[b EXCEPT !.members["pilot"] = @ \cup RolesOf(b, seed),
               !.orgAdmins["pilot"] = @ \cup UserWith(b, seed["organization_admin"])] :
        b \in UpsertAll(a, seed)}
Removed(a, seed) ==
    [a EXCEPT !.members["pilot"] =
                  {m \in @ : \A role \in Roles : a.emailOf[m[1]] # seed[role]},
              !.orgAdmins["pilot"] = @ \ UserWith(a, seed["organization_admin"])]

\* Environment over defaults; the club admin defaults to the reviewer.
buildSeed(env, tenant) ==
    [slot \in Slots |->
        IF slot \in DOMAIN env[tenant] THEN env[tenant][slot]
        ELSE IF slot = "club_admin" /\ Defaults[tenant][slot] = NoEmail
             THEN Defaults[tenant]["club_comms"]
             ELSE Defaults[tenant][slot]]

-----------------------------------------------------------------------------
Init ==
    /\ accounts = [emailOf |-> [u \in UserIds |-> NoEmail],
                   members |-> [tenant \in Tenants |-> {}],
                   orgAdmins |-> [tenant \in Tenants |-> {}]]
    /\ policies = [tenant \in Tenants |-> [scope \in Scopes |-> "absent"]]
    /\ destinations = [tenant \in Tenants |-> 0]
    /\ servers \in [Servers -> [pc : {"down"}, env : Environments]]
    /\ reset = "idle"
    /\ deploys = 0
    /\ operations = 0

SeedingServers == {s \in Servers : servers[s].pc = "seeding"}

\* A new version or environment is deployed, or the process crashes and the
\* container restarts it: what it was doing is rolled back.
Deploy(s, env) ==
    /\ deploys < MaxDeploys
    /\ deploys' = deploys + 1
    /\ servers' = [servers EXCEPT ![s] = [pc |-> "down", env |-> env]]
    /\ UNCHANGED <<accounts, policies, destinations, reset, operations>>

\* BEGIN and ensureWorkflowPolicyTables: ALTER TABLE takes the clubs table and
\* others in ACCESS EXCLUSIVE mode to the end of the transaction, even when the
\* column exists.
LockTables(s) ==
    /\ servers[s].pc = "down"
    /\ SeedingServers = {}
    /\ servers' = [servers EXCEPT ![s].pc = "seeding"]
    /\ UNCHANGED <<accounts, policies, destinations, reset, deploys, operations>>

\* Mutant: ON CONFLICT DO UPDATE on the policy tables.
SeedAndListenOverPolicies(s) ==
    /\ servers[s].pc = "seeding"
    /\ reset = "idle"
    /\ \E a \in SeedTenant(accounts, "demo", buildSeed(servers[s].env, "demo")) :
           accounts' \in SeedTenant(a, "pilot", buildSeed(servers[s].env, "pilot"))
    /\ destinations' = [tenant \in Tenants |->
                           IF destinations[tenant] = 0 THEN 1 ELSE destinations[tenant]]
    /\ policies' = [tenant \in Tenants |-> [scope \in Scopes |-> "baseline"]]
    /\ servers' = [servers EXCEPT ![s].pc = "listening"]
    /\ UNCHANGED <<reset, deploys, operations>>

\* Both passes of the loop and COMMIT; the second pass's first statement needs
\* the pilot organization's row. Existing rows of the policy tables stay.
SeedAndListen(s) ==
    /\ servers[s].pc = "seeding"
    /\ reset = "idle"
    /\ \E a \in SeedTenant(accounts, "demo", buildSeed(servers[s].env, "demo")) :
           accounts' \in SeedTenant(a, "pilot", buildSeed(servers[s].env, "pilot"))
    /\ destinations' = [tenant \in Tenants |->
                           IF destinations[tenant] = 0 THEN 1 ELSE destinations[tenant]]
    /\ policies' = [tenant \in Tenants |-> [scope \in Scopes |->
                       IF policies[tenant][scope] = "absent"
                       THEN "baseline" ELSE policies[tenant][scope]]]
    /\ servers' = [servers EXCEPT ![s].pc = "listening"]
    /\ UNCHANGED <<reset, deploys, operations>>

\* The reset's first statement: its lock on the organization's row.
BeginReset ==
    /\ reset = "idle"
    /\ operations < MaxOperations
    /\ operations' = operations + 1
    /\ reset' = "holdsOrganization"
    /\ UNCHANGED <<accounts, policies, destinations, servers, deploys>>

\* The rest of it, from the clubs table on, and COMMIT.
FinishReset ==
    /\ reset = "holdsOrganization"
    /\ SeedingServers = {}
    /\ accounts' \in Repaired(accounts, Defaults["pilot"])
    /\ policies' = [policies EXCEPT !["pilot"] = [scope \in Scopes |-> "baseline"]]
    /\ destinations' = [destinations EXCEPT !["pilot"] = 1]
    /\ reset' = "idle"
    /\ UNCHANGED <<servers, deploys, operations>>

\* Mutant: the process whose start fails does not exit.
AbortDeadlockedStays(s) ==
    /\ servers[s].pc = "seeding"
    /\ reset = "holdsOrganization"
    /\ \/ /\ servers' = [servers EXCEPT ![s].pc = "failed"]
          /\ UNCHANGED reset
       \/ /\ reset' = "idle"
          /\ UNCHANGED servers
    /\ UNCHANGED <<accounts, policies, destinations, deploys, operations>>

\* A start holds the tables and waits for the row, the reset holds the row and
\* waits for the tables: PostgreSQL aborts one of the two. The process whose
\* start fails exits and is restarted; the script ends with an error.
AbortDeadlocked(s) ==
    /\ servers[s].pc = "seeding"
    /\ reset = "holdsOrganization"
    /\ \/ /\ servers' = [servers EXCEPT ![s].pc = "down"]
          /\ UNCHANGED reset
       \/ /\ reset' = "idle"
          /\ UNCHANGED servers
    /\ UNCHANGED <<accounts, policies, destinations, deploys, operations>>

\* PATCH /workflow-policies/...; waits for a start's table locks.
EditPolicy(tenant, scope) ==
    /\ SeedingServers = {}
    /\ policies[tenant][scope] # "absent"
    /\ policies' = [policies EXCEPT ![tenant][scope] = "edited"]
    /\ UNCHANGED <<accounts, destinations, servers, reset, deploys, operations>>

\* pilot_apply_candidate_sql.sh, run while nothing seeds or resets.
OperatorMayAct ==
    /\ SeedingServers = {}
    /\ reset = "idle"
    /\ operations < MaxOperations
    /\ operations' = operations + 1

ApplyCandidate(seed) ==
    /\ OperatorMayAct
    /\ accounts' \in Added(accounts, seed)
    /\ destinations' = [destinations EXCEPT !["pilot"] = IF @ = 0 THEN 1 ELSE @]
    /\ \E scopes \in SUBSET Scopes :
           policies' = [policies EXCEPT !["pilot"] =
                           [scope \in Scopes |-> IF scope \in scopes THEN "edited" ELSE @[scope]]]
    /\ UNCHANGED <<servers, reset, deploys>>

RollBackCandidate(seed) ==
    /\ OperatorMayAct
    /\ accounts' = Removed(accounts, seed)
    /\ destinations' = [destinations EXCEPT !["pilot"] = 0]
    /\ policies' = [policies EXCEPT !["pilot"] = [scope \in Scopes |-> "absent"]]
    /\ UNCHANGED <<servers, reset, deploys>>

Next ==
    \/ \E s \in Servers, env \in Environments : Deploy(s, env)
    \/ \E s \in Servers : LockTables(s) \/ SeedAndListen(s) \/ AbortDeadlocked(s)
    \/ BeginReset
    \/ FinishReset
    \/ \E tenant \in Tenants, scope \in Scopes : EditPolicy(tenant, scope)
    \/ \E seed \in Candidates : ApplyCandidate(seed) \/ RollBackCandidate(seed)

\* The container restarts a process that exited, a granted lock is used, and
\* PostgreSQL looks for deadlocks; a reset that waits for the tables is ahead of
\* the next start in the lock's queue. Nobody has to deploy, reset or edit.
Fairness ==
    /\ \A s \in Servers : SF_vars(LockTables(s)) /\ WF_vars(SeedAndListen(s))
    /\ \A s \in Servers : WF_vars(AbortDeadlocked(s))
    /\ SF_vars(FinishReset)

Spec == Init /\ [][Next]_vars
FairSpec == Spec /\ Fairness

-----------------------------------------------------------------------------
(* What the app and the scripts report. *)

Holds(tenant, role, email) ==
    \E u \in UserIds : accounts.emailOf[u] = email /\ <<u, role>> \in accounts.members[tenant]

\* validateSimulatorOrganizationState finds no blocker.
PilotMatchesBaseline ==
    /\ \A scope \in Scopes : policies["pilot"][scope] = "baseline"
    /\ accounts.members["pilot"] = RolesOf(accounts, Defaults["pilot"])
    /\ \A role \in Roles : Holds("pilot", role, Defaults["pilot"][role])
    /\ \E u \in UserIds : /\ accounts.orgAdmins["pilot"] = {u}
                          /\ accounts.emailOf[u] = Defaults["pilot"]["organization_admin"]

Starts(s) == servers[s].pc = "seeding" /\ servers'[s].pc = "listening"

-----------------------------------------------------------------------------
(* Properties. *)

\* No two users have one address, however starts rename users and operators add
\* them: the UPDATE of ensureRoleMembership relies on its earlier SELECT.
EmailsAreUnique ==
    \A u, v \in UserIds : accounts.emailOf[u] = accounts.emailOf[v] =>
        u = v \/ accounts.emailOf[u] = NoEmail

\* The addresses that the environments, the defaults and the candidates name.
AddressesOf(tenant) ==
    ({buildSeed(env, tenant)[slot] : env \in Environments, slot \in Slots}
         \cup IF tenant = "pilot"
              THEN {seed[slot] : seed \in Candidates \cup {Defaults["pilot"]}, slot \in Slots}
              ELSE {}) \ {NoEmail}

\* No address serves both tenants.
SeparateTenants == AddressesOf("demo") \cap AddressesOf("pilot") = {}

\* README: a restart applies the configured submitter address. The role's only
\* holder is the user with that address, also when the address was another's.
SubmitterInboxApplied ==
    [][\A s \in Servers : Starts(s) =>
          \E u \in UserIds :
              /\ HoldersOf(accounts', "demo", "submitter_coach") = {u}
              /\ accounts'.emailOf[u] =
                     buildSeed(servers[s].env, "demo")["submitter_coach"]]_vars

\* README: "so old demo submissions stay attached". If the new address is nobody's
\* and the environment names it for no other role of the tenant, the submitter stays
\* the same user, whatever other roles the submitter has and whoever is renamed.
SubmissionsStayAttached ==
    [][\A s \in Servers, u \in UserIds :
          LET seed == buildSeed(servers[s].env, "demo")
          IN  /\ Starts(s)
              /\ HoldersOf(accounts, "demo", "submitter_coach") = {u}
              /\ UserWith(accounts, seed["submitter_coach"]) = {}
              /\ \A role \in Roles \ {"submitter_coach"} :
                     seed[role] # seed["submitter_coach"]
              => HoldersOf(accounts', "demo", "submitter_coach") = {u}]_vars

\* A start, with whatever environment, never takes back what the console or a
\* candidate's SQL stored in the policy tables.
StartsKeepPolicyEdits ==
    [][\A s \in Servers, tenant \in Tenants, scope \in Scopes :
          Starts(s) /\ policies[tenant][scope] = "edited"
              => policies'[tenant][scope] = "edited"]_vars

\* When a reset commits, the validation that follows finds no blocker, whatever
\* starts and candidates left behind: former admins, other holders, no rows.
ResetRestoresBaseline ==
    [][reset = "holdsOrganization" /\ reset' = "idle" /\ SeedingServers = {}
          => PilotMatchesBaseline']_vars

\* A process that is down gets to listen, though its start and a reset wait for
\* each other's locks.
StartsListen ==
    \A s \in Servers : servers[s].pc = "down" ~> servers[s].pc = "listening"
=============================================================================
