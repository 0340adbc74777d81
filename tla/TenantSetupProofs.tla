------------------------- MODULE TenantSetupProofs -------------------------
(* Theorems about the tenants' seeding and reset: addresses stay unique, a start
   keeps policy edits and the submitter and applies the submitter's address, and a
   reset ends in the baseline. *)
EXTENDS TenantSetup, TLAPS

USE DEF Tenants, Roles, Slots, Scopes

Addresses == Emails \cup {NoEmail}

Accounts == [emailOf : [UserIds -> Addresses],
             members : [Tenants -> SUBSET (UserIds \X Roles)],
             orgAdmins : [Tenants -> SUBSET UserIds]]

\* Well-formed, with no address twice.
Unique(a) ==
    \A u, v \in UserIds : a.emailOf[u] = a.emailOf[v] => u = v \/ a.emailOf[u] = NoEmail
Sound(a) == a \in Accounts /\ Unique(a)

Seeds == [Slots -> Addresses]

-----------------------------------------------------------------------------
(* What the statements keep. *)

\* A user is renamed only to an address nobody has.
LEMMA NamedIsSound ==
    ASSUME NEW a, Sound(a), NEW u \in UserIds, NEW email \in Addresses,
           UserWith(a, email) = {}
    PROVE  Sound(Named(a, u, email))
  <1> DEFINE b == Named(a, u, email)
  <1>1. b.emailOf = [a.emailOf EXCEPT ![u] = email] /\ b \in Accounts
    BY DEF Named, Sound, Accounts
  <1>2. a.emailOf \in [UserIds -> Addresses]
    BY DEF Sound, Accounts
  <1>3. \A w \in UserIds : a.emailOf[w] # email
    BY DEF UserWith
  <1>4. \A v, w \in UserIds :
            a.emailOf[v] = a.emailOf[w] => v = w \/ a.emailOf[v] = NoEmail
    BY DEF Sound, Unique
  <1>5. \A w \in UserIds : b.emailOf[w] = IF w = u THEN email ELSE a.emailOf[w]
    BY <1>1, <1>2
  <1> HIDE DEF b
  <1>6. Unique(b)
    BY <1>3, <1>4, <1>5 DEF Unique
  <1> QED
    BY <1>1, <1>6 DEF Sound, b

\* A new user is one whose id is not in use.
LEMMA NewUserIsFree ==
    ASSUME NEW a, NEW u \in NewUser(a)
    PROVE  u \in UserIds /\ a.emailOf[u] = NoEmail
  <1>1. UserWith(a, NoEmail) # {} /\ u = CHOOSE v \in UserWith(a, NoEmail) : TRUE
    BY DEF NewUser
  <1>2. u \in UserWith(a, NoEmail)
    BY <1>1
  <1> QED
    BY <1>2 DEF UserWith

\* Replacing a role's holders renames nobody.
LEMMA OnlyHolderIsSound ==
    ASSUME NEW a, Sound(a), NEW tenant \in Tenants, NEW role \in Roles, NEW u \in UserIds
    PROVE  Sound(OnlyHolder(a, tenant, role, u))
  <1> DEFINE b == OnlyHolder(a, tenant, role, u)
             those == {m \in a.members[tenant] : m[2] # role} \cup {<<u, role>>}
             members == [a.members EXCEPT ![tenant] = those]
  <1>1. b = [a EXCEPT !.members = members]
    BY DEF OnlyHolder
  <1>2. a.members \in [Tenants -> SUBSET (UserIds \X Roles)]
    BY DEF Sound, Accounts
  <1>3. those \in SUBSET (UserIds \X Roles)
    BY <1>2
  <1> HIDE DEF those
  <1>4. members \in [Tenants -> SUBSET (UserIds \X Roles)]
    BY <1>2, <1>3
  <1> HIDE DEF members
  <1>5. b \in Accounts /\ b.emailOf = a.emailOf
    BY <1>1, <1>4 DEF Sound, Accounts
  <1> HIDE DEF b
  <1>6. Sound(b)
    BY <1>5 DEF Sound, Unique
  <1> QED
    BY <1>6 DEF b

\* What ensuring a role does: its only holder afterwards is the user who has the
\* address, or one who is given an address nobody has: a holder, or a new user.
GivenTo(a, b, tenant, role, email, v) ==
    /\ b.members = [a.members EXCEPT ![tenant] = {m \in @ : m[2] # role} \cup {<<v, role>>}]
    /\ \/ b.emailOf = a.emailOf /\ a.emailOf[v] = email
       \/ /\ b.emailOf = [a.emailOf EXCEPT ![v] = email]
          /\ UserWith(a, email) = {}
          /\ \/ <<v, role>> \in a.members[tenant]
             \/ a.emailOf[v] = NoEmail /\ HoldersOf(a, tenant, role) = {}

LEMMA EnsureRoleEffect ==
    ASSUME NEW a, Sound(a), NEW tenant \in Tenants, NEW role \in Roles,
           NEW email, NEW b \in ensureRoleMembership(a, tenant, role, email)
    PROVE  \E v \in UserIds : GivenTo(a, b, tenant, role, email, v)
  <1>1. CASE UserWith(a, email) # {}
    <2>1. PICK v \in UserWith(a, email) : b = OnlyHolder(a, tenant, role, v)
      BY <1>1 DEF ensureRoleMembership
    <2>2. v \in UserIds /\ a.emailOf[v] = email
      BY DEF UserWith
    <2>3. /\ b.members = [a.members EXCEPT ![tenant] =
                             {m \in @ : m[2] # role} \cup {<<v, role>>}]
          /\ b.emailOf = a.emailOf
      BY <2>1 DEF OnlyHolder, Sound, Accounts
    <2> QED
      BY <2>2, <2>3 DEF GivenTo
  <1>2. CASE UserWith(a, email) = {}
    <2>1. PICK v \in IF HoldersOf(a, tenant, role) # {}
                     THEN HoldersOf(a, tenant, role) ELSE NewUser(a) :
              b = OnlyHolder(Named(a, v, email), tenant, role, v)
      BY <1>2 DEF ensureRoleMembership
    <2>2. /\ v \in UserIds
          /\ \/ <<v, role>> \in a.members[tenant]
             \/ a.emailOf[v] = NoEmail /\ HoldersOf(a, tenant, role) = {}
      BY <2>1, NewUserIsFree DEF HoldersOf
    <2> DEFINE named == Named(a, v, email)
    <2>3. /\ named.members = a.members
          /\ named.emailOf = [a.emailOf EXCEPT ![v] = email]
          /\ DOMAIN named = {"emailOf", "members", "orgAdmins"}
      BY DEF Named, Sound, Accounts
    <2> HIDE DEF named
    <2>4. /\ b.members = [named.members EXCEPT ![tenant] =
                             {m \in @ : m[2] # role} \cup {<<v, role>>}]
          /\ b.emailOf = named.emailOf
      BY <2>1, <2>3 DEF OnlyHolder, named
    <2> QED
      BY <1>2, <2>2, <2>3, <2>4 DEF GivenTo
  <1> QED
    BY <1>1, <1>2

\* The SELECT by address decides whether a user is renamed at all.
LEMMA EnsureRoleIsSound ==
    ASSUME NEW a, Sound(a), NEW tenant \in Tenants, NEW role \in Roles,
           NEW email \in Addresses,
           NEW b \in ensureRoleMembership(a, tenant, role, email)
    PROVE  Sound(b)
  <1>1. CASE UserWith(a, email) # {}
    <2>1. PICK u \in UserWith(a, email) : b = OnlyHolder(a, tenant, role, u)
      BY <1>1 DEF ensureRoleMembership
    <2> QED
      BY <2>1, OnlyHolderIsSound DEF UserWith
  <1>2. CASE UserWith(a, email) = {}
    <2>1. PICK u \in IF HoldersOf(a, tenant, role) # {}
                     THEN HoldersOf(a, tenant, role) ELSE NewUser(a) :
              b = OnlyHolder(Named(a, u, email), tenant, role, u)
      BY <1>2 DEF ensureRoleMembership
    <2>2. u \in UserIds
      BY <2>1, NewUserIsFree DEF HoldersOf
    <2>3. Sound(Named(a, u, email))
      BY <1>2, <2>2, NamedIsSound
    <2> QED
      BY <2>1, <2>2, <2>3, OnlyHolderIsSound
  <1> QED
    BY <1>1, <1>2

\* What an upsert leaves: the address is somebody's, those in use stay in use,
\* and memberships are untouched.
LEMMA UpsertIsSound ==
    ASSUME NEW a, Sound(a), NEW email \in Addresses, NEW b \in upsertUser(a, email)
    PROVE  /\ Sound(b)
           /\ UserWith(b, email) # {}
           /\ \A other \in Emails : UserWith(a, other) # {} => UserWith(b, other) # {}
  <1>1. CASE UserWith(a, email) # {}
    BY <1>1 DEF upsertUser
  <1>2. CASE UserWith(a, email) = {}
    <2>1. PICK u \in NewUser(a) : b = Named(a, u, email)
      BY <1>2 DEF upsertUser
    <2>2. u \in UserIds /\ a.emailOf[u] = NoEmail
      BY <2>1, NewUserIsFree
    <2>3. Sound(b)
      BY <1>2, <2>1, <2>2, NamedIsSound
    <2>4. a.emailOf \in [UserIds -> Addresses] /\ b.emailOf = [a.emailOf EXCEPT ![u] = email]
      BY <2>1 DEF Named, Sound, Accounts
    <2>5. b.emailOf[u] = email
      BY <2>2, <2>4
    <2>6. \A other \in Emails : UserWith(a, other) # {} => UserWith(b, other) # {}
      <3> SUFFICES ASSUME NEW other \in Emails, NEW v \in UserWith(a, other)
                   PROVE  UserWith(b, other) # {}
        OBVIOUS
      <3>1. v \in UserIds /\ a.emailOf[v] = other /\ other # NoEmail
        BY DefaultsAssumption DEF UserWith
      <3>2. b.emailOf[v] = other
        BY <2>2, <2>4, <3>1
      <3> QED
        BY <3>1, <3>2 DEF UserWith
    <2> QED
      BY <2>2, <2>3, <2>5, <2>6 DEF UserWith
  <1> QED
    BY <1>1, <1>2

\* An organization admin is added to those there are.
LEMMA EnsureOrganizationIsSound ==
    ASSUME NEW a, Sound(a), NEW tenant \in Tenants, NEW email \in Addresses,
           NEW b \in ensureOrganizationMembership(a, tenant, email)
    PROVE  Sound(b)
  <1>1. PICK c \in upsertUser(a, email) :
            b = [c EXCEPT !.orgAdmins[tenant] = @ \cup UserWith(c, email)]
    BY DEF ensureOrganizationMembership
  <1>2. Sound(c)
    BY <1>1, UpsertIsSound
  <1>3. UserWith(c, email) \in SUBSET UserIds
    BY DEF UserWith
  <1>4. b \in Accounts /\ b.emailOf = c.emailOf
    BY <1>1, <1>2, <1>3 DEF Sound, Accounts
  <1> QED
    BY <1>2, <1>4 DEF Sound, Unique

\* One tenant's pass of the seeding is the roles' statements in their order, then the
\* organization admin's.
LEMMA SeedTenantSteps ==
    ASSUME NEW a, NEW tenant, NEW seed, NEW b \in SeedTenant(a, tenant, seed)
    PROVE  \E c1, c2, c3, c4 :
              /\ c1 \in ensureRoleMembership(a, tenant, "club_comms", seed["club_comms"])
              /\ c2 \in ensureRoleMembership(c1, tenant, "club_admin", seed["club_admin"])
              /\ IF seed["team_manager"] = NoEmail THEN c3 = c2
                 ELSE c3 \in ensureRoleMembership(c2, tenant, "team_manager",
                                                 seed["team_manager"])
              /\ c4 \in ensureRoleMembership(c3, tenant, "submitter_coach",
                                             seed["submitter_coach"])
              /\ b \in ensureOrganizationMembership(c4, tenant, seed["organization_admin"])
  <1> DEFINE Ensure(states, role) ==
                 UNION {ensureRoleMembership(c, tenant, role, seed[role]) : c \in states}
             withComms == Ensure({a}, "club_comms")
             withAdmin == Ensure(withComms, "club_admin")
             withManager == IF seed["team_manager"] = NoEmail THEN withAdmin
                            ELSE Ensure(withAdmin, "team_manager")
             withSubmitter == Ensure(withManager, "submitter_coach")
  <1>1. b \in UNION {ensureOrganizationMembership(c, tenant, seed["organization_admin"]) :
                         c \in withSubmitter}
    BY DEF SeedTenant
  <1>2. PICK c4 \in withSubmitter :
            b \in ensureOrganizationMembership(c4, tenant, seed["organization_admin"])
    BY <1>1
  <1> HIDE DEF withManager
  <1>3. PICK c3 \in withManager :
            c4 \in ensureRoleMembership(c3, tenant, "submitter_coach", seed["submitter_coach"])
    BY <1>2
  <1> HIDE DEF withAdmin
  <1>4. PICK c2 \in withAdmin :
            IF seed["team_manager"] = NoEmail THEN c3 = c2
            ELSE c3 \in ensureRoleMembership(c2, tenant, "team_manager", seed["team_manager"])
    BY <1>3 DEF withManager
  <1> HIDE DEF withComms
  <1>5. PICK c1 \in withComms :
            c2 \in ensureRoleMembership(c1, tenant, "club_admin", seed["club_admin"])
    BY <1>4 DEF withAdmin
  <1>6. c1 \in ensureRoleMembership(a, tenant, "club_comms", seed["club_comms"])
    BY <1>5 DEF withComms
  <1> QED
    BY <1>2, <1>3, <1>4, <1>5, <1>6

\* One tenant's pass keeps addresses unique, whatever the environment names.
LEMMA SeedTenantIsSound ==
    ASSUME NEW a, Sound(a), NEW tenant \in Tenants, NEW seed \in Seeds,
           NEW b \in SeedTenant(a, tenant, seed)
    PROVE  Sound(b)
  <1>1. \A slot \in Slots : seed[slot] \in Addresses
    BY DEF Seeds
  <1>2. ASSUME NEW c, Sound(c), NEW role \in Roles,
               NEW d \in ensureRoleMembership(c, tenant, role, seed[role])
        PROVE  Sound(d)
    BY <1>1, <1>2, EnsureRoleIsSound
  <1>3. PICK c1, c2, c3, c4 :
            /\ c1 \in ensureRoleMembership(a, tenant, "club_comms", seed["club_comms"])
            /\ c2 \in ensureRoleMembership(c1, tenant, "club_admin", seed["club_admin"])
            /\ IF seed["team_manager"] = NoEmail THEN c3 = c2
               ELSE c3 \in ensureRoleMembership(c2, tenant, "team_manager",
                                               seed["team_manager"])
            /\ c4 \in ensureRoleMembership(c3, tenant, "submitter_coach",
                                           seed["submitter_coach"])
            /\ b \in ensureOrganizationMembership(c4, tenant, seed["organization_admin"])
    BY SeedTenantSteps
  <1>4. Sound(c1) /\ Sound(c2)
    BY <1>2, <1>3
  <1>5. Sound(c3) /\ Sound(c4)
    BY <1>2, <1>3, <1>4
  <1> QED
    BY <1>1, <1>3, <1>5, EnsureOrganizationIsSound

\* The five upserts of a reset or a candidate leave every address of the seed
\* with a user.
LEMMA UpsertAllIsSound ==
    ASSUME NEW a, Sound(a), NEW seed \in [Slots -> Emails], NEW b \in UpsertAll(a, seed)
    PROVE  Sound(b) /\ \A slot \in Slots : UserWith(b, seed[slot]) # {}
  <1> DEFINE Upsert(states, slot) == UNION {upsertUser(c, seed[slot]) : c \in states}
             s1 == Upsert({a}, "submitter_coach")
             s2 == Upsert(s1, "club_comms")
             s3 == Upsert(s2, "club_admin")
             s4 == Upsert(s3, "team_manager")
             s5 == Upsert(s4, "organization_admin")
             Named_(c, slots) == \A slot \in slots : UserWith(c, seed[slot]) # {}
  <1>1. ASSUME NEW states, NEW slots \in SUBSET Slots, NEW slot \in Slots,
               \A c \in states : Sound(c) /\ Named_(c, slots)
        PROVE  \A d \in Upsert(states, slot) : Sound(d) /\ Named_(d, slots \cup {slot})
    <2> SUFFICES ASSUME NEW d \in Upsert(states, slot)
                 PROVE  Sound(d) /\ Named_(d, slots \cup {slot})
      OBVIOUS
    <2>1. PICK c \in states : d \in upsertUser(c, seed[slot])
      OBVIOUS
    <2>2. Sound(c) /\ Named_(c, slots)
      BY <1>1
    <2>3. seed[slot] \in Addresses /\ \A other \in slots : seed[other] \in Emails
      BY DEF Addresses
    <2>4. /\ Sound(d)
          /\ UserWith(d, seed[slot]) # {}
          /\ \A other \in Emails : UserWith(c, other) # {} => UserWith(d, other) # {}
      BY <2>1, <2>2, <2>3, UpsertIsSound
    <2> QED
      BY <2>2, <2>3, <2>4
  <1> HIDE DEF Upsert, Named_
  <1>2. \A c \in s1 : Sound(c) /\ Named_(c, {"submitter_coach"})
    <2>1. Named_(a, {})
      BY DEF Named_
    <2>2. \A d \in Upsert({a}, "submitter_coach") :
              Sound(d) /\ Named_(d, {} \cup {"submitter_coach"})
      BY <1>1, <2>1
    <2>3. {} \cup {"submitter_coach"} = {"submitter_coach"}
      OBVIOUS
    <2> QED
      BY <2>2, <2>3
  <1> HIDE DEF s1
  <1>3. \A c \in s2 : Sound(c) /\ Named_(c, {"submitter_coach"} \cup {"club_comms"})
    BY <1>1, <1>2
  <1> HIDE DEF s2
  <1>4. \A c \in s3 : Sound(c) /\ Named_(c, {"submitter_coach"} \cup {"club_comms"}
                                             \cup {"club_admin"})
    BY <1>1, <1>3
  <1> HIDE DEF s3
  <1>5. \A c \in s4 : Sound(c) /\ Named_(c, {"submitter_coach"} \cup {"club_comms"}
                                             \cup {"club_admin"} \cup {"team_manager"})
    BY <1>1, <1>4
  <1> HIDE DEF s4
  <1>6. \A c \in s5 : Sound(c) /\ Named_(c, {"submitter_coach"} \cup {"club_comms"}
                         \cup {"club_admin"} \cup {"team_manager"} \cup {"organization_admin"})
    BY <1>1, <1>5
  <1>7. b \in s5
    BY DEF UpsertAll, Upsert, s5, s4, s3, s2, s1
  <1>8. Slots = {"submitter_coach"} \cup {"club_comms"} \cup {"club_admin"}
                    \cup {"team_manager"} \cup {"organization_admin"}
    OBVIOUS
  <1>9. Sound(b) /\ Named_(b, Slots)
    BY <1>6, <1>7, <1>8
  <1> QED
    BY <1>9 DEF Named_

-----------------------------------------------------------------------------
(* The steps. *)

\* Every address an environment, or the defaults, give a slot.
LEMMA SeedIsTyped ==
    ASSUME NEW env \in Environments, NEW tenant \in Tenants
    PROVE  buildSeed(env, tenant) \in Seeds
  <1> SUFFICES ASSUME NEW slot \in Slots
               PROVE  buildSeed(env, tenant)[slot] \in Addresses
    BY DEF buildSeed, Seeds
  <1>1. \A other \in Slots : Defaults[tenant][other] \in Addresses
    BY DefaultsAssumption DEF Addresses
  <1>2. slot \in DOMAIN env[tenant] => env[tenant][slot] \in Addresses
    BY EnvironmentsAssumption DEF Addresses
  <1>3. "club_comms" \in Slots
    OBVIOUS
  <1> QED
    BY <1>1, <1>2, <1>3 DEF buildSeed

\* A reset's repair: every address once, the baseline's memberships, and the one
\* organization admin.
LEMMA RepairedIsBaseline ==
    ASSUME NEW a, Sound(a), NEW seed \in [Slots -> Emails], NEW b \in Repaired(a, seed)
    PROVE  /\ Sound(b)
           /\ \A slot \in Slots : UserWith(b, seed[slot]) # {}
           /\ b.members["pilot"] = RolesOf(b, seed)
           /\ b.orgAdmins["pilot"] = UserWith(b, seed["organization_admin"])
  <1>1. PICK c \in UpsertAll(a, seed) :
            b = [c EXCEPT !.members["pilot"] = RolesOf(c, seed),
                          !.orgAdmins["pilot"] = UserWith(c, seed["organization_admin"])]
    BY DEF Repaired
  <1>2. Sound(c) /\ \A slot \in Slots : UserWith(c, seed[slot]) # {}
    BY <1>1, UpsertAllIsSound
  <1> DEFINE roles == RolesOf(c, seed)
             admins == UserWith(c, seed["organization_admin"])
  <1>3. roles \in SUBSET (UserIds \X Roles) /\ admins \in SUBSET UserIds
    BY DEF RolesOf, UserWith
  <1> HIDE DEF roles, admins
  <1>4. /\ c.members \in [Tenants -> SUBSET (UserIds \X Roles)]
        /\ c.orgAdmins \in [Tenants -> SUBSET UserIds]
    BY <1>2 DEF Sound, Accounts
  <1> DEFINE members == [c.members EXCEPT !["pilot"] = roles]
             orgAdmins == [c.orgAdmins EXCEPT !["pilot"] = admins]
  <1>5. /\ members \in [Tenants -> SUBSET (UserIds \X Roles)]
        /\ orgAdmins \in [Tenants -> SUBSET UserIds]
        /\ members["pilot"] = roles
        /\ orgAdmins["pilot"] = admins
    BY <1>3, <1>4
  <1>6. b = [[c EXCEPT !.members = members] EXCEPT !.orgAdmins = orgAdmins]
    BY <1>1 DEF roles, admins
  <1> HIDE DEF members, orgAdmins
  <1>7. /\ b \in Accounts
        /\ b.emailOf = c.emailOf
        /\ b.members = members
        /\ b.orgAdmins = orgAdmins
    BY <1>2, <1>5, <1>6 DEF Sound, Accounts
  <1>8. /\ \A email : UserWith(b, email) = UserWith(c, email)
        /\ RolesOf(b, seed) = roles
    BY <1>7 DEF UserWith, RolesOf, roles
  <1>9. Sound(b)
    BY <1>2, <1>7 DEF Sound, Unique
  <1> QED
    BY <1>2, <1>5, <1>7, <1>8, <1>9 DEF admins

\* A candidate's SQL.
LEMMA AddedIsSound ==
    ASSUME NEW a, Sound(a), NEW seed \in [Slots -> Emails], NEW b \in Added(a, seed)
    PROVE  Sound(b)
  <1>1. PICK c \in UpsertAll(a, seed) :
            b = [c EXCEPT !.members["pilot"] = @ \cup RolesOf(c, seed),
                          !.orgAdmins["pilot"] =
                              @ \cup UserWith(c, seed["organization_admin"])]
    BY DEF Added
  <1>2. Sound(c)
    BY <1>1, UpsertAllIsSound
  <1> DEFINE roles == c.members["pilot"] \cup RolesOf(c, seed)
             admins == c.orgAdmins["pilot"] \cup UserWith(c, seed["organization_admin"])
  <1>3. /\ c.members \in [Tenants -> SUBSET (UserIds \X Roles)]
        /\ c.orgAdmins \in [Tenants -> SUBSET UserIds]
    BY <1>2 DEF Sound, Accounts
  <1>4. roles \in SUBSET (UserIds \X Roles) /\ admins \in SUBSET UserIds
    BY <1>3 DEF RolesOf, UserWith
  <1>5. b = [c EXCEPT !.members["pilot"] = roles, !.orgAdmins["pilot"] = admins]
    BY <1>1
  <1> HIDE DEF roles, admins
  <1>6. b \in Accounts /\ b.emailOf = c.emailOf
    BY <1>2, <1>3, <1>4, <1>5 DEF Sound, Accounts
  <1> QED
    BY <1>2, <1>6 DEF Sound, Unique

\* And its rollback.
LEMMA RemovedIsSound ==
    ASSUME NEW a, Sound(a), NEW seed \in [Slots -> Emails]
    PROVE  Sound(Removed(a, seed))
  <1> DEFINE b == Removed(a, seed)
             roles == {m \in a.members["pilot"] :
                           \A role \in Roles : a.emailOf[m[1]] # seed[role]}
             admins == a.orgAdmins["pilot"] \ UserWith(a, seed["organization_admin"])
  <1>1. /\ a.members \in [Tenants -> SUBSET (UserIds \X Roles)]
        /\ a.orgAdmins \in [Tenants -> SUBSET UserIds]
    BY DEF Sound, Accounts
  <1>2. roles \in SUBSET (UserIds \X Roles) /\ admins \in SUBSET UserIds
    BY <1>1
  <1>3. b = [a EXCEPT !.members["pilot"] = roles, !.orgAdmins["pilot"] = admins]
    BY DEF Removed
  <1> HIDE DEF roles, admins, b
  <1>4. b \in Accounts /\ b.emailOf = a.emailOf
    BY <1>1, <1>2, <1>3 DEF Sound, Accounts
  <1>5. Sound(b)
    BY <1>4 DEF Sound, Unique
  <1> QED
    BY <1>5 DEF b

\* TypeOK, and the accounts' soundness, which every rename relies on.
Inv == TypeOK /\ Unique(accounts)

LEMMA AccountsAreSound == Inv => Sound(accounts)
  BY DEF Inv, TypeOK, Sound, Accounts, Addresses

LEMMA PilotDefaultsAreNamed == Defaults["pilot"] \in [Slots -> Emails]
  <1>1. Defaults["pilot"] \in [Slots -> Emails \cup {NoEmail}]
    BY DefaultsAssumption
  <1>2. \A slot \in Slots : Defaults["pilot"][slot] # NoEmail
    BY DefaultsAssumption
  <1> QED
    BY <1>1, <1>2

\* Both tenants' passes of a start.
LEMMA StartIsSound ==
    ASSUME Inv, NEW s \in Servers, NEW a,
           a \in SeedTenant(accounts, "demo", buildSeed(servers[s].env, "demo")),
           NEW b \in SeedTenant(a, "pilot", buildSeed(servers[s].env, "pilot"))
    PROVE  Sound(b)
  <1>1. servers[s].env \in Environments
    BY DEF Inv, TypeOK
  <1>2. /\ buildSeed(servers[s].env, "demo") \in Seeds
        /\ buildSeed(servers[s].env, "pilot") \in Seeds
    BY <1>1, SeedIsTyped
  <1>3. Sound(a)
    BY <1>2, AccountsAreSound, SeedTenantIsSound
  <1> QED
    BY <1>2, <1>3, SeedTenantIsSound

\* The accounts of the initial state.
LEMMA InitIsSound == Init => Inv
  <1> SUFFICES ASSUME Init PROVE Inv
    OBVIOUS
  <1>1. accounts \in [emailOf : [UserIds -> Emails \cup {NoEmail}],
                      members : [Tenants -> SUBSET (UserIds \X Roles)],
                      orgAdmins : [Tenants -> SUBSET UserIds]]
    BY DEF Init
  <1>2. Unique(accounts)
    BY DEF Init, Unique
  <1>3. /\ policies \in [Tenants -> [Scopes -> PolicyRows]]
        /\ destinations \in [Tenants -> Nat]
        /\ reset \in {"idle", "holdsOrganization"}
        /\ deploys \in 0 .. MaxDeploys
        /\ operations \in 0 .. MaxOperations
    BY BoundsAssumption DEF Init, PolicyRows
  <1>4. servers \in [Servers -> [pc : {"down", "seeding", "listening"}, env : Environments]]
    <2>1. servers \in [Servers -> [pc : {"down"}, env : Environments]]
      BY DEF Init
    <2>2. [pc : {"down"}, env : Environments]
              \subseteq [pc : {"down", "seeding", "listening"}, env : Environments]
      OBVIOUS
    <2> QED
      BY <2>1, <2>2
  <1> QED
    BY <1>1, <1>2, <1>3, <1>4 DEF Inv, TypeOK

\* Every step keeps addresses unique: a start by SeedTenantIsSound, an operator
\* by the upserts.
LEMMA StepKeepsSound == Inv /\ [Next]_vars => Inv'
  <1> SUFFICES ASSUME Inv, [Next]_vars PROVE Inv'
    OBVIOUS
  <1> USE DEF PolicyRows
  <1>a. /\ policies \in [Tenants -> [Scopes -> PolicyRows]]
        /\ destinations \in [Tenants -> Nat]
        /\ servers \in [Servers -> [pc : {"down", "seeding", "listening"},
                                     env : Environments]]
        /\ reset \in {"idle", "holdsOrganization"}
        /\ deploys \in 0 .. MaxDeploys
        /\ operations \in 0 .. MaxOperations
    BY DEF Inv, TypeOK
  <1>b. Sound(accounts) /\ MaxDeploys \in Nat /\ MaxOperations \in Nat
    BY AccountsAreSound, BoundsAssumption
  <1>c. ASSUME Sound(accounts'),
               policies' \in [Tenants -> [Scopes -> PolicyRows]],
               destinations' \in [Tenants -> Nat],
               servers' \in [Servers -> [pc : {"down", "seeding", "listening"},
                                         env : Environments]],
               reset' \in {"idle", "holdsOrganization"},
               deploys' \in 0 .. MaxDeploys,
               operations' \in 0 .. MaxOperations
        PROVE  Inv'
    BY <1>c DEF Inv, TypeOK, Sound, Accounts, Addresses, Unique
  <1>1. ASSUME NEW s \in Servers, NEW env \in Environments, Deploy(s, env) PROVE Inv'
    BY <1>1, <1>a, <1>b, <1>c DEF Deploy
  <1>2. ASSUME NEW s \in Servers, LockTables(s) PROVE Inv'
    BY <1>2, <1>a, <1>b, <1>c DEF LockTables
  <1>3. ASSUME NEW s \in Servers, SeedAndListen(s) PROVE Inv'
    <2>1. Sound(accounts')
      <3>1. PICK a \in SeedTenant(accounts, "demo", buildSeed(servers[s].env, "demo")) :
                accounts' \in SeedTenant(a, "pilot", buildSeed(servers[s].env, "pilot"))
        BY <1>3 DEF SeedAndListen
      <3> QED
        BY <3>1, StartIsSound
    <2>2. /\ destinations' = [tenant \in Tenants |->
                 IF destinations[tenant] = 0 THEN 1 ELSE destinations[tenant]]
          /\ policies' = [tenant \in Tenants |-> [scope \in Scopes |->
                 IF policies[tenant][scope] = "absent"
                 THEN "baseline" ELSE policies[tenant][scope]]]
          /\ servers' = [servers EXCEPT ![s].pc = "listening"]
          /\ UNCHANGED <<reset, deploys, operations>>
      BY <1>3 DEF SeedAndListen
    <2>3. destinations' \in [Tenants -> Nat]
      BY <1>a, <2>2
    <2>4. policies' \in [Tenants -> [Scopes -> PolicyRows]]
      BY <1>a, <2>2
    <2>5. servers' \in [Servers -> [pc : {"down", "seeding", "listening"},
                                    env : Environments]]
      BY <1>a, <2>2
    <2> QED
      BY <1>a, <1>c, <2>1, <2>2, <2>3, <2>4, <2>5
  <1>4. ASSUME NEW s \in Servers, AbortDeadlocked(s) PROVE Inv'
    BY <1>4, <1>a, <1>b, <1>c DEF AbortDeadlocked
  <1>5. CASE BeginReset
    BY <1>5, <1>a, <1>b, <1>c DEF BeginReset
  <1>6. CASE FinishReset
    <2>1. Sound(accounts')
      BY <1>6, <1>b, RepairedIsBaseline, PilotDefaultsAreNamed DEF FinishReset
    <2>2. policies' \in [Tenants -> [Scopes -> PolicyRows]]
      BY <1>6, <1>a DEF FinishReset
    <2> QED
      BY <1>6, <1>a, <1>c, <2>1, <2>2 DEF FinishReset
  <1>7. ASSUME NEW tenant \in Tenants, NEW scope \in Scopes, EditPolicy(tenant, scope)
        PROVE  Inv'
    <2>1. policies' \in [Tenants -> [Scopes -> PolicyRows]]
      BY <1>7, <1>a DEF EditPolicy
    <2> QED
      BY <1>7, <1>a, <1>b, <1>c, <2>1 DEF EditPolicy
  <1>8. ASSUME NEW seed \in Candidates, ApplyCandidate(seed) PROVE Inv'
    <2>1. seed \in [Slots -> Emails]
      BY DefaultsAssumption
    <2>2. Sound(accounts')
      BY <1>8, <1>b, <2>1, AddedIsSound DEF ApplyCandidate
    <2>3. policies' \in [Tenants -> [Scopes -> PolicyRows]]
      <3>1. PICK scopes \in SUBSET Scopes :
                policies' = [policies EXCEPT !["pilot"] =
                    [scope \in Scopes |-> IF scope \in scopes THEN "edited" ELSE @[scope]]]
        BY <1>8 DEF ApplyCandidate
      <3> DEFINE rows == [scope \in Scopes |->
                             IF scope \in scopes THEN "edited" ELSE policies["pilot"][scope]]
      <3>2. rows \in [Scopes -> PolicyRows]
        BY <1>a
      <3>3. policies' = [policies EXCEPT !["pilot"] = rows]
        BY <3>1
      <3> HIDE DEF rows
      <3> QED
        BY <1>a, <3>2, <3>3
    <2>4. destinations' \in [Tenants -> Nat]
      BY <1>8, <1>a DEF ApplyCandidate
    <2> QED
      BY <1>8, <1>a, <1>b, <1>c, <2>2, <2>3, <2>4 DEF ApplyCandidate, OperatorMayAct
  <1>9. ASSUME NEW seed \in Candidates, RollBackCandidate(seed) PROVE Inv'
    <2>1. seed \in [Slots -> Emails]
      BY DefaultsAssumption
    <2>2. Sound(accounts')
      BY <1>9, <1>b, <2>1, RemovedIsSound DEF RollBackCandidate
    <2>3. /\ policies' \in [Tenants -> [Scopes -> PolicyRows]]
          /\ destinations' \in [Tenants -> Nat]
      BY <1>9, <1>a DEF RollBackCandidate
    <2> QED
      BY <1>9, <1>a, <1>b, <1>c, <2>2, <2>3 DEF RollBackCandidate, OperatorMayAct
  <1>10. CASE UNCHANGED vars
    BY <1>10, <1>a, <1>b, <1>c DEF vars
  <1> QED
    BY <1>1, <1>2, <1>3, <1>4, <1>5, <1>6, <1>7, <1>8, <1>9, <1>10 DEF Next

LEMMA InvAlways == Spec => []Inv
  BY InitIsSound, StepKeepsSound, PTL DEF Spec

\* Only a start makes a process listen.
LEMMA StartsSeed ==
    ASSUME Inv, [Next]_vars, NEW s \in Servers, Starts(s)
    PROVE  SeedAndListen(s)
  <1>1. servers \in [Servers -> [pc : {"down", "seeding", "listening"}, env : Environments]]
    BY DEF Inv, TypeOK
  <1>2. servers[s].pc = "seeding" /\ servers'[s].pc = "listening"
    BY DEF Starts
  <1>3. \A t \in Servers, env \in Environments : ~ Deploy(t, env)
    BY <1>1, <1>2 DEF Deploy
  <1>4. \A t \in Servers : ~ LockTables(t) /\ ~ AbortDeadlocked(t)
    BY <1>1, <1>2 DEF LockTables, AbortDeadlocked
  <1>5. servers' # servers
    BY <1>2
  <1>6. Next
    BY <1>5 DEF vars
  <1>7. PICK t \in Servers : SeedAndListen(t)
    BY <1>3, <1>4, <1>5, <1>6 DEF Next, BeginReset, FinishReset, EditPolicy, ApplyCandidate,
                                  RollBackCandidate
  <1>8. t = s
    BY <1>1, <1>2, <1>7 DEF SeedAndListen
  <1> QED
    BY <1>7, <1>8 DEF SeedAndListen

-----------------------------------------------------------------------------
(* The theorems. *)

\* Every table of the seeding stays well-formed.
THEOREM TypeCorrect == Spec => []TypeOK
  <1>1. Inv => TypeOK
    BY DEF Inv
  <1> QED
    BY <1>1, InvAlways, PTL

\* No two users share an address, for any environments, candidates, servers and
\* number of deployments and operations.
THEOREM EmailsStayUnique == Spec => []EmailsAreUnique
  <1>1. Inv => EmailsAreUnique
    BY DEF Inv, Unique, EmailsAreUnique
  <1> QED
    BY <1>1, InvAlways, PTL

\* A start keeps every edited policy row of both tenants.
THEOREM StartsNeverResetPolicies == Spec => StartsKeepPolicyEdits
  <1> DEFINE Kept == \A s \in Servers, tenant \in Tenants, scope \in Scopes :
                         Starts(s) /\ policies[tenant][scope] = "edited"
                             => policies'[tenant][scope] = "edited"
  <1>1. Inv /\ [Next]_vars => [Kept]_vars
    <2> SUFFICES ASSUME Inv, Next,
                        NEW s \in Servers, NEW tenant \in Tenants, NEW scope \in Scopes,
                        Starts(s), policies[tenant][scope] = "edited"
                 PROVE  policies'[tenant][scope] = "edited"
      BY DEF vars
    <2>1. SeedAndListen(s)
      BY StartsSeed
    <2> QED
      BY <2>1 DEF SeedAndListen
  <1> QED
    BY <1>1, InvAlways, PTL DEF Spec, StartsKeepPolicyEdits

\* A reset that commits leaves what its validation looks for. That there is one
\* organization admin rests on the addresses being unique.
THEOREM ResetEndsInBaseline == Spec => ResetRestoresBaseline
  <1> DEFINE Reset == reset = "holdsOrganization" /\ reset' = "idle" /\ SeedingServers = {}
                          => PilotMatchesBaseline'
             seed == Defaults["pilot"]
  <1>1. Inv /\ [Next]_vars => [Reset]_vars
    <2> SUFFICES ASSUME Inv, Next, reset = "holdsOrganization", reset' = "idle",
                        SeedingServers = {}
                 PROVE  PilotMatchesBaseline'
      BY DEF vars
    <2>1. \A s \in Servers : servers[s].pc # "seeding"
      BY DEF SeedingServers
    <2>2. FinishReset
      BY <2>1 DEF Next, Deploy, LockTables, SeedAndListen, AbortDeadlocked, BeginReset,
                  EditPolicy, ApplyCandidate, RollBackCandidate, OperatorMayAct
    <2>3. seed \in [Slots -> Emails]
      BY PilotDefaultsAreNamed
    <2>4. accounts' \in Repaired(accounts, seed)
      BY <2>2 DEF FinishReset
    <2> DEFINE b == accounts'
    <2>5. /\ Sound(b)
          /\ \A slot \in Slots : UserWith(b, seed[slot]) # {}
          /\ b.members["pilot"] = RolesOf(b, seed)
          /\ b.orgAdmins["pilot"] = UserWith(b, seed["organization_admin"])
      BY <2>3, <2>4, AccountsAreSound, RepairedIsBaseline
    <2>6. \A scope \in Scopes : policies'["pilot"][scope] = "baseline"
      BY <2>2 DEF FinishReset, Inv, TypeOK
    <2>7. \A role \in Roles : \E u \in UserIds :
              b.emailOf[u] = seed[role] /\ <<u, role>> \in b.members["pilot"]
      <3> SUFFICES ASSUME NEW role \in Roles
                   PROVE  \E u \in UserIds :
                              b.emailOf[u] = seed[role] /\ <<u, role>> \in b.members["pilot"]
        OBVIOUS
      <3>1. PICK u \in UserIds : b.emailOf[u] = seed[role]
        BY <2>5 DEF UserWith
      <3>2. <<u, role>> \in RolesOf(b, seed)
        BY <3>1 DEF RolesOf
      <3> QED
        BY <2>5, <3>1, <3>2
    <2>8. \E u \in UserIds : /\ b.orgAdmins["pilot"] = {u}
                             /\ b.emailOf[u] = seed["organization_admin"]
      <3>1. PICK u \in UserIds : b.emailOf[u] = seed["organization_admin"]
        BY <2>5 DEF UserWith
      <3>2. seed["organization_admin"] # NoEmail
        BY DefaultsAssumption
      <3>3. UserWith(b, seed["organization_admin"]) = {u}
        BY <2>5, <3>1, <3>2 DEF UserWith, Sound, Unique
      <3> QED
        BY <2>5, <3>1, <3>3
    <2> QED
      BY <2>5, <2>6, <2>7, <2>8 DEF PilotMatchesBaseline, RolesOf, Holds
  <1> QED
    BY <1>1, InvAlways, PTL DEF Spec, ResetRestoresBaseline

-----------------------------------------------------------------------------
(* Who the submitter is after a start. *)

\* A role's statement leaves the holders of the others, and of the other tenant.
LEMMA EnsureRoleLeavesOthers ==
    ASSUME NEW a, Sound(a), NEW tenant \in Tenants, NEW role \in Roles,
           NEW email, NEW b \in ensureRoleMembership(a, tenant, role, email),
           NEW t \in Tenants, NEW r \in Roles, <<t, r>> # <<tenant, role>>
    PROVE  HoldersOf(b, t, r) = HoldersOf(a, t, r)
  <1>0. PICK v \in UserIds : GivenTo(a, b, tenant, role, email, v)
    BY EnsureRoleEffect
  <1>1. b.members = [a.members EXCEPT ![tenant] =
                        {m \in @ : m[2] # role} \cup {<<v, role>>}]
    BY <1>0 DEF GivenTo
  <1>2. a.members \in [Tenants -> SUBSET (UserIds \X Roles)]
    BY DEF Sound, Accounts
  <1>3. CASE t # tenant
    BY <1>1, <1>2, <1>3 DEF HoldersOf
  <1>4. CASE t = tenant /\ r # role
    <2>1. b.members[t] = {m \in a.members[t] : m[2] # role} \cup {<<v, role>>}
      BY <1>1, <1>2, <1>4
    <2>2. \A u \in UserIds : <<u, r>> \in b.members[t] <=> <<u, r>> \in a.members[t]
      BY <1>4, <2>1
    <2> QED
      BY <2>2 DEF HoldersOf
  <1> QED
    BY <1>3, <1>4

\* An address nobody has, and that the statement does not name, stays nobody's.
LEMMA EnsureRoleLeavesAddress ==
    ASSUME NEW a, Sound(a), NEW tenant \in Tenants, NEW role \in Roles,
           NEW email, NEW b \in ensureRoleMembership(a, tenant, role, email),
           NEW other, other # email, UserWith(a, other) = {}
    PROVE  UserWith(b, other) = {}
  <1>0. PICK v \in UserIds : GivenTo(a, b, tenant, role, email, v)
    BY EnsureRoleEffect
  <1>1. b.emailOf = a.emailOf \/ b.emailOf = [a.emailOf EXCEPT ![v] = email]
    BY <1>0 DEF GivenTo
  <1>2. DOMAIN a.emailOf = UserIds
    BY DEF Sound, Accounts
  <1>3. \A u \in UserIds : b.emailOf[u] = a.emailOf[u] \/ b.emailOf[u] = email
    BY <1>1, <1>2
  <1> QED
    BY <1>3 DEF UserWith

\* A role whose only holder is u, with an address nobody has, stays with u.
LEMMA EnsureRoleKeepsHolder ==
    ASSUME NEW a, Sound(a), NEW tenant \in Tenants, NEW role \in Roles,
           NEW email, NEW b \in ensureRoleMembership(a, tenant, role, email),
           NEW u, HoldersOf(a, tenant, role) = {u}, UserWith(a, email) = {}
    PROVE  HoldersOf(b, tenant, role) = {u}
  <1>0. PICK v \in UserIds : GivenTo(a, b, tenant, role, email, v)
    BY EnsureRoleEffect
  <1>1. /\ b.members = [a.members EXCEPT ![tenant] =
                          {m \in @ : m[2] # role} \cup {<<v, role>>}]
        /\ a.emailOf[v] = email \/ <<v, role>> \in a.members[tenant]
    BY <1>0 DEF GivenTo
  <1>2. v = u
    BY <1>1 DEF UserWith, HoldersOf
  <1>3. a.members \in [Tenants -> SUBSET (UserIds \X Roles)]
    BY DEF Sound, Accounts
  <1>4. b.members[tenant] = {m \in a.members[tenant] : m[2] # role} \cup {<<u, role>>}
    BY <1>1, <1>2, <1>3
  <1> QED
    BY <1>1, <1>2, <1>4 DEF HoldersOf

\* The organization admin's statement touches no role.
LEMMA EnsureOrganizationKeepsRoles ==
    ASSUME NEW a, Sound(a), NEW tenant \in Tenants, NEW email,
           NEW b \in ensureOrganizationMembership(a, tenant, email)
    PROVE  /\ b.members = a.members
           /\ \A u \in UserIds : a.emailOf[u] # NoEmail => b.emailOf[u] = a.emailOf[u]
  <1>1. PICK c \in upsertUser(a, email) :
            b = [c EXCEPT !.orgAdmins[tenant] = @ \cup UserWith(c, email)]
    BY DEF ensureOrganizationMembership
  <1>2. c = a \/ \E v \in NewUser(a) : c = Named(a, v, email)
    BY <1>1 DEF upsertUser
  <1>3. /\ DOMAIN c = {"emailOf", "members", "orgAdmins"}
        /\ c.members = a.members
        /\ \A u \in UserIds : a.emailOf[u] # NoEmail => c.emailOf[u] = a.emailOf[u]
    <2>1. CASE c = a
      BY <2>1 DEF Sound, Accounts
    <2>2. ASSUME NEW v \in NewUser(a), c = Named(a, v, email)
          PROVE  /\ DOMAIN c = {"emailOf", "members", "orgAdmins"}
                 /\ c.members = a.members
                 /\ \A u \in UserIds : a.emailOf[u] # NoEmail =>
                        c.emailOf[u] = a.emailOf[u]
      <3>1. a.emailOf[v] = NoEmail
        BY NewUserIsFree
      <3>2. /\ c.members = a.members
            /\ c.emailOf = [a.emailOf EXCEPT ![v] = email]
            /\ DOMAIN c = {"emailOf", "members", "orgAdmins"}
        BY <2>2 DEF Named, Sound, Accounts
      <3>3. DOMAIN a.emailOf = UserIds
        BY DEF Sound, Accounts
      <3> QED
        BY <3>1, <3>2, <3>3
    <2> QED
      BY <1>2, <2>1, <2>2
  <1>4. b.members = c.members /\ b.emailOf = c.emailOf
    BY <1>1, <1>3
  <1> QED
    BY <1>3, <1>4

\* A pass over the demo tenant: before the submitter's turn nobody is given the
\* submitter's new address, so that the submitter is renamed.
LEMMA DemoPassKeepsSubmitter ==
    ASSUME NEW a, Sound(a), NEW seed \in Seeds, NEW b \in SeedTenant(a, "demo", seed),
           NEW u, HoldersOf(a, "demo", "submitter_coach") = {u},
           UserWith(a, seed["submitter_coach"]) = {},
           \A role \in Roles \ {"submitter_coach"} : seed[role] # seed["submitter_coach"]
    PROVE  HoldersOf(b, "demo", "submitter_coach") = {u}
  <1> DEFINE Waits(c) == /\ Sound(c)
                         /\ HoldersOf(c, "demo", "submitter_coach") = {u}
                         /\ UserWith(c, seed["submitter_coach"]) = {}
  <1>1. PICK c1, c2, c3, c4 :
            /\ c1 \in ensureRoleMembership(a, "demo", "club_comms", seed["club_comms"])
            /\ c2 \in ensureRoleMembership(c1, "demo", "club_admin", seed["club_admin"])
            /\ IF seed["team_manager"] = NoEmail THEN c3 = c2
               ELSE c3 \in ensureRoleMembership(c2, "demo", "team_manager",
                                               seed["team_manager"])
            /\ c4 \in ensureRoleMembership(c3, "demo", "submitter_coach",
                                           seed["submitter_coach"])
            /\ b \in ensureOrganizationMembership(c4, "demo", seed["organization_admin"])
    BY SeedTenantSteps
  <1>2. ASSUME NEW c, Waits(c), NEW role \in Roles \ {"submitter_coach"},
               NEW d \in ensureRoleMembership(c, "demo", role, seed[role])
        PROVE  Waits(d)
    <2>1. Sound(d)
      BY <1>2, EnsureRoleIsSound DEF Seeds
    <2>2. HoldersOf(d, "demo", "submitter_coach") = HoldersOf(c, "demo", "submitter_coach")
      BY <1>2, EnsureRoleLeavesOthers
    <2>3. UserWith(d, seed["submitter_coach"]) = {}
      BY <1>2, EnsureRoleLeavesAddress
    <2> QED
      BY <1>2, <2>1, <2>2, <2>3
  <1>3. Waits(a)
    OBVIOUS
  <1> HIDE DEF Waits
  <1>4. Waits(c1)
    BY <1>1, <1>2, <1>3
  <1>5. Waits(c2)
    BY <1>1, <1>2, <1>4
  <1>6. Waits(c3)
    BY <1>1, <1>2, <1>5
  <1>7. Sound(c4) /\ HoldersOf(c4, "demo", "submitter_coach") = {u}
    <2>1. /\ Sound(c3) /\ HoldersOf(c3, "demo", "submitter_coach") = {u}
          /\ UserWith(c3, seed["submitter_coach"]) = {}
          /\ seed["submitter_coach"] \in Addresses
      BY <1>6 DEF Waits, Seeds
    <2>2. Sound(c4)
      BY <1>1, <2>1, EnsureRoleIsSound
    <2> QED
      BY <1>1, <2>1, <2>2, EnsureRoleKeepsHolder
  <1> QED
    BY <1>1, <1>7, EnsureOrganizationKeepsRoles DEF HoldersOf

\* A pass over one tenant leaves the other's memberships.
LEMMA PassLeavesOtherTenant ==
    ASSUME NEW a, Sound(a), NEW tenant \in Tenants, NEW seed \in Seeds,
           NEW b \in SeedTenant(a, tenant, seed), NEW t \in Tenants \ {tenant}
    PROVE  b.members[t] = a.members[t]
  <1>1. PICK c1, c2, c3, c4 :
            /\ c1 \in ensureRoleMembership(a, tenant, "club_comms", seed["club_comms"])
            /\ c2 \in ensureRoleMembership(c1, tenant, "club_admin", seed["club_admin"])
            /\ IF seed["team_manager"] = NoEmail THEN c3 = c2
               ELSE c3 \in ensureRoleMembership(c2, tenant, "team_manager",
                                               seed["team_manager"])
            /\ c4 \in ensureRoleMembership(c3, tenant, "submitter_coach",
                                           seed["submitter_coach"])
            /\ b \in ensureOrganizationMembership(c4, tenant, seed["organization_admin"])
    BY SeedTenantSteps
  <1>2. ASSUME NEW c, Sound(c), NEW role \in Roles,
               NEW d \in ensureRoleMembership(c, tenant, role, seed[role])
        PROVE  Sound(d) /\ d.members[t] = c.members[t]
    <2>1. Sound(d)
      BY <1>2, EnsureRoleIsSound DEF Seeds
    <2>2. \E v \in UserIds : GivenTo(c, d, tenant, role, seed[role], v)
      BY <1>2, EnsureRoleEffect
    <2>3. DOMAIN c.members = Tenants
      BY <1>2 DEF Sound, Accounts
    <2> QED
      BY <2>1, <2>2, <2>3 DEF GivenTo
  <1>3. Sound(c1) /\ c1.members[t] = a.members[t]
    BY <1>1, <1>2
  <1>4. Sound(c2) /\ c2.members[t] = a.members[t]
    BY <1>1, <1>2, <1>3
  <1>5. Sound(c3) /\ c3.members[t] = a.members[t]
    BY <1>1, <1>2, <1>4
  <1>6. Sound(c4) /\ c4.members[t] = a.members[t]
    BY <1>1, <1>2, <1>5
  <1> QED
    BY <1>1, <1>6, EnsureOrganizationKeepsRoles

\* A start with a new submitter address renames the submitter, so that the
\* submissions stay attached, for any environments and whatever came before.
THEOREM SubmissionsAlwaysStayAttached == Spec => SubmissionsStayAttached
  <1>1. Inv /\ [Next]_vars =>
          [\A s \in Servers, u \in UserIds :
              LET seed == buildSeed(servers[s].env, "demo")
              IN  /\ Starts(s)
                  /\ HoldersOf(accounts, "demo", "submitter_coach") = {u}
                  /\ UserWith(accounts, seed["submitter_coach"]) = {}
                  /\ \A role \in Roles \ {"submitter_coach"} :
                         seed[role] # seed["submitter_coach"]
                  => HoldersOf(accounts', "demo", "submitter_coach") = {u}]_vars
    <2> SUFFICES ASSUME Inv, [Next]_vars, NEW s \in Servers, NEW u \in UserIds, Starts(s),
                        HoldersOf(accounts, "demo", "submitter_coach") = {u},
                        UserWith(accounts,
                                 buildSeed(servers[s].env, "demo")["submitter_coach"]) = {},
                        \A role \in Roles \ {"submitter_coach"} :
                            buildSeed(servers[s].env, "demo")[role] #
                                buildSeed(servers[s].env, "demo")["submitter_coach"]
                 PROVE  HoldersOf(accounts', "demo", "submitter_coach") = {u}
      OBVIOUS
    <2>1. servers[s].env \in Environments
      BY DEF Inv, TypeOK
    <2> DEFINE demo == buildSeed(servers[s].env, "demo")
               pilot == buildSeed(servers[s].env, "pilot")
    <2>2. demo \in Seeds /\ pilot \in Seeds
      BY <2>1, SeedIsTyped
    <2>3. PICK a \in SeedTenant(accounts, "demo", demo) :
              accounts' \in SeedTenant(a, "pilot", pilot)
      BY StartsSeed DEF SeedAndListen
    <2>4. Sound(accounts)
      BY AccountsAreSound
    <2> HIDE DEF demo, pilot
    <2>5. Sound(a)
      BY <2>2, <2>3, <2>4, SeedTenantIsSound
    <2>6. HoldersOf(a, "demo", "submitter_coach") = {u}
      BY <2>2, <2>3, <2>4, DemoPassKeepsSubmitter DEF demo
    <2>7. accounts'.members["demo"] = a.members["demo"]
      BY <2>2, <2>3, <2>5, PassLeavesOtherTenant
    <2> QED
      BY <2>6, <2>7 DEF HoldersOf
  <1> QED
    BY <1>1, InvAlways, PTL DEF Spec, SubmissionsStayAttached

-----------------------------------------------------------------------------
(* The submitter's address. *)

\* Members of a tenant have addresses of the tenant.
Apart(a) ==
    \A tenant \in Tenants : \A m \in a.members[tenant] :
        a.emailOf[m[1]] \in AddressesOf(tenant)

\* What statements for one tenant leave the other: its members and their addresses.
LeavesOther(a, b, tenant) ==
    \A t \in Tenants \ {tenant} :
        /\ b.members[t] = a.members[t]
        /\ \A m \in a.members[t] : b.emailOf[m[1]] = a.emailOf[m[1]]

LEMMA LeavesOtherTransitive ==
    ASSUME NEW a, NEW b, NEW c, NEW tenant,
           LeavesOther(a, b, tenant), LeavesOther(b, c, tenant)
    PROVE  LeavesOther(a, c, tenant)
  BY DEF LeavesOther

LEMMA AddressesAreTyped ==
    ASSUME NEW tenant \in Tenants PROVE AddressesOf(tenant) \subseteq Addresses
  <1>1. \A env \in Environments, slot \in Slots : buildSeed(env, tenant)[slot] \in Addresses
    BY SeedIsTyped DEF Seeds
  <1>2. \A seed \in Candidates \cup {Defaults["pilot"]}, slot \in Slots :
            seed[slot] \in Addresses
    BY DefaultsAssumption DEF Addresses
  <1> QED
    BY <1>1, <1>2 DEF AddressesOf

\* A role's statement: only members of its own tenant, or new users, get an address.
LEMMA EnsureRoleApart ==
    ASSUME SeparateTenants, NEW a, Sound(a), Apart(a), NEW tenant \in Tenants,
           NEW role \in Roles, NEW email \in AddressesOf(tenant),
           NEW b \in ensureRoleMembership(a, tenant, role, email)
    PROVE  /\ Sound(b) /\ Apart(b) /\ LeavesOther(a, b, tenant)
           /\ \E v \in UserIds : HoldersOf(b, tenant, role) = {v} /\ b.emailOf[v] = email
  <1>0. PICK v \in UserIds : GivenTo(a, b, tenant, role, email, v)
    BY EnsureRoleEffect
  <1>1. /\ a.members \in [Tenants -> SUBSET (UserIds \X Roles)]
        /\ a.emailOf \in [UserIds -> Addresses]
    BY DEF Sound, Accounts
  <1>2. /\ b.members[tenant] = {m \in a.members[tenant] : m[2] # role} \cup {<<v, role>>}
        /\ \A t \in Tenants \ {tenant} : b.members[t] = a.members[t]
        /\ b.emailOf[v] = email
        /\ \A u \in UserIds \ {v} : b.emailOf[u] = a.emailOf[u]
    BY <1>0, <1>1 DEF GivenTo
  <1>3. b.emailOf[v] = a.emailOf[v] \/ a.emailOf[v] = NoEmail
            \/ a.emailOf[v] \in AddressesOf(tenant)
    <2>1. \/ a.emailOf[v] = email
          \/ <<v, role>> \in a.members[tenant]
          \/ a.emailOf[v] = NoEmail
      BY <1>0 DEF GivenTo
    <2>2. <<v, role>> \in a.members[tenant] => a.emailOf[v] \in AddressesOf(tenant)
      <3> SUFFICES ASSUME <<v, role>> \in a.members[tenant]
                   PROVE  a.emailOf[v] \in AddressesOf(tenant)
        OBVIOUS
      <3>1. \A m \in a.members[tenant] : a.emailOf[m[1]] \in AddressesOf(tenant)
        BY DEF Apart
      <3>2. a.emailOf[<<v, role>>[1]] \in AddressesOf(tenant)
        BY <3>1
      <3> QED
        BY <3>2
    <2> QED
      BY <1>2, <2>1, <2>2
  <1>4. Sound(b)
    <2>1. email \in Addresses
      BY AddressesAreTyped
    <2> QED
      BY <2>1, EnsureRoleIsSound
  <1>5. LeavesOther(a, b, tenant)
    <2> SUFFICES ASSUME NEW t \in Tenants \ {tenant}, NEW m \in a.members[t]
                 PROVE  b.emailOf[m[1]] = a.emailOf[m[1]]
      BY <1>2 DEF LeavesOther
    <2>1. m[1] \in UserIds /\ a.emailOf[m[1]] \in AddressesOf(t)
      BY <1>1 DEF Apart
    <2>2. AddressesOf(t) \cap AddressesOf(tenant) = {} /\ NoEmail \notin AddressesOf(t)
      <3>1. t # tenant /\ t \in {"demo", "pilot"} /\ tenant \in {"demo", "pilot"}
        OBVIOUS
      <3>2. AddressesOf("demo") \cap AddressesOf("pilot") = {}
        BY DEF SeparateTenants
      <3>3. AddressesOf(t) \cap AddressesOf(tenant) = {}
        BY <3>1, <3>2
      <3> QED
        BY <3>3 DEF AddressesOf
    <2> QED
      BY <1>2, <1>3, <2>1, <2>2
  <1>6. Apart(b)
    <2> SUFFICES ASSUME NEW t \in Tenants, NEW m \in b.members[t]
                 PROVE  b.emailOf[m[1]] \in AddressesOf(t)
      BY DEF Apart
    <2>1. CASE t # tenant
      BY <1>2, <1>5, <2>1 DEF LeavesOther, Apart
    <2>2. CASE t = tenant
      <3>1. m[1] = v \/ (m \in a.members[t] /\ m[1] \in UserIds \ {v})
        BY <1>1, <1>2, <2>2
      <3>2. m \in a.members[t] => a.emailOf[m[1]] \in AddressesOf(t)
        BY DEF Apart
      <3> QED
        BY <1>2, <2>2, <3>1, <3>2
    <2> QED
      BY <2>1, <2>2
  <1>7. HoldersOf(b, tenant, role) = {v}
    BY <1>2 DEF HoldersOf
  <1> QED
    BY <1>2, <1>4, <1>5, <1>6, <1>7

\* Who has an address keeps it, and nobody changes roles.
LEMMA AddressesKept ==
    ASSUME NEW a, Sound(a), Apart(a), NEW b, b.members = a.members,
           \A u \in UserIds : a.emailOf[u] # NoEmail => b.emailOf[u] = a.emailOf[u],
           NEW tenant
    PROVE  Apart(b) /\ LeavesOther(a, b, tenant)
  <1>1. \A t \in Tenants : \A m \in a.members[t] : m[1] \in UserIds
    BY DEF Sound, Accounts
  <1>2. \A t \in Tenants : NoEmail \notin AddressesOf(t)
    BY DEF AddressesOf
  <1> QED
    BY <1>1, <1>2 DEF Apart, LeavesOther

\* An upsert of an address: members keep theirs.
LEMMA UpsertApart ==
    ASSUME NEW a, Sound(a), Apart(a), NEW email \in Addresses, NEW b \in upsertUser(a, email)
    PROVE  Sound(b) /\ Apart(b) /\ b.members = a.members
           /\ \A u \in UserIds : a.emailOf[u] # NoEmail => b.emailOf[u] = a.emailOf[u]
  <1>1. b = a \/ \E v \in NewUser(a) : b = Named(a, v, email)
    BY DEF upsertUser
  <1>2. /\ b.members = a.members
        /\ \A u \in UserIds : a.emailOf[u] # NoEmail => b.emailOf[u] = a.emailOf[u]
    <2> SUFFICES ASSUME NEW v \in NewUser(a), b = Named(a, v, email)
                 PROVE  /\ b.members = a.members
                        /\ \A u \in UserIds : a.emailOf[u] # NoEmail =>
                               b.emailOf[u] = a.emailOf[u]
      BY <1>1
    <2>1. a.emailOf[v] = NoEmail
      BY NewUserIsFree
    <2>2. /\ b.members = a.members
          /\ b.emailOf = [a.emailOf EXCEPT ![v] = email]
          /\ DOMAIN a.emailOf = UserIds
      BY DEF Named, Sound, Accounts
    <2> QED
      BY <2>1, <2>2
  <1>3. Apart(b)
    BY <1>2, AddressesKept
  <1> QED
    BY <1>2, <1>3, UpsertIsSound

\* A tenant's pass: members of both tenants have their tenant's addresses, and the
\* submitter's role is the holder's of the seed's address.
LEMMA PassApart ==
    ASSUME SeparateTenants, NEW a, Sound(a), Apart(a), NEW tenant \in Tenants, NEW seed,
           \A slot \in Slots \ {"team_manager"} : seed[slot] \in AddressesOf(tenant),
           seed["team_manager"] \in AddressesOf(tenant) \cup {NoEmail},
           NEW b \in SeedTenant(a, tenant, seed)
    PROVE  /\ Sound(b) /\ Apart(b) /\ LeavesOther(a, b, tenant)
           /\ \E v \in UserIds : /\ HoldersOf(b, tenant, "submitter_coach") = {v}
                                /\ b.emailOf[v] = seed["submitter_coach"]
  <1> DEFINE OK(c) == Sound(c) /\ Apart(c) /\ LeavesOther(a, c, tenant)
  <1>1. PICK c1, c2, c3, c4 :
            /\ c1 \in ensureRoleMembership(a, tenant, "club_comms", seed["club_comms"])
            /\ c2 \in ensureRoleMembership(c1, tenant, "club_admin", seed["club_admin"])
            /\ IF seed["team_manager"] = NoEmail THEN c3 = c2
               ELSE c3 \in ensureRoleMembership(c2, tenant, "team_manager",
                                               seed["team_manager"])
            /\ c4 \in ensureRoleMembership(c3, tenant, "submitter_coach",
                                           seed["submitter_coach"])
            /\ b \in ensureOrganizationMembership(c4, tenant, seed["organization_admin"])
    BY SeedTenantSteps
  <1>2. ASSUME NEW c, OK(c), NEW role \in Roles, seed[role] \in AddressesOf(tenant),
               NEW d \in ensureRoleMembership(c, tenant, role, seed[role])
        PROVE  /\ OK(d)
               /\ \E v \in UserIds : /\ HoldersOf(d, tenant, role) = {v}
                                    /\ d.emailOf[v] = seed[role]
    BY <1>2, EnsureRoleApart, LeavesOtherTransitive
  <1>3. OK(a)
    BY DEF LeavesOther
  <1> HIDE DEF OK
  <1>4. OK(c1)
    BY <1>1, <1>2, <1>3
  <1>5. OK(c2)
    BY <1>1, <1>2, <1>4
  <1>6. OK(c3)
    BY <1>1, <1>2, <1>5
  <1>7. /\ OK(c4)
        /\ \E v \in UserIds : /\ HoldersOf(c4, tenant, "submitter_coach") = {v}
                             /\ c4.emailOf[v] = seed["submitter_coach"]
    BY <1>1, <1>2, <1>6
  <1>8. /\ b.members = c4.members
        /\ \A u \in UserIds : c4.emailOf[u] # NoEmail => b.emailOf[u] = c4.emailOf[u]
    BY <1>1, <1>7, EnsureOrganizationKeepsRoles DEF OK
  <1>9. Apart(b) /\ LeavesOther(c4, b, tenant)
    BY <1>7, <1>8, AddressesKept DEF OK
  <1>10. LeavesOther(a, b, tenant)
    BY <1>7, <1>9, LeavesOtherTransitive DEF OK
  <1>11. Sound(b)
    <2>1. seed["organization_admin"] \in Addresses
      BY AddressesAreTyped
    <2> QED
      BY <1>1, <1>7, <2>1, EnsureOrganizationIsSound DEF OK
  <1>12. seed["submitter_coach"] # NoEmail
    BY DEF AddressesOf
  <1> QED
    BY <1>7, <1>8, <1>9, <1>10, <1>11, <1>12 DEF HoldersOf

\* The upserts of a reset or a candidate.
LEMMA UpsertAllApart ==
    ASSUME NEW a, Sound(a), Apart(a), NEW seed \in [Slots -> Emails],
           NEW b \in UpsertAll(a, seed)
    PROVE  Sound(b) /\ Apart(b)
  <1> DEFINE Upsert(states, slot) == UNION {upsertUser(c, seed[slot]) : c \in states}
             s1 == Upsert({a}, "submitter_coach")
             s2 == Upsert(s1, "club_comms")
             s3 == Upsert(s2, "club_admin")
             s4 == Upsert(s3, "team_manager")
             s5 == Upsert(s4, "organization_admin")
             OK(states) == \A c \in states : Sound(c) /\ Apart(c)
  <1>1. ASSUME NEW states, OK(states), NEW slot \in Slots PROVE OK(Upsert(states, slot))
    <2> SUFFICES ASSUME NEW d \in Upsert(states, slot) PROVE Sound(d) /\ Apart(d)
      OBVIOUS
    <2>1. PICK c \in states : d \in upsertUser(c, seed[slot])
      OBVIOUS
    <2>2. seed[slot] \in Addresses
      BY DEF Addresses
    <2> QED
      BY <1>1, <2>1, <2>2, UpsertApart
  <1>2. OK({a})
    OBVIOUS
  <1> HIDE DEF Upsert, OK
  <1>3. OK(s1)
    BY <1>1, <1>2
  <1> HIDE DEF s1
  <1>4. OK(s2)
    BY <1>1, <1>3
  <1> HIDE DEF s2
  <1>5. OK(s3)
    BY <1>1, <1>4
  <1> HIDE DEF s3
  <1>6. OK(s4)
    BY <1>1, <1>5
  <1> HIDE DEF s4
  <1>7. OK(s5)
    BY <1>1, <1>6
  <1>8. b \in s5
    BY DEF UpsertAll, Upsert, s5, s4, s3, s2, s1
  <1> QED
    BY <1>7, <1>8 DEF OK

\* Pilot members that a reset or a candidate adds have the seed's addresses; the demo
\* tenant is left alone.
LEMMA PilotMembersApart ==
    ASSUME NEW a, Sound(a), Apart(a), NEW seed,
           seed \in Candidates \cup {Defaults["pilot"]}, NEW b,
           b.emailOf = a.emailOf, b.members["demo"] = a.members["demo"],
           b.members["pilot"] \subseteq a.members["pilot"] \cup RolesOf(a, seed)
    PROVE  Apart(b)
  <1>1. seed \in [Slots -> Emails]
    BY DefaultsAssumption, PilotDefaultsAreNamed
  <1>2. \A slot \in Slots : seed[slot] \in AddressesOf("pilot")
    BY <1>1, DefaultsAssumption DEF AddressesOf
  <1>3. \A m \in RolesOf(a, seed) : a.emailOf[m[1]] \in AddressesOf("pilot")
    <2> SUFFICES ASSUME NEW m \in RolesOf(a, seed)
                 PROVE  a.emailOf[m[1]] \in AddressesOf("pilot")
      OBVIOUS
    <2>1. m[2] \in Roles /\ a.emailOf[m[1]] = seed[m[2]]
      BY DEF RolesOf
    <2> QED
      BY <1>2, <2>1
  <1> SUFFICES ASSUME NEW t \in Tenants, NEW m \in b.members[t]
               PROVE  b.emailOf[m[1]] \in AddressesOf(t)
    BY DEF Apart
  <1>4. CASE t = "demo"
    BY <1>4 DEF Apart
  <1>5. CASE t = "pilot"
    BY <1>3, <1>5 DEF Apart
  <1> QED
    BY <1>4, <1>5

\* What a reset, a candidate and its rollback leave.
LEMMA OperatorsKeepApart ==
    ASSUME NEW a, Sound(a), Apart(a), NEW seed \in Candidates \cup {Defaults["pilot"]}, NEW b,
           b \in Repaired(a, seed) \cup Added(a, seed) \cup {Removed(a, seed)}
    PROVE  Apart(b)
  <1>1. seed \in [Slots -> Emails]
    BY DefaultsAssumption, PilotDefaultsAreNamed
  <1>2. CASE b \in Repaired(a, seed)
    <2>1. PICK c \in UpsertAll(a, seed) :
              b = [c EXCEPT !.members["pilot"] = RolesOf(c, seed),
                            !.orgAdmins["pilot"] = UserWith(c, seed["organization_admin"])]
      BY <1>2 DEF Repaired
    <2>2. Sound(c) /\ Apart(c)
      BY <1>1, UpsertAllApart
    <2>3. /\ b.emailOf = c.emailOf
          /\ b.members = [c.members EXCEPT !["pilot"] = RolesOf(c, seed)]
          /\ c.members \in [Tenants -> SUBSET (UserIds \X Roles)]
      BY <2>1, <2>2 DEF Sound, Accounts
    <2>4. b.members["demo"] = c.members["demo"] /\ b.members["pilot"] = RolesOf(c, seed)
      BY <2>3
    <2> QED
      BY <2>2, <2>3, <2>4, PilotMembersApart
  <1>3. CASE b \in Added(a, seed)
    <2>1. PICK c \in UpsertAll(a, seed) :
              b = [c EXCEPT !.members["pilot"] = @ \cup RolesOf(c, seed),
                            !.orgAdmins["pilot"] =
                                @ \cup UserWith(c, seed["organization_admin"])]
      BY <1>3 DEF Added
    <2>2. Sound(c) /\ Apart(c)
      BY <1>1, UpsertAllApart
    <2>3. /\ b.emailOf = c.emailOf
          /\ b.members = [c.members EXCEPT !["pilot"] = @ \cup RolesOf(c, seed)]
          /\ c.members \in [Tenants -> SUBSET (UserIds \X Roles)]
      BY <2>1, <2>2 DEF Sound, Accounts
    <2>4. /\ b.members["demo"] = c.members["demo"]
          /\ b.members["pilot"] = c.members["pilot"] \cup RolesOf(c, seed)
      BY <2>3
    <2> QED
      BY <2>2, <2>3, <2>4, PilotMembersApart
  <1>4. CASE b = Removed(a, seed)
    <2>1. /\ b.emailOf = a.emailOf
          /\ b.members = [a.members EXCEPT !["pilot"] =
                  {m \in @ : \A role \in Roles : a.emailOf[m[1]] # seed[role]}]
          /\ a.members \in [Tenants -> SUBSET (UserIds \X Roles)]
      BY <1>4 DEF Removed, Sound, Accounts
    <2>2. /\ b.members["demo"] = a.members["demo"]
          /\ b.members["pilot"] \subseteq a.members["pilot"]
      BY <2>1
    <2> QED
      BY <2>1, <2>2, PilotMembersApart
  <1> QED
    BY <1>2, <1>3, <1>4

\* What the environments, over the defaults, name for a tenant's slots.
LEMMA SeedIsOfTenant ==
    ASSUME NEW env \in Environments, NEW tenant \in Tenants
    PROVE  LET seed == buildSeed(env, tenant)
           IN  /\ \A slot \in Slots \ {"team_manager"} : seed[slot] \in AddressesOf(tenant)
               /\ seed["team_manager"] \in AddressesOf(tenant) \cup {NoEmail}
  <1> DEFINE seed == buildSeed(env, tenant)
  <1>1. \A slot \in Slots : seed[slot] \in AddressesOf(tenant) \cup {NoEmail}
    BY DEF AddressesOf
  <1>2. ASSUME NEW slot \in Slots \ {"team_manager"} PROVE seed[slot] # NoEmail
    <2>1. slot \in DOMAIN env[tenant] => env[tenant][slot] # NoEmail
      BY EnvironmentsAssumption, DefaultsAssumption
    <2>2. slot # "club_admin" => Defaults[tenant][slot] # NoEmail
      BY DefaultsAssumption
    <2>3. Defaults[tenant]["club_comms"] # NoEmail
      BY DefaultsAssumption
    <2> QED
      BY <2>1, <2>2, <2>3 DEF buildSeed
  <1> HIDE DEF seed
  <1>3. "team_manager" \in Slots
    OBVIOUS
  <1>4. \A slot \in Slots \ {"team_manager"} : seed[slot] \in AddressesOf(tenant)
    BY <1>1, <1>2
  <1> QED
    BY <1>1, <1>3, <1>4 DEF seed

\* A start, both passes.
LEMMA StartApart ==
    ASSUME SeparateTenants, Inv, Apart(accounts), NEW s \in Servers, SeedAndListen(s)
    PROVE  /\ Apart(accounts')
           /\ \E u \in UserIds :
                 /\ HoldersOf(accounts', "demo", "submitter_coach") = {u}
                 /\ accounts'.emailOf[u] =
                        buildSeed(servers[s].env, "demo")["submitter_coach"]
  <1> DEFINE demo == buildSeed(servers[s].env, "demo")
             pilot == buildSeed(servers[s].env, "pilot")
  <1>1. servers[s].env \in Environments
    BY DEF Inv, TypeOK
  <1>2. /\ \A slot \in Slots \ {"team_manager"} : demo[slot] \in AddressesOf("demo")
        /\ demo["team_manager"] \in AddressesOf("demo") \cup {NoEmail}
    BY <1>1, SeedIsOfTenant
  <1>3. /\ \A slot \in Slots \ {"team_manager"} : pilot[slot] \in AddressesOf("pilot")
        /\ pilot["team_manager"] \in AddressesOf("pilot") \cup {NoEmail}
    BY <1>1, SeedIsOfTenant
  <1>4. PICK a \in SeedTenant(accounts, "demo", demo) :
            accounts' \in SeedTenant(a, "pilot", pilot)
    BY DEF SeedAndListen
  <1>5. Sound(accounts)
    BY AccountsAreSound
  <1> HIDE DEF demo, pilot
  <1>6. /\ Sound(a) /\ Apart(a)
        /\ \E u \in UserIds : /\ HoldersOf(a, "demo", "submitter_coach") = {u}
                             /\ a.emailOf[u] = demo["submitter_coach"]
    BY <1>2, <1>4, <1>5, PassApart
  <1>7. Apart(accounts') /\ LeavesOther(a, accounts', "pilot")
    BY <1>3, <1>4, <1>6, PassApart
  <1>8. PICK u \in UserIds : /\ HoldersOf(a, "demo", "submitter_coach") = {u}
                            /\ a.emailOf[u] = demo["submitter_coach"]
    BY <1>6
  <1>9. <<u, "submitter_coach">> \in a.members["demo"]
    BY <1>8 DEF HoldersOf
  <1>10. /\ accounts'.members["demo"] = a.members["demo"]
         /\ \A m \in a.members["demo"] : accounts'.emailOf[m[1]] = a.emailOf[m[1]]
    BY <1>7 DEF LeavesOther
  <1>11. accounts'.emailOf[<<u, "submitter_coach">>[1]] = a.emailOf[<<u, "submitter_coach">>[1]]
    BY <1>9, <1>10
  <1>12. accounts'.emailOf[u] = demo["submitter_coach"]
    BY <1>8, <1>11
  <1>13. HoldersOf(accounts', "demo", "submitter_coach") = {u}
    BY <1>8, <1>10 DEF HoldersOf
  <1> QED
    BY <1>7, <1>12, <1>13 DEF demo

LEMMA ApartStep ==
    ASSUME SeparateTenants, Inv, Apart(accounts), [Next]_vars
    PROVE  Apart(accounts')
  <1>1. Sound(accounts)
    BY AccountsAreSound
  <1>2. CASE UNCHANGED accounts
    BY <1>2
  <1>3. ASSUME NEW s \in Servers, SeedAndListen(s) PROVE Apart(accounts')
    BY <1>3, StartApart
  <1>4. CASE FinishReset
    BY <1>1, <1>4, OperatorsKeepApart DEF FinishReset
  <1>5. ASSUME NEW seed \in Candidates, ApplyCandidate(seed) \/ RollBackCandidate(seed)
        PROVE  Apart(accounts')
    BY <1>1, <1>5, OperatorsKeepApart DEF ApplyCandidate, RollBackCandidate
  <1> QED
    BY <1>2, <1>3, <1>4, <1>5 DEF Next, vars, Deploy, LockTables, AbortDeadlocked, BeginReset,
                                  EditPolicy

\* Every start leaves the submitter's role with one user, whose address is the
\* configured one: no later statement of the start, for the pilot tenant, takes it
\* away. Provided that no address is named for both tenants.
THEOREM SubmitterInboxAlwaysApplied ==
    ASSUME SeparateTenants
    PROVE  Spec => SubmitterInboxApplied
  <1>1. Init => Apart(accounts)
    BY DEF Init, Apart
  <1>2. Inv /\ Apart(accounts) /\ [Next]_vars => Apart(accounts)'
    BY ApartStep
  <1>3. Inv /\ Apart(accounts) /\ [Next]_vars =>
          [\A s \in Servers : Starts(s) =>
              \E u \in UserIds :
                  /\ HoldersOf(accounts', "demo", "submitter_coach") = {u}
                  /\ accounts'.emailOf[u] =
                         buildSeed(servers[s].env, "demo")["submitter_coach"]]_vars
    BY StartsSeed, StartApart
  <1>4. Spec => []Apart(accounts)
    BY <1>1, <1>2, InvAlways, PTL DEF Spec
  <1> QED
    BY <1>3, <1>4, InvAlways, PTL DEF Spec, SubmitterInboxApplied

=============================================================================
