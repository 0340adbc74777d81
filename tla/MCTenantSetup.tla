-------------------------- MODULE MCTenantSetup ---------------------------
(* Instances of TenantSetup for TLC. *)
EXTENDS TenantSetup, TLC

\* defaultDemoSeed names no club admin and no team manager.
DemoDefaults ==
    [slot \in Slots |->
        CASE slot = "club_comms" -> "comms@demo"
          [] slot = "submitter_coach" -> "coach@demo"
          [] slot = "organization_admin" -> "org@demo"
          [] OTHER -> NoEmail]
PilotDefaults ==
    [slot \in Slots |->
        CASE slot = "club_comms" -> "comms@pilot"
          [] slot = "club_admin" -> "admin@pilot"
          [] slot = "team_manager" -> "manager@pilot"
          [] slot = "submitter_coach" -> "coach@pilot"
          [] OTHER -> "org@pilot"]
MCDefaults == [tenant \in Tenants |-> IF tenant = "demo" THEN DemoDefaults ELSE PilotDefaults]

Unset == [slot \in {} |-> NoEmail]
NothingSet == [tenant \in Tenants |-> Unset]
Demo(slots) == [NothingSet EXCEPT !["demo"] = slots]
Pilot(slots) == [NothingSet EXCEPT !["pilot"] = slots]

\* README, "VPS enablement steps" 2 and 3: an inbox of the operator's.
SubmitterInbox == Demo("submitter_coach" :> "inbox")
\* An address that is another user's; addresses for all roles; other pilot people.
\* No address serves both tenants.
SubmitterIsReviewer == Demo("submitter_coach" :> "comms@demo")
OwnPeople == Demo("club_comms" :> "inbox" @@ "club_admin" :> "boss"
                  @@ "team_manager" :> "boss" @@ "organization_admin" :> "boss")
PilotPeople == Pilot("club_comms" :> "lead" @@ "organization_admin" :> "lead")

DemoEnvironments == {NothingSet, SubmitterInbox, SubmitterIsReviewer, OwnPeople}
MCEnvironments == DemoEnvironments \cup {PilotPeople}
\* A candidate club that keeps the pilot's coach and brings its own reviewer.
Candidate == [PilotDefaults EXCEPT !["club_comms"] = "lead", !["team_manager"] = "lead",
                                   !["organization_admin"] = "lead"]
MCCandidates == {Candidate}

MCEmails == ({MCDefaults[tenant][slot] : tenant \in Tenants, slot \in Slots}
                \cup {"inbox", "boss", "lead"}) \ {NoEmail}
MCUserIds == 1 .. Cardinality(MCEmails)

\* What SubmitterInboxAlwaysApplied supposes of the addresses.
ASSUME AddressesAssumption == SeparateTenants
=============================================================================
