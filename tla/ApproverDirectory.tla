------------------------- MODULE ApproverDirectory -------------------------
(***************************************************************************)
(* The memberships of a club, and the three queries over them: the worker  *)
(* picks the first-stage approver, the API picks the second-stage one, and *)
(* the API decides who may act on an approval request.                     *)
(***************************************************************************)
EXTENDS WorkflowPolicy, FiniteSets

CONSTANTS
    Memberships     \* rows [user, role, team, since] of one club; team may be Null

Users == {m.user : m \in Memberships}
Approver == [user : Users, role : ReviewerRoles]

\* created_at orders the rows, and SQL NULL is no row.
ASSUME MembershipAssumption ==
    /\ \A rows \in SUBSET Memberships :
          rows # {} => \E m \in rows : \A n \in rows : m.since <= n.since
    /\ Null \notin Approver

\* The roles tried in turn; the role found is the one the request records.
FallbackRoles(preferred) == <<preferred, "club_comms", "club_admin">>

\* ORDER BY created_at ASC LIMIT 1
Oldest(rows) == CHOOSE m \in rows : \A n \in rows : m.since <= n.since

\* A membership with no team serves the whole club, a submission with no team
\* is served by every team's members.
InScope(m, team) == m.team = Null \/ m.team = team \/ team = Null

\* The first role of the chain that somebody holds, as [user, role], else Null.
FirstHolder(candidates, preferred) ==
    LET roles == FallbackRoles(preferred)
        held == {i \in DOMAIN roles : \E m \in candidates : m.role = roles[i]}
        first == CHOOSE i \in held : \A j \in held : i <= j
    IN  IF held = {}
        THEN Null
        ELSE [user |-> Oldest({m \in candidates : m.role = roles[first]}).user,
              role |-> roles[first]]

\* The worker's query ignores the submission's team ...
findApprover(preferred) == FirstHolder(Memberships, preferred)

\* ... the API's query for the second stage does not.
findApprovalStageApprover(preferred, team) ==
    FirstHolder({m \in Memberships : InScope(m, team)}, preferred)

\* loadAuthorizedApprovalActor: the assigned role or club_admin, in scope.
MayActOn(user, approverRole, team) ==
    \E m \in Memberships :
        /\ m.user = user
        /\ m.role \in {approverRole, "club_admin"} \cap ReviewerRoles
        /\ InScope(m, team)

=============================================================================
