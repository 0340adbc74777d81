---------------------------- MODULE PushTokens ------------------------------
(* Push registrations: the effect by which the app registers a device for the
   address in use (App.js, pushRegistration.js), and the API's append-only log of
   registrations in audit_logs (push-tokens.js), of which the latest row of an
   installation counts.

   An installation id names the address and the platform, not the device. The
   API's transaction is one step: its rows carry the time it began, which orders
   registrations as well as the time it commits does. *)
EXTENDS Naturals, Sequences, FiniteSets

CONSTANTS
    Users,          \* addresses that have an account
    Devices,        \* a device's push token is the device
    PlatformOf,     \* the platform each device runs
    Nobody,         \* no address: a role that sees no submissions
    MaxSwitches,    \* bound: changes of the address in use
    MaxRevokes      \* bound: rows with enabled = false

ASSUME PushAssumption ==
    /\ Nobody \notin Users \cup Devices
    /\ MaxSwitches \in Nat /\ MaxRevokes \in Nat

VARIABLES
    pushLog,        \* rows push_token.upserted and push_token.revoked
    device,         \* per device: address, run of the effect, status line
    requests        \* calls of POST /push-tokens, from a device's effect

pushVars == <<pushLog, device, requests>>

Platforms == {PlatformOf[d] : d \in Devices}
Rows == [user : Users, platform : Platforms, token : Devices \cup {Nobody}]

PushTypeOK ==
    /\ pushLog \in Seq(Rows)
    /\ device \in [Devices -> [user : Users \cup {Nobody}, effect : Nat,
                               status : {"none", "ready"}]]
    /\ requests \subseteq [device : Devices, user : Users, effect : Nat,
                           state : {"sent", "accepted", "lost"}]

\* Mutant: rows push_token.revoked are not looked at.
IsLatestUpsert(i, length) ==
    /\ pushLog[i].token # Nobody
    /\ \A j \in i + 1 .. length :
           \/ <<pushLog[j].user, pushLog[j].platform>> # <<pushLog[i].user, pushLog[i].platform>>
           \/ pushLog[j].token = Nobody

\* DISTINCT ON the installation, latest first, among the log's first rows.
IsLatest(i, length) ==
    \A j \in i + 1 .. length :
        <<pushLog[j].user, pushLog[j].platform>> # <<pushLog[i].user, pushLog[i].platform>>

listActivePushRegistrations(user) ==
    {pushLog[i].token : i \in {k \in DOMAIN pushLog : /\ IsLatest(k, Len(pushLog))
                                                      /\ pushLog[k].user = user}} \ {Nobody}

PushInit ==
    /\ pushLog = <<>>
    /\ device = [d \in Devices |-> [user |-> Nobody, effect |-> 0, status |-> "none"]]
    /\ requests = {}

\* The role or its address changes: the effect runs anew and registers, except
\* for a role without submissions. The status line stays until the answer.
UseAddress(d, user) ==
    /\ device[d].effect < MaxSwitches
    /\ device[d].user # user
    /\ device' = [device EXCEPT ![d] = [user |-> user, effect |-> @.effect + 1,
                                        status |-> IF user = Nobody THEN "none" ELSE @.status]]
    /\ requests' = IF user = Nobody THEN requests
                   ELSE requests \cup {[device |-> d, user |-> user, state |-> "sent",
                                        effect |-> device[d].effect + 1]}
    /\ UNCHANGED pushLog

\* POST /push-tokens: the row is committed.
registerPushToken(r) ==
    /\ r \in requests /\ r.state = "sent"
    /\ pushLog' = Append(pushLog, [user |-> r.user, platform |-> PlatformOf[r.device],
                                   token |-> r.device])
    /\ requests' = (requests \ {r}) \cup {[r EXCEPT !.state = "accepted"]}
    /\ UNCHANGED device

\* The call fails, or only its answer is lost.
RequestLost(r) ==
    /\ r \in requests /\ r.state # "lost"
    /\ requests' = (requests \ {r}) \cup {[r EXCEPT !.state = "lost"]}
    /\ UNCHANGED <<pushLog, device>>

\* Mutant: the answer's reason is shown as it is.
AnsweredReason(r) ==
    /\ r \in requests /\ r.state # "sent"
    /\ requests' = requests \ {r}
    /\ device' = [device EXCEPT ![r.device].status =
                     IF r.effect # device[r.device].effect THEN @
                     ELSE IF r.state = "accepted" THEN "ready" ELSE r.state]
    /\ UNCHANGED pushLog

\* Mutant: without isCurrent.
AnsweredAnyRun(r) ==
    /\ r \in requests /\ r.state # "sent"
    /\ requests' = requests \ {r}
    /\ device' = [device EXCEPT ![r.device].status =
                     IF r.state = "accepted" THEN "ready" ELSE "none"]
    /\ UNCHANGED pushLog

\* The app gets the answer; a former run of the effect ignores it.
Answered(r) ==
    /\ r \in requests /\ r.state # "sent"
    /\ requests' = requests \ {r}
    /\ device' = [device EXCEPT ![r.device].status =
                     IF r.effect # device[r.device].effect THEN @
                     ELSE IF r.state = "accepted" THEN "ready" ELSE "none"]
    /\ UNCHANGED pushLog

RevokedRows == {i \in DOMAIN pushLog : pushLog[i].token = Nobody}

\* POST /push-tokens with enabled = false, which no screen of the app sends.
Revoke(user, platform) ==
    /\ Cardinality(RevokedRows) < MaxRevokes
    /\ pushLog' = Append(pushLog, [user |-> user, platform |-> platform, token |-> Nobody])
    /\ UNCHANGED <<device, requests>>

PushNext ==
    \/ \E d \in Devices, user \in Users \cup {Nobody} : UseAddress(d, user)
    \/ \E r \in requests : registerPushToken(r) \/ RequestLost(r) \/ Answered(r)
    \/ \E user \in Users, platform \in Platforms : Revoke(user, platform)

-----------------------------------------------------------------------------
\* A user has one device of a platform.
OneDevicePerPlatform == \A d, e \in Devices : PlatformOf[d] = PlatformOf[e] => d = e

\* A device that says "Push alerts ready", with the run of its effect over, has an
\* address and is where the pushes for it go, if a user has one device per
\* platform: late answers of former runs and registrations of other addresses never
\* hide that. Unless a revocation came later.
PushReadyIsRegistered ==
    \A d \in Devices :
        LET user == device[d].user
        IN  /\ device[d].status = "ready"
            /\ \A r \in requests : r.device = d => r.effect # device[d].effect
            => /\ user # Nobody
               /\ \/ d \in listActivePushRegistrations(user)
                  \/ \E i \in RevokedRows : /\ IsLatest(i, Len(pushLog))
                                            /\ pushLog[i].user = user
                                            /\ pushLog[i].platform = PlatformOf[d]
=============================================================================
