----------------------- MODULE MCNotificationDelivery ------------------------
(* Ann is told of a review and of a publication, while her phone registers, changes
   to a role without submissions, and is revoked. *)
EXTENDS NotificationDelivery, TLC

CONSTANTS ann, phone, review, publish

SmallPlatformOf == phone :> "ios"
SmallUserOf == review :> ann @@ publish :> ann
SmallTypeOf == review :> "submission_changes_requested" @@ publish :> "submission_published"

\* Both channels switched off although an event says otherwise, and an event
\* switched off alone; absent keys allow.
SmallRules ==
    {[email |-> FALSE, push |-> FALSE,
      eventChannels |-> [submission_published |-> [email |-> TRUE, push |-> TRUE]]],
     [eventChannels |-> [submission_changes_requested |-> [push |-> FALSE]]]}

\* What ReadyStaysRegistered supposes of the devices.
ASSUME DevicesAssumption == OneDevicePerPlatform
=============================================================================
