SPECIFICATION Spec
CONSTANTS
    ann = ann
    phone = phone
    review = review
    publish = publish
    Users = {ann}
    Devices = {phone}
    PlatformOf <- SmallPlatformOf
    Nobody = Nobody
    MaxSwitches = 2
    MaxRevokes = 1
    Jobs = {review, publish}
    UserOf <- SmallUserOf
    TypeOf <- SmallTypeOf
    Rules <- SmallRules
    EmailSet = TRUE
    PushMode = "expo"
    Channels = {"email", "push"}
    MaxAttempts = 2
    MaxWebhooks = 2
CHECK_DEADLOCK FALSE
INVARIANTS
    TypeOK
    StatusIsOfOwnMail
    StoredOutcomeIsTrue
    SwitchedOffIsSilent
    RevokedDeviceIsSilent
    PushReadyIsRegistered
PROPERTIES
    KeepsThePromise
