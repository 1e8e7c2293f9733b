\* Two admins, two admin requests at a time; nobody leaves.
SPECIFICATION Spec
CONSTANTS
    Users = {ann, bob}
    Founders = {ann, bob}
    Leavers = {}
    Workers = {w1, w2}
    Office = {w1, w2}
    MaxSessions = 1
    MaxTokens = 1
    MaxSecrets = 1
INVARIANTS
    HasAdmin
CHECK_DEADLOCK FALSE
