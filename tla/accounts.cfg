\* Two workers, of which none, one or both serve admins; any two requests overlap.
SPECIFICATION MCSpec
CONSTANTS
    Users = {ann, bob, cat}
    Newcomer = cat
    Founders = {ann, bob}
    Leavers = {cat}
    Workers = {w1, w2}
    Office = {w1, w2}
    MaxSessions = 2
    MaxTokens = 3
    MaxSecrets = 2
SYMMETRY Staff
INVARIANTS
    TypeOK
    RevokedEverywhere
    ResetShutsOut
    AdminLostInTheGap
CHECK_DEADLOCK FALSE
