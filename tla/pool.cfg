SPECIFICATION LiveSpec
CONSTANTS
    r1 = r1
    Routers = {r1}
    MaxKeys = 2
    Specs <- SpecChoices
    MaxEdits = 2
    MaxRestarts = 1
    MaxLag = 2
INVARIANTS
    TemplateKey
    ReadyInPlace
    PoolHasTemplate
PROPERTIES
    FollowsSpec
CHECK_DEADLOCK FALSE
