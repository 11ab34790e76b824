CONSTANTS
    w1 = w1
    w2 = w2
    worker = worker
    Thread = {w1, w2, worker}
    Web = {w1, w2}
    AutoFollow <- FollowsContributions
    MaxTurns = 4
    MaxAttempts = 2
SPECIFICATION SpecAsked
INVARIANTS
    AtMostOneFollow
CHECK_DEADLOCK FALSE
