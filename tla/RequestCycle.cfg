SPECIFICATION FairSpec

CONSTANTS
    Requests = {r1, r2}
    Contexts = {c1, c2}
    None = None

INVARIANT TypeOK
INVARIANT SoleAnswer
INVARIANT ServerNeverWaits

PROPERTY StartsWhileOpen
PROPERTY EveryoneIsAnswered
