SPECIFICATION Spec

CONSTANTS
    Users = {u1, u2}
    Emails = {e1}
    Signups = {s1, s2}
    Links = {l1, l2}
    Codes = {c1, c2}
    Writers = {w1, w2}
    MaxAttempts = 2
    None = None
    Chars <- Spellings
    Default <- DefaultSpelling
    Kept <- KeptSpellings
    RawURLs <- URLs
    Files <- CSVFiles

SYMMETRY Symmetry

INVARIANT TypeOK
INVARIANT SignupsAreTrue
INVARIANT ShortenIsOnce
INVARIANT ImportIsTrue
 

PROPERTY DeletionIsWhole
PROPERTY ImplementsStore
