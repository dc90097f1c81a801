SPECIFICATION Spec

CONSTANTS
    Requests = {r1, r2}
    Contexts = {c1, c2}
    None = None

INVARIANT AtMostOneBody
