SPECIFICATION MCSpec
CONSTANTS
    c1 = c1
    c2 = c2
    p1 = p1
    p2 = p2
    d1 = d1
    d2 = d2
    g1 = g1
    Never = Never
    NoRow = NoRow
    Codes = {c1, c2}
    Shortens = {p1, p2}
    Resolves = {g1}
    Deactivates = {d1, d2}
    TimeToLive <- MCTimeToLive
    MaxGenerationAttempts = 2
    MaxTime = 2
INVARIANT IntegrityErrorRetried
