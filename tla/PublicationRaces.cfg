\* Two publishers at once, each sweeping staging first, on a machine that may lose power.
CONSTANTS
    Publishers = {p1, p2}
    Cleaners = {}
    Readers = {}
    Generations = {g1, g2}
    Contents = {c1, c2, skewed}
    Collectable = {c1, c2, skewed}
    Canonical = {c1, c2}
    SingleWriter = FALSE
    PowerLoss = TRUE
    None = None
    Missing = Missing
    Torn = Torn
    Failure = Failure
SPECIFICATION Spec
INVARIANTS DamageOnlyTakesAway CurrentWasRenamed
SYMMETRY Symmetry
CHECK_DEADLOCK FALSE
