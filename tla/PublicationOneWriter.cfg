\* Two publishers and a cleaner taking turns, two readers, no power loss.
CONSTANTS
    Publishers = {p1, p2}
    Cleaners = {cleaner}
    Readers = {r1}
    Generations = {g1, g2, g3}
    Contents = {c1, c2, skewed, unusable}
    Collectable = {c1, c2, skewed}
    Canonical = {c1, c2}
    SingleWriter = TRUE
    PowerLoss = FALSE
    None = None
    Missing = Missing
    Torn = Torn
    Failure = Failure
SPECIFICATION Spec
INVARIANTS TypeOK GenerationsLoad AtMostOneStaging
PROPERTIES CleanupScoped ReturnsOwn ImplementsPublishedIndex
CHECK_DEADLOCK FALSE
