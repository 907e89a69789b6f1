SPECIFICATION Spec
CONSTANTS
    Char = {c1}
    Arena = {a1, a2}
    MaxMatch = 3
    SqlFailures = {"save", "rank"}
SYMMETRY Symmetry
INVARIANTS TypeOK RegistryConsistent SlotsOwnMatches CounterCoversMatches OpenMatchNotSaved RankingBounded
PROPERTIES StatusOrder
