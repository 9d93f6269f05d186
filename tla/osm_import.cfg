SPECIFICATION Spec
CONSTANTS
    r1 = r1 r2 = r2
    s1 = s1 s2 = s2 s3 = s3
    c1 = c1 c2 = c2
    g1 = g1 g2 = g2 g3 = g3 g4 = g4
    None = None
    Relations = {r1, r2}
    Nodes = {s1, s2, s3}
    Codes = {c1, c2}
    Geometries = {g1, g2, g3, g4}
    Datasets <- MCDatasets
    DbMayFail = TRUE
    MaxRuns = 3
INVARIANTS
    TypeOK
    ForcedImportIsExact
    OneWayShapeIsCurrent
    SequencesAreUnique
PROPERTY
    UnforcedKeeps
CHECK_DEADLOCK FALSE
