SPECIFICATION Spec
CONSTANTS
    solver1 = solver1
    solver2 = solver2
    Runner = {r1, r2}
    NoRunner = NoRunner
    NoFile = NoFile
    NoRecord = NoRecord
    JobCount = 3
    Artifact = {solver1, solver2}
    Uses <- ThreeJobs
    MaxStops = 1
    MaxLosses = 1
    MaxDrifts = 2
CHECK_DEADLOCK FALSE
INVARIANTS
    JournalLoads
    PublishedIsTheJournal
    DriftIsCaught
PROPERTIES
    Immutable
    Resumes
