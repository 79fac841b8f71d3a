CONSTANTS
    Streams = {"stdout"}
    Configs <- Everything
SPECIFICATION Spec
INVARIANTS TypeOK VerdictInv TruthfulReports MemoryKillShown FinalVerdict OneVerdict MatchesKept
