\* Two backups, restored in any order, and two verifiers of the same one.
CONSTANTS
    p1 = p1
    v1 = v1
    v2 = v2
    Packages = {p1}
    Verifiers = {v1, v2}
    KeepLatest = 1
    MaxTime = 6
    MaxAnchors = 1
    MaxBackups = 2
SPECIFICATION Spec
SYMMETRY Symmetry
INVARIANT BackupTypeOK
INVARIANT AnchoredIsKept
INVARIANT ManifestIsPrefix
INVARIANT FirstVerdictStands
INVARIANT NewestAreKept
CHECK_DEADLOCK FALSE
