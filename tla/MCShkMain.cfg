SPECIFICATION Spec
CONSTANTS
    p1 = p1
    p2 = p2
    i1 = i1
    i2 = i2
    i3 = i3
    NoInode = NoInode
    Processes = {p1, p2}
    Inodes = {i1, i2, i3}
    Projects <- MCProjects
    CycleLimit = 2
INVARIANT LogIsExclusive
PROPERTY CompileIsRight
PROPERTY ManifestIsCurrent
PROPERTY BuildIsRegenerated
PROPERTY ProcessesFinish
CHECK_DEADLOCK FALSE
