SPECIFICATION SpecFile
CONSTANTS
    Ids = {r1, r2}
    RequestThreads = {"web1"}
    Inodes = {n1, n2, n3, n4}
    NoInode = NoInode
    FileFaults = {"save", "crash"}
    MaxFileFaults = 1
SYMMETRY Symmetry
INVARIANTS
    SafeWithoutOverlap
PROPERTIES
    TableUntilOverlap
