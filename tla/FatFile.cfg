SPECIFICATION FatSpec
CONSTANTS
    f1 = f1
    f2 = f2
    Files = {f1, f2}
    Dir = Dir
    NoFile = NoFile
    NewDirs = {d1}
    FDs = {h1, h2}
    LastCluster = 7
    ClusterUnits = 2
    Sizes = {4}
    MaxIO = 4
    SeekPlaces <- MCPlaces
    Disks <- MCDisks
    DirGrows = FALSE
SYMMETRY Symmetry
INVARIANTS
    ChainsApart
    CursorsRight
PROPERTIES
    FilesKept
