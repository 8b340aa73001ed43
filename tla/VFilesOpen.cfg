SPECIFICATION Spec
CONSTANTS
    n1 = n1
    n2 = n2
    n3 = n3
    Names <- MCNames
    Fold <- MCFold
    Dirs <- MCDirs
    Buckets <- MCBuckets
    Bucket <- MCApart
    MaxVNode = 4
    MaxFD = 2
    MaxFile = 4
INVARIANT OpenIsOnDisk
