CONSTANTS
    h1 = h1
    h2 = h2
    h3 = h3
    i1 = i1
    Hosts = {h1, h2}
    Instances = {i1}
    CycleMod = 2
    ReadAfterWrite = FALSE
    LoadMayFail = FALSE
SPECIFICATION FairSpec
PROPERTIES
    LockGranted
    OwnerResumes
