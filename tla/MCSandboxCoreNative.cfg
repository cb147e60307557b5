CONSTANTS
    Caches <- MCCaches
    HdrOff = HdrOff
    HdrString <- MCHdrString
    Arches = {"amd64"}
    Files <- MCFiles
    Names <- MCNames
    NoFile <- MCNoFile
    searchPaths <- MCSearchPaths
    Join <- MCJoin
    Requests <- MCRequests
    Inputs <- MCInputs

SPECIFICATION Spec

INVARIANT MountsOnlyNative
