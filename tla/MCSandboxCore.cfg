CONSTANTS
    Caches <- MCCaches
    HdrOff = HdrOff
    HdrString <- MCHdrString
    Arches = {"amd64", "386"}
    Files <- MCFiles
    Names <- MCNames
    NoFile <- MCNoFile
    searchPaths <- MCSearchPaths
    Join <- MCJoin
    Requests <- MCRequests
    Inputs <- MCInputs

SPECIFICATION Spec

INVARIANT TypeOK
INVARIANT StoreMatchesFile
INVARIANT MountsFirstRetained
