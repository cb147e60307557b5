CONSTANTS
    Files <- MCFiles
    Names <- MCNames
    NoFile <- MCNoFile
    searchPaths <- MCSearchPaths
    Join <- MCJoin
    Inputs <- MCInputs

SPECIFICATION Spec

INVARIANT TypeOK
PROPERTY ResolveRefinesSpec
