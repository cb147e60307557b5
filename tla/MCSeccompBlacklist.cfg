CONSTANTS
    Arches = {"amd64", "386"}
    syscallBlacklist <- MCList
    Resolvables <- MCResolvables

SPECIFICATION Spec

INVARIANT TypeOK
INVARIANT DeniesExactlyList
