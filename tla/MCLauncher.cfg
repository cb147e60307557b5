CONSTANTS
    p1 = p1
    p2 = p2
    p3 = p3
    Procs <- MCProcs
    ConfigInputs <- MCConfigInputs
    ValidPorts <- MCValidPorts
SYMMETRY MCSymmetry
SPECIFICATION Spec
INVARIANT TypeOK
INVARIANT MutualExclusion
INVARIANT LoadedConfigUsable
INVARIANT LockStaleOnlyAfterKill

