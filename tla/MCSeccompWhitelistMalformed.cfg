CONSTANTS
    Profiles <- MCProfiles
    Known = {"futex", "socket"}
    Builtins <- MCBuiltins
    Numerals <- MCNumerals
    NoValue = NoValue
    ArgSlots = {0, 1, 5}
    Values = {0, 1, 2, 3}
    Arches = {"amd64", "386"}

SPECIFICATION Spec

INVARIANT ExportOnlyValid
