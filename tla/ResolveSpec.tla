----------------------------- MODULE ResolveSpec -----------------------------
(***************************************************************************)
(* What Cache.ResolveLibraries promises (spec section 4.4), as one atomic  *)
(* step from its inputs to its outcome: the closure of the import graph    *)
(* from the binaries (and extraLibs, as if imported by the first binary),  *)
(* minus the names found on the search path, grouped by canonical path;    *)
(* or an error when a reachable file cannot be decoded, a reachable name   *)
(* cannot be found, or a mounted path cannot be canonicalised.             *)
(***************************************************************************)
EXTENDS DynlibLookup

VARIABLES
    status,   \* "running", "done" or "failed"
    result    \* canonical path -> aliases, once "done"

absVars == <<in, status, result>>

\* The names a scan of file f contributes: its imports and, for the first
\* binary, extraLibs; an undecodable file contributes nothing (it fails).
FileImports(f) ==
    IF f \in in.undecodable THEN {}
    ELSE Range(in.imports[f]) \cup
         (IF in.binaries # <<>> /\ f = in.binaries[1]
          THEN Range(in.extraLibs) ELSE {})

Resolvable(N) == {n \in N : LibPath(n) # NoFile}

\* Least fixpoint: names reachable from N through the files they resolve to.
RECURSIVE Grow(_)
Grow(N) ==
    LET N2 == N \cup UNION {FileImports(LibPath(n)) : n \in Resolvable(N)}
    IN  IF N2 = N THEN N ELSE Grow(N2)

ReachNames == Grow(UNION {FileImports(f) : f \in Range(in.binaries)})

ReachFiles == Range(in.binaries) \cup {LibPath(n) : n \in Resolvable(ReachNames)}

\* Reachable names that must be bind-mounted: not on the search path.
Mounted == {n \in ReachNames : SearchPathHit(n) = NoFile}

ResolveSucceeds ==
    /\ ReachFiles \cap in.undecodable = {}
    /\ Resolvable(ReachNames) = ReachNames
    /\ \A n \in Mounted : in.symlinks[GetLibraryPath(n)] # NoFile

Expected == [f \in Files |-> {n \in Mounted : in.symlinks[GetLibraryPath(n)] = f}]

-----------------------------------------------------------------------------
Init ==
    /\ in \in Inputs
    /\ status = "running"
    /\ result = [f \in Files |-> {}]

Resolve ==
    /\ status = "running" /\ ResolveSucceeds
    /\ status' = "done"
    /\ result' = Expected
    /\ UNCHANGED in

Fail ==
    /\ status = "running" /\ ~ResolveSucceeds
    /\ status' = "failed"
    /\ UNCHANGED <<in, result>>

\* A call always returns: one of the two steps is always possible while it
\* runs, so this is what weak fairness of Resolve \/ Fail gives.
Spec == Init /\ [][Resolve \/ Fail]_absVars /\ <>(status # "running")

=============================================================================
