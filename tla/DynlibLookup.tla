---------------------------- MODULE DynlibLookup ----------------------------
(***************************************************************************)
(* The inputs of one Cache.ResolveLibraries call (cache.go) and the       *)
(* lookups it makes on them, shared by the detailed walk (DynlibResolve)  *)
(* and the specification it implements (ResolveSpec).                      *)
(*                                                                         *)
(* `in` holds binaries, extraLibs, what exists on the search path          *)
(* (exists), the parsed ld.so.cache store, the import tables returned by   *)
(* the external GetLibraries (imports, undecodable) and what               *)
(* filepath.EvalSymlinks returns (symlinks, NoFile for an error).          *)
(***************************************************************************)
EXTENDS Naturals, Sequences, SequencesExt, FiniteSets, TLC

CONSTANTS
    Files,        \* file paths that may occur
    Names,        \* library names as they occur in import tables
    NoFile,       \* the empty path "" (no match / EvalSymlinks error)
    searchPaths,  \* filepath.SplitList(ldLibraryPath): a sequence of dirs
    Join(_, _),   \* filepath.Join(d, lib)
    Inputs        \* the set of input records of one call

VARIABLE in       \* the inputs of this call, never changed


\* Cache.GetLibraryPath: first entry of c.store[name], "" when absent.
GetLibraryPath(name) ==
    IF in.store[name] = <<>> THEN NoFile ELSE in.store[name][1]

\* The search-path loop: first dir d (in order) where Join(d, lib) exists.
SearchPathHit(lib) ==
    LET i == SelectInSeq(searchPaths, LAMBDA d : Join(d, lib) \in in.exists)
    IN  IF i = 0 THEN NoFile ELSE Join(searchPaths[i], lib)

\* libPath as computed for lib: search path first, then the cache.
LibPath(lib) ==
    IF SearchPathHit(lib) # NoFile THEN SearchPathHit(lib)
                                   ELSE GetLibraryPath(lib)

=============================================================================
