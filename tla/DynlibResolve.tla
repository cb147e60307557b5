---------------------------- MODULE DynlibResolve ----------------------------
(***************************************************************************)
(* Cache.ResolveLibraries (cache.go): the breadth-first walk over binaries *)
(* and their shared-library imports, followed by the de-duplication of the *)
(* result by canonical (symlink-resolved) path.                            *)
(*                                                                         *)
(* The inputs of one call (binaries, extraLibs, what exists on the search  *)
(* path, the parsed ld.so.cache store, the import tables returned by the   *)
(* external GetLibraries, and what filepath.EvalSymlinks returns) form the *)
(* record `in`, chosen in Init from Inputs and never changed.  The other   *)
(* variables are the function's locals, named as in the code.             *)
(***************************************************************************)
EXTENDS DynlibLookup

VARIABLES
    pc,           \* "scan", "lib", "dedup", "done" or "failed"
    toCheck,      \* the current BFS level, in iteration order
    idx,          \* index of the file of toCheck being processed
    impLibs,      \* imports of that file not yet processed
    extraLibs,    \* extraLibs; set to <<>> (nil) once appended
    checkedFile,  \* files whose imports were fetched
    checkedLib,   \* names already resolved
    newToCheck,   \* the next level, as a set (Go map)
    libraries,    \* name -> path for names not found on the search path
    pending,      \* names of libraries not yet de-duplicated
    ret           \* canonical path -> aliases

vars == <<in, pc, toCheck, idx, impLibs, extraLibs, checkedFile, checkedLib,
          newToCheck, libraries, pending, ret>>

\* The call seen from outside: running, then returned with ret or an error.
Abs == INSTANCE ResolveSpec
         WITH status <- IF pc \in {"done", "failed"} THEN pc ELSE "running",
              result <- IF pc = "done" THEN ret ELSE [f \in Files |-> {}]

-----------------------------------------------------------------------------
Init ==
    /\ in \in Inputs
    /\ pc = "scan"
    /\ toCheck = in.binaries
    /\ idx = 1
    /\ impLibs = <<>>
    /\ extraLibs = in.extraLibs
    /\ checkedFile = {}
    /\ checkedLib = {}
    /\ newToCheck = {}
    /\ libraries = <<>>
    /\ pending = {}
    /\ ret = [f \in Files |-> {}]

\* GetLibraries(fn) fails: the whole call returns the error.
ScanFails ==
    /\ pc = "scan" /\ idx <= Len(toCheck)
    /\ toCheck[idx] \in in.undecodable
    /\ pc' = "failed"
    /\ UNCHANGED <<in, toCheck, idx, impLibs, extraLibs, checkedFile,
                   checkedLib, newToCheck, libraries, pending, ret>>

\* GetLibraries(fn) succeeds: mark fn checked; the first file scanned also
\* carries extraLibs, which are then cleared.
Scan ==
    /\ pc = "scan" /\ idx <= Len(toCheck)
    /\ toCheck[idx] \notin in.undecodable
    /\ checkedFile' = checkedFile \cup {toCheck[idx]}
    /\ impLibs' = in.imports[toCheck[idx]] \o extraLibs
    /\ extraLibs' = <<>>
    /\ pc' = "lib"
    /\ UNCHANGED <<in, toCheck, idx, checkedLib, newToCheck, libraries,
                   pending, ret>>

\* `if checkedLib[lib] { continue }`
SkipCheckedLib ==
    /\ pc = "lib" /\ impLibs # <<>>
    /\ Head(impLibs) \in checkedLib
    /\ impLibs' = Tail(impLibs)
    /\ UNCHANGED <<in, pc, toCheck, idx, extraLibs, checkedFile, checkedLib,
                   newToCheck, libraries, pending, ret>>

\* Neither the search path nor the cache knows lib: "Failed to find library".
LibNotFound ==
    /\ pc = "lib" /\ impLibs # <<>>
    /\ Head(impLibs) \notin checkedLib
    /\ LibPath(Head(impLibs)) = NoFile
    /\ pc' = "failed"
    /\ UNCHANGED <<in, toCheck, idx, impLibs, extraLibs, checkedFile,
                   checkedLib, newToCheck, libraries, pending, ret>>

\* Mutant of RegisterLib: the `if !inLdLibraryPath` test is dropped.
RegisterLibEverywhere ==
    /\ pc = "lib" /\ impLibs # <<>>
    /\ LET lib     == Head(impLibs)
           libPath == LibPath(lib)
       IN  /\ lib \notin checkedLib
           /\ libPath # NoFile
           /\ libraries' = libraries @@ (lib :> libPath)
           /\ checkedLib' = checkedLib \cup {lib}
           /\ newToCheck' = IF libPath \notin checkedFile
                            THEN newToCheck \cup {libPath}
                            ELSE newToCheck
    /\ impLibs' = Tail(impLibs)
    /\ UNCHANGED <<in, pc, toCheck, idx, extraLibs, checkedFile, pending, ret>>

\* Register lib (unless it is on the search path), mark it checked, and
\* queue its file for the next level unless that file was already scanned.
RegisterLib ==
    /\ pc = "lib" /\ impLibs # <<>>
    /\ LET lib     == Head(impLibs)
           libPath == LibPath(lib)
       IN  /\ lib \notin checkedLib
           /\ libPath # NoFile
           /\ libraries' = IF SearchPathHit(lib) = NoFile
                           THEN libraries @@ (lib :> libPath)
                           ELSE libraries
           /\ checkedLib' = checkedLib \cup {lib}
           /\ newToCheck' = IF libPath \notin checkedFile
                            THEN newToCheck \cup {libPath}
                            ELSE newToCheck
    /\ impLibs' = Tail(impLibs)
    /\ UNCHANGED <<in, pc, toCheck, idx, extraLibs, checkedFile, pending, ret>>

\* All imports of the current file handled: go on with the next file.
FileDone ==
    /\ pc = "lib" /\ impLibs = <<>>
    /\ idx' = idx + 1
    /\ pc' = "scan"
    /\ UNCHANGED <<in, toCheck, impLibs, extraLibs, checkedFile, checkedLib,
                   newToCheck, libraries, pending, ret>>

\* Mutant of LevelDone: the index into the level is not reset.
LevelDoneNoIdxReset ==
    /\ pc = "scan" /\ idx > Len(toCheck)
    /\ \E s \in SetToSeqs(newToCheck) : toCheck' = s
    /\ newToCheck' = {}
    /\ pc' = IF newToCheck = {} THEN "dedup" ELSE "scan"
    /\ pending' = IF newToCheck = {} THEN DOMAIN libraries ELSE pending
    /\ UNCHANGED <<in, idx, impLibs, extraLibs, checkedFile, checkedLib,
                   libraries, ret>>

\* Mutant of LevelDone: newToCheck is made once, before the loop, and
\* never reset.
LevelDoneNoReset ==
    /\ pc = "scan" /\ idx > Len(toCheck)
    /\ \E s \in SetToSeqs(newToCheck) : toCheck' = s
    /\ idx' = 1
    /\ pc' = IF newToCheck = {} THEN "dedup" ELSE "scan"
    /\ pending' = IF newToCheck = {} THEN DOMAIN libraries ELSE pending
    /\ UNCHANGED <<in, impLibs, extraLibs, checkedFile, checkedLib,
                   newToCheck, libraries, ret>>

\* End of a level: toCheck becomes the keys of newToCheck in Go's (random)
\* map order, newToCheck is reset at the loop head, and an empty level ends
\* the walk.
LevelDone ==
    /\ pc = "scan" /\ idx > Len(toCheck)
    /\ \E s \in SetToSeqs(newToCheck) : toCheck' = s
    /\ idx' = 1
    /\ newToCheck' = {}
    /\ pc' = IF newToCheck = {} THEN "dedup" ELSE "scan"
    /\ pending' = IF newToCheck = {} THEN DOMAIN libraries ELSE pending
    /\ UNCHANGED <<in, impLibs, extraLibs, checkedFile, checkedLib,
                   libraries, ret>>

\* De-dup loop, in map order: EvalSymlinks fails.
DedupFails ==
    /\ pc = "dedup"
    /\ \E lib \in pending : in.symlinks[libraries[lib]] = NoFile
    /\ pc' = "failed"
    /\ UNCHANGED <<in, toCheck, idx, impLibs, extraLibs, checkedFile,
                   checkedLib, newToCheck, libraries, pending, ret>>

\* De-dup loop: append lib to the aliases of its canonical path.
DedupLib ==
    /\ pc = "dedup"
    /\ \E lib \in pending :
         LET f == in.symlinks[libraries[lib]]
         IN  /\ f # NoFile
             /\ ret' = [ret EXCEPT ![f] = @ \cup {lib}]
             /\ pending' = pending \ {lib}
    /\ UNCHANGED <<in, pc, toCheck, idx, impLibs, extraLibs, checkedFile,
                   checkedLib, newToCheck, libraries>>

\* return ret, nil
Finish ==
    /\ pc = "dedup" /\ pending = {}
    /\ pc' = "done"
    /\ UNCHANGED <<in, toCheck, idx, impLibs, extraLibs, checkedFile,
                   checkedLib, newToCheck, libraries, pending, ret>>

\* The call has returned.
Returned ==
    /\ pc \in {"done", "failed"}
    /\ UNCHANGED vars

Next ==
    \/ ScanFails \/ Scan
    \/ SkipCheckedLib \/ LibNotFound \/ RegisterLib \/ FileDone
    \/ LevelDone
    \/ DedupFails \/ DedupLib \/ Finish
    \/ Returned

\* One goroutine runs the whole loop, so every enabled step is taken.
Spec == Init /\ [][Next]_vars /\ WF_vars(Next)

-----------------------------------------------------------------------------
(* Properties.                                                             *)

TypeOK ==
    /\ pc \in {"scan", "lib", "dedup", "done", "failed"}
    /\ toCheck \in Seq(Files) /\ idx \in 1..Len(toCheck) + 1
    /\ impLibs \in Seq(Names) /\ extraLibs \in Seq(Names)
    /\ checkedFile \subseteq Files /\ checkedLib \subseteq Names
    /\ newToCheck \subseteq Files
    /\ DOMAIN libraries \subseteq Names
    /\ \A n \in DOMAIN libraries : libraries[n] \in Files
    /\ pending \subseteq DOMAIN libraries
    /\ ret \in [Files -> SUBSET Names]

\* ResolveLibraries implements ResolveSpec: whatever order Go's map
\* iteration gives each level and the de-dup loop, the walk eventually
\* returns (the levels run dry because a name is resolved once and
\* newToCheck is emptied at each loop head), with exactly the closure of
\* the import graph grouped by canonical path, or with an error exactly
\* when something reachable cannot be decoded, found or canonicalised.
ResolveRefinesSpec == Abs!Spec

\* Spec section 4.4: every library is import-scanned exactly once, i.e. no
\* GetLibraries call is made on a file already in checkedFile.
ScanOnce == [][Scan => toCheck[idx] \notin checkedFile]_vars

=============================================================================
