----------------------------- MODULE SandboxCore -----------------------------
(***************************************************************************)
(* The two halves of library resolution composed as RunTorBrowser uses     *)
(* them: LoadCache (cache.go) decodes /etc/ld.so.cache into c.store, and   *)
(* then c.ResolveLibraries walks the binaries' imports, looking names up   *)
(* in that same store through GetLibraryPath.  A LoadCache error or panic  *)
(* ends sandbox construction before any resolution.                       *)
(*                                                                         *)
(* Names and paths are the byte strings the cache decodes, so a name the  *)
(* resolver looks up is a key of c.store exactly when the bytes match.    *)
(***************************************************************************)
EXTENDS Naturals, Sequences, SequencesExt, Bitwise

CONSTANTS
    Caches, HdrOff, HdrString, Arches,            \* as in LdCache
    Files, Names, NoFile, searchPaths, Join(_, _), \* as in DynlibLookup
    Requests,   \* the other inputs of ResolveLibraries: binaries,
                \* extraLibs, exists, imports, undecodable, symlinks
    Inputs      \* a set holding every such record with a store added

VARIABLES
    file, arch, cpc, i, store,              \* LoadCache
    req,                                    \* the call's other inputs
    rpc, toCheck, idx, impLibs, extraLibs, checkedFile, checkedLib,
    newToCheck, libraries, pending, ret    \* ResolveLibraries

cacheVars == <<file, arch, cpc, i, store>>
resVars == <<req, rpc, toCheck, idx, impLibs, extraLibs, checkedFile,
             checkedLib, newToCheck, libraries, pending, ret>>
vars == <<cacheVars, resVars>>

Cache == INSTANCE LdCache WITH pc <- cpc

\* c.store as GetLibraryPath reads it: each name's entry paths, in order.
StoreView ==
    [n \in Names |-> IF n \in DOMAIN store
                     THEN [j \in DOMAIN store[n] |-> store[n][j].value]
                     ELSE <<>>]

ResIn == [binaries |-> req.binaries, extraLibs |-> req.extraLibs,
          exists |-> req.exists, store |-> StoreView,
          imports |-> req.imports, undecodable |-> req.undecodable,
          symlinks |-> req.symlinks]

Res == INSTANCE DynlibResolve WITH in <- ResIn, pc <- rpc

-----------------------------------------------------------------------------
Init ==
    /\ Cache!Init
    /\ req \in Requests
    /\ Res!Init

\* LoadCache runs to completion first; the resolver runs on the result.
Next ==
    \/ Cache!Next /\ UNCHANGED resVars
    \/ cpc = "loaded" /\ UNCHANGED <<cacheVars, req>> /\ Res!Next

\* One goroutine does both, one step after the other.
Spec == Init /\ [][Next]_vars /\ WF_vars(Next)

-----------------------------------------------------------------------------
(* Properties.                                                             *)

TypeOK == Cache!TypeOK /\ Res!TypeOK

\* The cache reader's own contract, checked here on every cache the model
\* decodes: a loaded store holds exactly the flag-accepted entries, grouped
\* by name in file order (LdCache!StoreMatchesFile).
StoreMatchesFile == Cache!StoreMatchesFile

\* The entries of the cache file for name n that pass the flag check, in
\* file order.
RetainedFor(n) == SelectSeq(Cache!Retained, LAMBDA e : e.key = n)

\* First match wins, end to end: a library the resolver registers for
\* bind-mounting is the path of the first entry for its name that the
\* cache reader retained from the file, whatever other variants follow.
MountsFirstRetained ==
    rpc = "done" =>
        \A n \in DOMAIN libraries :
            RetainedFor(n) # <<>> /\ libraries[n] = RetainedFor(n)[1].value

\* Spec section 4.3: the resolver only mounts native (x86-64 libc6)
\* libraries for the sandboxed x86-64 binaries.
MountsOnlyNative ==
    \A n \in DOMAIN libraries :
        \E j \in 1..file.nlibs :
            /\ file.entries[j].flags = (Cache!flagX8664Lib64 | Cache!flagElfLibc6)
            /\ Cache!StringAt(file.entries[j].k) = n
            /\ Cache!StringAt(file.entries[j].v) = libraries[n]

=============================================================================
