--------------------------- MODULE MCSandboxCore ---------------------------
(* A cache holding library a as a native entry, an i386 entry, or both in  *)
(* either order, and b native or absent; and every cache of LdCacheShapes:     *)
(* malformed or truncated headers and entries with stray offsets.         *)
(* a binary tor importing a; the i386 a importing b; b possibly found on   *)
(* the search path "d".  Strings are the byte sequences the cache decodes: *)
(* a = 97, b = 98, "/" = 47, A = 65, d = 100, t = 116.                      *)
EXTENDS SandboxCore, LdCacheShapes

a == <<97>>
b == <<98>>
tor == <<116>>
pa == <<47, 97>>       \* "/a", the x86-64 a
pA == <<47, 65>>       \* "/A", the i386 a
pb == <<47, 98>>       \* "/b"
db == <<100, 47, 98>>  \* "d/b"

\* "a\0/a\0/A\0b\0/b\0": a at 0, /a at 2, /A at 5, b at 8, /b at 10.
Strtab == <<97, 0, 47, 97, 0, 47, 65, 0, 98, 0, 47, 98, 0>>

NatA == [flags |-> 771, k |-> 0, v |-> 2]
I386A == [flags |-> 3, k |-> 0, v |-> 5]
NatB == [flags |-> 771, k |-> 8, v |-> 10]

Loadable(es) ==
    [oldMagic |-> TRUE, oldNlibs |-> 1, cut |-> "none", newMagic |-> TRUE,
     nlibs |-> Len(es), entries |-> es, lenStrings |-> Len(Strtab),
     strtab |-> Strtab]

MCCaches ==
    { Loadable(ea \o eb) :
        ea \in {<<NatA>>, <<I386A>>, <<I386A, NatA>>, <<NatA, I386A>>},
        eb \in {<<>>, <<NatB>>} }
    \cup LdCaches(HdrOff)

MCHdrString == <<103>>

\* The paths the MCLdCache caches decode: "a", "ab", "b" and "".
LdPaths == {a, <<97, 98>>, b, <<>>}

MCFiles == {tor, pa, pA, pb, db} \cup LdPaths
MCNames == {a, b}
MCNoFile == <<>>
MCSearchPaths == << <<100>> >>
MCJoin(d, lib) == d \o <<47>> \o lib

MCImports ==
    { [f \in MCFiles |-> CASE f = tor -> <<a>>
                           [] f = pA  -> <<b>>
                           [] f = pa  -> ia
                           [] OTHER   -> <<>>]
      : ia \in {<<>>, <<b>>} }

MCRequests ==
    [ binaries    : {<<tor>>},
      extraLibs   : {<<>>, <<b>>},
      exists      : {{}, {db}},
      imports     : MCImports,
      undecodable : {{}},
      symlinks    : {[f \in MCFiles |-> f]} ]

MCInputs ==
    [ binaries    : Seq(MCFiles),
      extraLibs   : Seq(MCNames),
      exists      : SUBSET MCFiles,
      store       : [MCNames -> Seq(MCFiles)],
      imports     : [MCFiles -> Seq(MCNames)],
      undecodable : SUBSET MCFiles,
      symlinks    : [MCFiles -> MCFiles \cup {MCNoFile}] ]

=============================================================================
