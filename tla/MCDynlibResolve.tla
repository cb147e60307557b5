-------------------------- MODULE MCDynlibResolve --------------------------
(* A small host for ResolveLibraries: binaries tor and firefox, libraries  *)
(* a and b, two search-path dirs, an ambiguous cache entry for a, a shared *)
(* symlink target, an import cycle, and a failing GetLibraries.            *)
EXTENDS DynlibResolve

MCNames == {"a", "b"}

MCSearchPaths == <<"/d1", "/d2">>

MCJoin(d, lib) == d \o "/" \o lib

MCFiles == {"tor", "firefox", "/lib/a", "/lib/a2", "/lib/b", "/lib/real",
            "/d1/a", "/d2/a", "/d1/b", "/d2/b"}

MCNoFile == ""

\* Import tables: tor imports a (possibly twice), firefox imports b, the
\* cached a and b may import each other (a cycle).
MCImports ==
    { [f \in MCFiles |->
         CASE f = "tor"     -> it
           [] f = "firefox" -> <<"b">>
           [] f = "/lib/a"  -> ia
           [] f = "/lib/b"  -> ib
           [] f = "/lib/a2" -> <<"b">>
           [] f = "/d1/a"   -> <<"b">>
           [] OTHER         -> <<>>]
      : it \in {<<"a">>, <<"a", "a">>}, ia \in {<<>>, <<"b">>},
        ib \in {<<>>, <<"a">>} }

MCStores ==
    { ("a" :> sa) @@ ("b" :> sb)
      : sa \in {<<>>, <<"/lib/a">>, <<"/lib/a2", "/lib/a">>},
        sb \in {<<>>, <<"/lib/b">>} }

\* EvalSymlinks: a and b may both be links to /lib/real; b may dangle.
MCSymlinks ==
    { [f \in MCFiles |-> CASE f = "/lib/a" -> la
                           [] f = "/lib/b" -> lb
                           [] OTHER        -> f]
      : la \in {"/lib/a", "/lib/real"}, lb \in {"/lib/b", "/lib/real", ""} }

MCInputs ==
    [ binaries    : {<<>>, <<"tor">>, <<"tor", "firefox">>, <<"tor", "/lib/b">>},
      extraLibs   : {<<>>, <<"b">>},
      exists      : {{}, {"/d2/a"}, {"/d1/a", "/d2/a"}},
      store       : MCStores,
      imports     : MCImports,
      undecodable : {{}, {"/lib/b"}},
      symlinks    : MCSymlinks ]

=============================================================================
