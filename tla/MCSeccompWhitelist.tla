------------------------ MODULE MCSeccompWhitelist ------------------------
(* Rule files of up to three lines drawn from a set of lines that covers   *)
(* every branch of installTBLOzWhitelist: comments, declarations (also     *)
(* redeclaring a name), each rule form, and each malformed form.           *)
EXTENDS SeccompWhitelist

C(arg, val) == [eq |-> TRUE, arg |-> arg, val |-> val]
NoEq == [eq |-> FALSE, arg |-> "", val |-> <<>>]
Rule(sc, cond) == [kind |-> "rule", sc |-> sc, one |-> cond = <<>>, cond |-> cond]
Decl(n, v) == [kind |-> "decl", name |-> n, val |-> v]

MCLines ==
    { [kind |-> "comment"],
      Decl("FOO", <<"2">>),                        \* FOO=2
      Decl("FOO", <<"0">>),                        \* FOO=0 (redeclares)
      Decl("FOO", <<"AF_UNIX">>),                  \* FOO=AF_UNIX
      [kind |-> "baddecl"],                        \* A==B
      [kind |-> "junk"],                           \* no ':' nor '='
      Rule("futex", <<>>),                          \* futex: 1
      Rule("bogus", <<>>),                          \* unknown syscall
      Rule("bogus", <<NoEq>>),                     \* bogus: garbage
      Rule("socket", <<C("arg0", <<"FOO">>)>>),    \* socket: arg0 == FOO
      Rule("socket", <<C("arg0", <<"AF_UNIX">>), C("arg0", <<"2">>)>>),
      Rule("socket", <<C("arg0", <<"1">>), C("arg1", <<"FOO">>)>>),
      Rule("futex", <<C("arg5", <<"0">>)>>),       \* futex: arg5 == 0
      Rule("futex", <<C("argX", <<"0">>)>>),       \* bad argument
      Rule("socket", <<NoEq>>),                    \* socket: arg1
      Rule("socket", <<C("arg1", <<"FOO", "AF_UNIX">>)>>) } \* FOO|AF_UNIX

MCProfiles == UNION {[1..n -> MCLines] : n \in 0..3}

MCBuiltins == [x \in {"AF_UNIX"} |-> 1]

MCNumerals == ("0" :> 0) @@ ("1" :> 1) @@ ("2" :> 2)

=============================================================================
