--------------------------- MODULE SeccompWhitelist ---------------------------
(***************************************************************************)
(* installTBLOzWhitelist (seccomp.go): compile the line-oriented rule file *)
(* into a libseccomp filter whose default action is ERRNO(1), then export  *)
(* it.  One step per line.  A line is abstracted to its parse: its kind    *)
(* (blank, comment, declaration, rule, or a line that splits wrongly), the *)
(* syscall name, whether the condition is the literal `1` (field one),    *)
(* and the clauses `argN == VALUE` between `||` (field cond); a VALUE is   *)
(* the sequence of atoms between `|` (one atom: a name or a numeral).      *)
(*                                                                         *)
(* The filter is the set of ALLOW rules added to it, each a syscall and a  *)
(* set of <<arg, value>> equality tests; libseccomp allows a call when all *)
(* the tests of some rule for it hold.                                     *)
(***************************************************************************)
EXTENDS Naturals, Sequences, SequencesExt, FiniteSets, Bitwise, TLC

CONSTANTS
    Profiles,    \* rule files (sequences of abstract lines) to compile
    Arches,      \* subset of {"amd64", "386"}: runtime.GOARCH
    Known,       \* syscall names seccomp.GetSyscallFromName resolves
    Builtins,    \* the constantTable literal: name -> value
    Numerals,    \* strconv.ParseUint(tok, 0, 64) where it succeeds: tok -> value
    NoValue,     \* a lookup or parse that fails
    ArgSlots,    \* the argument indices the filter is evaluated on
    Values       \* the argument values the filter is evaluated on

VARIABLES
    profile,        \* the rule file being compiled (input)
    arch,           \* runtime.GOARCH (input)
    pc,             \* "init", "parse", "exported", "error" or "panic"
    ln,             \* index of the line being parsed
    constantTable,  \* name -> value, seeded with Builtins
    filter          \* ALLOW rules added with f.AddRule*

vars == <<profile, arch, pc, ln, constantTable, filter>>

-----------------------------------------------------------------------------
\* The switch on "arg0".."arg5".
ArgIndex == [a \in {"arg0", "arg1", "arg2", "arg3", "arg4", "arg5"} |->
                CASE a = "arg0" -> 0 [] a = "arg1" -> 1 [] a = "arg2" -> 2
                  [] a = "arg3" -> 3 [] a = "arg4" -> 4 [] a = "arg5" -> 5]

argCondsLen == 5

\* `AFIAK, only certain architectures can use seccomp conditionals`.
CanUseConditionals(a) == a = "amd64"

\* A declaration's value: strconv.ParseUint of the whole trimmed text.
ParseUintValue(expr) ==
    IF Len(expr) = 1 /\ expr[1] \in DOMAIN Numerals THEN Numerals[expr[1]]
    ELSE NoValue

\* Mutant of ConstValue: the ParseUint error is not checked, so an unknown
\* value is taken as 0.
ConstValueNoErr(expr, table) ==
    IF Len(expr) = 1 /\ expr[1] \in DOMAIN table THEN table[expr[1]]
    ELSE IF ParseUintValue(expr) = NoValue THEN 0 ELSE ParseUintValue(expr)

\* A condition's value: constantTable[rawVal], else ParseUint(rawVal).
\* rawVal is the whole trimmed text, so `A|B` is neither.
ConstValue(expr, table) ==
    IF Len(expr) = 1 /\ expr[1] \in DOMAIN table THEN table[expr[1]]
    ELSE ParseUintValue(expr)

\* The body of the `for _, v := range conds` loop, for one clause, in the
\* order the code checks: split on "==", the argument token, the value, and
\* finally argConds[argN] (a runtime panic for argN >= 5).
ClauseOutcome(c, table) ==
    IF ~c.eq THEN "error"
    ELSE IF c.arg \notin DOMAIN ArgIndex THEN "error"
    ELSE IF ConstValue(c.val, table) = NoValue THEN "error"
    ELSE IF ArgIndex[c.arg] >= argCondsLen THEN "panic"
    ELSE "ok"

\* The outcome of the whole loop: that of the first clause that is not ok.
CondOutcome(cl, table) ==
    LET i == SelectInSeq(cl, LAMBDA c : ClauseOutcome(c, table) # "ok")
    IN  IF i = 0 THEN "ok" ELSE ClauseOutcome(cl[i], table)

\* scConds: one CompareEqual test per collected value.
ScConds(cl, table) ==
    {<<ArgIndex[cl[i].arg], ConstValue(cl[i].val, table)>> : i \in DOMAIN cl}

\* libseccomp rejects a rule that compares one argument twice (EINVAL).
SameArgTwice(cl) == \E i, j \in DOMAIN cl : i # j /\ cl[i].arg = cl[j].arg

FilterAllows(sc, a) ==
    \E r \in filter : r.sc = sc /\ \A t \in r.conds : a[t[1]] = t[2]

Line == profile[ln]

IsRule == pc = "parse" /\ ln \in DOMAIN profile /\ Line.kind = "rule"

-----------------------------------------------------------------------------
Init ==
    /\ profile \in Profiles
    /\ arch \in Arches
    /\ pc = "init"
    /\ ln = 1
    /\ constantTable = Builtins
    /\ filter = {}

\* seccomp.NewFilter(actEPerm), f.AddArch(ArchNative), data.Asset(...).
Setup ==
    /\ pc = "init"
    /\ pc' = "parse"
    /\ UNCHANGED <<profile, arch, ln, constantTable, filter>>

SetupFails ==
    /\ pc = "init"
    /\ pc' = "error"
    /\ UNCHANGED <<profile, arch, ln, constantTable, filter>>

\* Empty line or `#` comment.
SkipLine ==
    /\ pc = "parse" /\ ln \in DOMAIN profile
    /\ Line.kind \in {"blank", "comment"}
    /\ ln' = ln + 1
    /\ UNCHANGED <<profile, arch, pc, constantTable, filter>>

\* Neither ':' nor '=': "syntax error in profile".
SyntaxError ==
    /\ pc = "parse" /\ ln \in DOMAIN profile
    /\ Line.kind = "junk"
    /\ pc' = "error"
    /\ UNCHANGED <<profile, arch, ln, constantTable, filter>>

\* `NAME=VALUE` with a numeric VALUE: constantTable[k] = v.
Declare ==
    /\ pc = "parse" /\ ln \in DOMAIN profile
    /\ Line.kind = "decl"
    /\ ParseUintValue(Line.val) # NoValue
    /\ constantTable' = (Line.name :> ParseUintValue(Line.val)) @@ constantTable
    /\ ln' = ln + 1
    /\ UNCHANGED <<profile, arch, pc, filter>>

\* Split on '=' does not give two parts, or ParseUint fails.
DeclareInvalid ==
    /\ pc = "parse" /\ ln \in DOMAIN profile
    /\ \/ Line.kind = "baddecl"
       \/ Line.kind = "decl" /\ ParseUintValue(Line.val) = NoValue
    /\ pc' = "error"
    /\ UNCHANGED <<profile, arch, ln, constantTable, filter>>

\* GetSyscallFromName fails: logged and skipped ("It's a whitelist").
RuleUnknownSyscall ==
    /\ IsRule /\ Line.sc \notin Known
    /\ ln' = ln + 1
    /\ UNCHANGED <<profile, arch, pc, constantTable, filter>>

\* !canUseConditionals: f.AddRule(scall, ActAllow), condition text unread.
RuleNoConditionals ==
    /\ IsRule /\ Line.sc \in Known
    /\ ~CanUseConditionals(arch)
    /\ filter' = filter \cup {[sc |-> Line.sc, conds |-> {}]}
    /\ ln' = ln + 1
    /\ UNCHANGED <<profile, arch, pc, constantTable>>

\* Condition `1`: f.AddRule(scall, ActAllow).
RuleUnconditional ==
    /\ IsRule /\ Line.sc \in Known
    /\ CanUseConditionals(arch) /\ Line.one
    /\ filter' = filter \cup {[sc |-> Line.sc, conds |-> {}]}
    /\ ln' = ln + 1
    /\ UNCHANGED <<profile, arch, pc, constantTable>>

\* A clause fails to parse: invalid condition / argument / value.
RuleBadCondition ==
    /\ IsRule /\ Line.sc \in Known
    /\ CanUseConditionals(arch) /\ ~Line.one
    /\ CondOutcome(Line.cond, constantTable) = "error"
    /\ pc' = "error"
    /\ UNCHANGED <<profile, arch, ln, constantTable, filter>>

\* `arg5`: argConds[5] is out of range and the goroutine panics.
RulePanics ==
    /\ IsRule /\ Line.sc \in Known
    /\ CanUseConditionals(arch) /\ ~Line.one
    /\ CondOutcome(Line.cond, constantTable) = "panic"
    /\ pc' = "panic"
    /\ UNCHANGED <<profile, arch, ln, constantTable, filter>>

\* f.AddRuleConditionalExact(scall, ActAllow, scConds) succeeds.  When an
\* argument is compared twice the library either rejects the rule (below)
\* or, in releases that accept it, keeps the tests conjunctive.
RuleConditional ==
    /\ IsRule /\ Line.sc \in Known
    /\ CanUseConditionals(arch) /\ ~Line.one
    /\ CondOutcome(Line.cond, constantTable) = "ok"
    /\ filter' = filter \cup
                 {[sc |-> Line.sc, conds |-> ScConds(Line.cond, constantTable)]}
    /\ ln' = ln + 1
    /\ UNCHANGED <<profile, arch, pc, constantTable>>

\* AddRuleConditionalExact returns EINVAL for a twice-compared argument.
RuleRejected ==
    /\ IsRule /\ Line.sc \in Known
    /\ CanUseConditionals(arch) /\ ~Line.one
    /\ CondOutcome(Line.cond, constantTable) = "ok"
    /\ SameArgTwice(Line.cond)
    /\ pc' = "error"
    /\ UNCHANGED <<profile, arch, ln, constantTable, filter>>

\* All lines parsed: f.ExportBPF(fd).
Export ==
    /\ pc = "parse" /\ ln = Len(profile) + 1
    /\ pc' = "exported"
    /\ UNCHANGED <<profile, arch, ln, constantTable, filter>>

Returned ==
    /\ pc \in {"exported", "error", "panic"}
    /\ UNCHANGED vars

Next ==
    \/ Setup \/ SetupFails
    \/ SkipLine \/ SyntaxError \/ Declare \/ DeclareInvalid
    \/ RuleUnknownSyscall \/ RuleNoConditionals \/ RuleUnconditional
    \/ RuleBadCondition \/ RulePanics \/ RuleConditional \/ RuleRejected
    \/ Export
    \/ Returned

Spec == Init /\ [][Next]_vars

-----------------------------------------------------------------------------
(* The rule language as spec.md sections 3, 4.1, 4.2 and 6 define it:     *)
(* values combine declared names and numerals with bitwise `|`, names must *)
(* be declared on an earlier line, `||` alternatives on one argument are   *)
(* OR-ed, different arguments AND-ed, arguments are arg0..arg5, unknown    *)
(* syscalls are dropped, and without conditional support every rule of a  *)
(* known syscall becomes an unconditional allow.                           *)

AtomValue(x, table) ==
    IF x \in DOMAIN table THEN table[x]
    ELSE IF x \in DOMAIN Numerals THEN Numerals[x] ELSE NoValue

SpecValue(expr, table) ==
    IF expr # <<>> /\ \A i \in DOMAIN expr : AtomValue(expr[i], table) # NoValue
    THEN FoldLeft(LAMBDA acc, x : acc | AtomValue(x, table), 0, expr)
    ELSE NoValue

\* The constant table in effect after the first i lines.
RECURSIVE SpecTable(_)
SpecTable(i) ==
    IF i = 0 THEN Builtins
    ELSE LET l == profile[i]
             t == SpecTable(i - 1)
         IN  IF l.kind = "decl" /\ SpecValue(l.val, t) # NoValue
             THEN (l.name :> SpecValue(l.val, t)) @@ t
             ELSE t

SpecClauseOk(c, t) ==
    c.eq /\ c.arg \in DOMAIN ArgIndex /\ SpecValue(c.val, t) # NoValue

SpecLineValid(i) ==
    LET l == profile[i]
        t == SpecTable(i - 1)
    IN  CASE l.kind \in {"blank", "comment"} -> TRUE
          [] l.kind = "decl" -> SpecValue(l.val, t) # NoValue
          [] l.kind = "rule" -> \/ l.one
                               \/ \A j \in DOMAIN l.cond : SpecClauseOk(l.cond[j], t)
          [] OTHER -> FALSE

SpecValid == \A i \in DOMAIN profile : SpecLineValid(i)

\* The rule line i contributes: for each argument it tests, the set of
\* accepted values (an empty domain: unconditional).
SpecRule(i) ==
    LET l == profile[i]
        t == SpecTable(i - 1)
        args == IF ~CanUseConditionals(arch) \/ l.one THEN {}
                ELSE {ArgIndex[l.cond[j].arg] : j \in DOMAIN l.cond}
    IN  [sc |-> l.sc,
         alts |-> [k \in args |-> {SpecValue(l.cond[j].val, t) :
                                   j \in {m \in DOMAIN l.cond :
                                          ArgIndex[l.cond[m].arg] = k}}]]

SpecRuleLines ==
    {i \in DOMAIN profile :
        /\ profile[i].kind = "rule" /\ profile[i].sc \in Known
        /\ \/ ~CanUseConditionals(arch)
           \/ profile[i].one
           \/ \A j \in DOMAIN profile[i].cond :
                 SpecClauseOk(profile[i].cond[j], SpecTable(i - 1))}

SpecAllows(sc, a) ==
    \E i \in SpecRuleLines :
        LET r == SpecRule(i)
        IN  r.sc = sc /\ \A k \in DOMAIN r.alts : a[k] \in r.alts[k]

ArgVectors == [ArgSlots -> Values]

-----------------------------------------------------------------------------
(* Properties.                                                             *)

TypeOK ==
    /\ pc \in {"init", "parse", "exported", "error", "panic"}
    /\ ln \in 1..Len(profile) + 1
    /\ \A n \in DOMAIN constantTable : constantTable[n] \in Nat
    /\ \A r \in filter : r.sc \in Known /\ r.conds \subseteq (0..4) \X Nat

\* The exported whitelist is never wider than the rule file: every call it
\* allows (for every syscall and argument vector) is allowed by a rule line
\* of the file under the values its declarations had at that line.  This is
\* the property a fail-open filter (an ignored parse error, a stale or
\* default constant, a dropped test) would break.
FilterWithinSpec ==
    pc = "exported" =>
        \A sc \in Known, a \in ArgVectors : FilterAllows(sc, a) => SpecAllows(sc, a)

\* Spec section 8: `argN==V1 || argN==V2` allows argN = V1 and argN = V2;
\* more generally the exported whitelist allows everything the file allows.
FilterCoversSpec ==
    pc = "exported" =>
        \A sc \in Known, a \in ArgVectors : SpecAllows(sc, a) => FilterAllows(sc, a)

\* Spec section 4.1: a malformed line aborts the whole compilation, so an
\* exported filter comes from a well-formed rule file.
ExportOnlyValid == pc = "exported" => SpecValid

\* Spec section 4.1: compilation aborts at a line only when that line is
\* malformed.  A declaration or rule the rule language allows (a value
\* naming an earlier declaration, atoms OR-ed with `|`, alternatives on one
\* argument, arguments arg0..arg5) never stops the parse of the file,
\* neither with an error return nor with a runtime panic.
AbortsOnlyOnMalformedLine ==
    [][pc = "parse" /\ pc' \in {"error", "panic"} => ~SpecLineValid(ln)]_vars

=============================================================================
