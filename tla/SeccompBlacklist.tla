--------------------------- MODULE SeccompBlacklist ---------------------------
(***************************************************************************)
(* installBasicBlacklist (seccomp.go): a filter whose default action is    *)
(* ALLOW, with an ERRNO(1) rule for each name of a static list (plus vm86  *)
(* and vm86old on 386), then exported.  Which names the linked libseccomp  *)
(* resolves depends on its release, so it is an input chosen in Init.      *)
(***************************************************************************)
EXTENDS Naturals, Sequences, SequencesExt, FiniteSets

CONSTANTS
    Arches,           \* runtime.GOARCH values
    syscallBlacklist, \* the static list, in source order
    Resolvables       \* candidate sets of names GetSyscallFromName resolves

VARIABLES
    arch,        \* runtime.GOARCH (input)
    resolvable,  \* names the linked libseccomp resolves (input)
    pc,          \* "init", "add", "exported" or "error"
    i,           \* index into the list being added
    denied       \* syscalls with an ERRNO(1) rule in the filter

vars == <<arch, resolvable, pc, i, denied>>

\* The list for arch: `if runtime.GOARCH == "386"` appends vm86, vm86old.
BlacklistFor(a) ==
    IF a = "386" THEN syscallBlacklist \o <<"vm86", "vm86old">>
    ELSE syscallBlacklist

List == BlacklistFor(arch)

Init ==
    /\ arch \in Arches
    /\ resolvable \in Resolvables
    /\ pc = "init"
    /\ i = 1
    /\ denied = {}

\* seccomp.NewFilter(seccomp.ActAllow) and f.AddArch(seccomp.ArchNative).
Setup ==
    /\ pc = "init"
    /\ pc' = "add"
    /\ UNCHANGED <<arch, resolvable, i, denied>>

SetupFails ==
    /\ pc = "init"
    /\ pc' = "error"
    /\ UNCHANGED <<arch, resolvable, i, denied>>

\* f.AddRule(s, actEPerm) for the next name.
AddDeny ==
    /\ pc = "add" /\ i <= Len(List)
    /\ List[i] \in resolvable
    /\ denied' = denied \cup {List[i]}
    /\ i' = i + 1
    /\ UNCHANGED <<arch, resolvable, pc>>

\* Mutant of UnknownSyscall: the name is skipped, as the whitelist does.
UnknownSyscallSkipped ==
    /\ pc = "add" /\ i <= Len(List)
    /\ List[i] \notin resolvable
    /\ i' = i + 1
    /\ UNCHANGED <<arch, resolvable, pc, denied>>

\* Mutant of UnknownSyscall: the error is ignored and the zero ScmpSyscall
\* (syscall 0, read on amd64) is denied instead.
UnknownSyscallIgnored ==
    /\ pc = "add" /\ i <= Len(List)
    /\ List[i] \notin resolvable
    /\ denied' = denied \cup {"read"}
    /\ i' = i + 1
    /\ UNCHANGED <<arch, resolvable, pc>>

\* GetSyscallFromName fails: the whole blacklist is abandoned.
UnknownSyscall ==
    /\ pc = "add" /\ i <= Len(List)
    /\ List[i] \notin resolvable
    /\ pc' = "error"
    /\ UNCHANGED <<arch, resolvable, i, denied>>

\* f.ExportBPF(fd).
Export ==
    /\ pc = "add" /\ i = Len(List) + 1
    /\ pc' = "exported"
    /\ UNCHANGED <<arch, resolvable, i, denied>>

Returned ==
    /\ pc \in {"exported", "error"}
    /\ UNCHANGED vars

Next == Setup \/ SetupFails \/ AddDeny \/ UnknownSyscall \/ Export \/ Returned

Spec == Init /\ [][Next]_vars

-----------------------------------------------------------------------------
TypeOK ==
    /\ pc \in {"init", "add", "exported", "error"}
    /\ i \in 1..Len(List) + 1
    /\ denied \subseteq Range(List)

\* Spec section 4.2 and 8: an exported blacklist denies every syscall of the
\* list for its architecture and nothing else (all else stays ALLOW); a
\* name libseccomp cannot resolve must abort rather than leave a gap.
DeniesExactlyList == pc = "exported" => denied = Range(List)

=============================================================================
