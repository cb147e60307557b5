# TLA+ models of sandboxed-tor-browser's sandbox core

This directory holds TLA+ models of the parts of the launcher that build the
sandbox: the seccomp rule compiler, the `ld.so.cache` reader and the shared
library dependency resolver, plus (planned) the launcher lifecycle around them.
Every module is translated from the Go source under `src/`; `PROJECT.json`
maps each definition to the lines it models.

## 1. Inventory

| Component | Source | State it keeps | Operations |
|---|---|---|---|
| Launcher lifecycle | `src/unnamed/part_000` (main.go) | lock file `$XDG_RUNTIME_DIR/sandboxed-tor-browser/lock`, data/runtime dirs | `makeDirectories`, `createLockFile` (O_CREAT\|O_EXCL), `installer.Install`, `sandbox.RunTorBrowser`, `lock.unlock` (deferred) |
| Configuration | `src/unnamed/part_001` (config.go) | `Config` record (ControlPort, password, Channel, Architecture, Locale) | `Load` (file, env overrides, defaults, validation), `RuntimeDir` (panics when `XDG_RUNTIME_DIR` is unset), `DialControlPort` |
| Seccomp whitelist compiler | `src/src/cmd/.../sandbox/seccomp.go` 33-184 | constant table, libseccomp filter under construction, line number | one step per rule-file line: skip blank/comment, rule, declaration, syntax error; final `ExportBPF` |
| Seccomp blacklist compiler | seccomp.go 186-301 | filter under construction | add one ERRNO rule per listed syscall; arch-dependent extra entries; `ExportBPF` |
| ld.so.cache reader | `src/unnamed/part_002` (cache.go) 179-350 | byte buffer cursor, `c.store: name -> []entry` | `IsSupported`/`ReadFile` failure, `getNewLdCache` (old header skip), new header checks, per-entry decode (`getString`, flag/hwcap filter), append to store, 386 panic; `GetLibraryPath` (first entry wins) |
| Dependency resolver | cache.go 83-177 | `toCheck`, `newToCheck`, `checkedFile`, `checkedLib`, `libraries`, `ret` | per level: scan each file's imports (`GetLibraries`), resolve each unchecked name via search path then cache, register, enqueue; then de-duplicate by `filepath.EvalSymlinks` |
| Import extractor `GetLibraries` | not in `src/` | none | opaque: file -> ordered import list, or error |
| Seccomp rule data | `src/data/tor-obfs4-amd64.seccomp` | data | a rule file in the gosecco dialect (`&&`, parentheses, `argL/argH`), not the dialect `installTBLOzWhitelist` parses; its `A=B \| C` declarations are the form `whitelist_aborts` shows aborting |

Interactions. `main` loads the config, creates directories, takes the lock
file, runs the installer and then `RunTorBrowser` (not in `src/`), which
compiles the whitelist and blacklist filters into file descriptors handed to
the bubblewrap child and calls `LoadCache` + `ResolveLibraries` to compute the
bind mounts. All of it is single-threaded and synchronous; the only
concurrency is between separate launcher processes sharing the lock file.

Hard behaviours.
* Resolver: the order of each BFS level comes from Go map iteration (random);
  a file can be reached by name while it is still waiting in the current
  level; a name found on the search path is scanned but not bind-mounted; any
  single failure (import decode, missing library, `EvalSymlinks`) aborts the
  whole result; `extraLibs` ride on whichever file is scanned first.
* Whitelist compiler: the constant table is mutated in line order, so
  correctness depends on declaration order; `||` alternatives become one
  libseccomp rule whose conditions are conjunctive; on non-amd64 the condition
  text is never parsed; `arg5` indexes a 5-element slice.
* Cache reader: untrusted offsets into the string table; bounds and
  terminators are only partly checked; the flag filter is a subset test.
* Launcher: the lock file is removed only by a deferred call, never after a
  kill (no signal handlers yet, see the `XXX` at main.go:82).

Properties that make each component correct.
* Resolver: when it succeeds its result equals the closure of the import
  graph (names reachable from the binaries and extra libraries, minus those on
  the search path, grouped by canonical path) whatever the map order; it fails
  exactly when something reachable cannot be decoded/found/canonicalised; it
  terminates; each file is scanned once (spec §4.4).
* Whitelist: an exported filter never allows a call the rule file (with the
  documented non-amd64 degradation) does not allow; malformed input never
  exports; `||` alternatives allow each alternative; valid input never panics.
* Blacklist: an exported filter denies exactly the list.
* Cache reader: never panics on any byte string; retained entries are native
  64-bit libraries; lookup returns the first retained entry in file order.
* Launcher: at most one launcher runs the browser at a time; a crashed
  launcher does not lock out later ones forever.

## 2. Plan

Order, most important behaviour first:

1. `DynlibResolve` — `ResolveLibraries`, one action per scan / per import name
   / per level switch / per de-dup entry, inputs (import graph, cache store,
   search path, symlinks) chosen in `Init` from small sets.  Reference closure
   `ReachNames` (RECURSIVE fixpoint) as the specification it must meet.
   Runs: `resolve` (pass), `resolve_scan_once` (violation of spec §4.4).
2. `SeccompWhitelist` — `installTBLOzWhitelist`, one action per line kind,
   rule files of up to 3 abstract lines, both architectures; a reference
   semantics `SpecAllows` of the rule language.  Runs: soundness (pass), and
   violations for same-argument `||`, malformed conditions on 386, and valid
   lines that abort the compile.
3. `SeccompBlacklist` — `installBasicBlacklist`.
4. `LdCache` — `getNewLdCache`/`LoadCache` over small abstract buffers
   (string table as a short sequence of NUL / non-NUL bytes, entry offsets
   0..len+1), `GetLibraryPath`; a violation for panics.  Its decoding
   contract is checked inside the `SandboxCore` run.
5. `SandboxCore` — composition: `LdCache` builds the store consumed by
   `DynlibResolve` (INSTANCE ... WITH in <- ...); a violation for the flag
   subset test, seen end to end.
6. `Launcher` — N launcher processes, lock file with O_EXCL, crash between
   `createLockFile` and `unlock`; mutual exclusion, release of the lock on
   every normal exit, and (violated) recovery after a kill.
7. `ConfigLoad` — `Load` as an operator, composed into `Launcher`, whose
   `LoadConfig` keeps the Config it returns.

Abstract specifications: the resolver's `ResolveSpec` (one atomic step from
inputs to the closure result or failure), refined by `DynlibResolve` under the
mapping that hides the BFS variables.

Status: items 1-7 and `ResolveSpec` are done.

## 3. Modules and runs (current)

Each module holds the call's inputs in a variable chosen in `Init` (from a
constant set the MC module fills), a `pc` for the point the code has reached,
and one action per branch of the code; `Returned` is the stuttering step of a
finished call.  `PROJECT.json` "map" gives the lines behind every definition.

### DynlibLookup, ResolveSpec, DynlibResolve (`Cache.ResolveLibraries`, cache.go 71-177)

`DynlibLookup` holds the call's inputs (`in`) and the lookups the code makes
on them.  These are `GetLibraryPath` (first cache entry), the search-path loop
(`SearchPathHit`), and `LibPath`, which tries the search path first and the
cache second.  `ResolveSpec` is what the call promises, taken in one atomic step:
`Resolve` returns the closure (`Expected`) when `ResolveSucceeds`, and `Fail`
returns an error otherwise.  `Grow` is a RECURSIVE fixpoint over the import
graph.  The spec also requires that the call returns.  `DynlibResolve` is the
code's walk.  Through `Abs == INSTANCE ResolveSpec WITH status <- ..., result
<- ...` it maps `pc` "done"/"failed" to the abstract status and shows `ret`
once the call is done.  The run checks `Abs!Spec` as a property.

State: `toCheck`/`idx` (the current level and the position in it), `impLibs`
(the imports of the file being scanned), `extraLibs`, `checkedFile`,
`checkedLib`, `newToCheck`, `libraries`, `pending` (de-dup keys not yet
visited), `ret`.  Inputs (`in`): `binaries`, `extraLibs`, the import lists of
each file, the files `GetLibraries` cannot decode, the cache store, the files
that exist (for the search path) and the `EvalSymlinks` result of each path.
Actions: `Scan`/`ScanFails` (lines 96-110), `SkipCheckedLib` (113-115),
`LibNotFound` (137-140), `RegisterLib` (143-152), `FileDone`, `LevelDone`
(155-158 then 92-95: the next level is any ordering of `newToCheck`, which is
Go's random map order), `DedupLib`/`DedupFails` (163-172, again in any order),
`Finish`.  The reference is the closure `Grow` (RECURSIVE fixpoint) of the
names reachable from the binaries and extras.

Bounds (MCDynlibResolve): two names, two search-path directories, ten paths;
import graphs with a cycle, a duplicate import, a library reachable both from
a binary and by name, a name on the search path, a name absent from the cache,
ambiguous cache entries and a dangling symlink.  These make every action fire
and every order of a two-file level happen; a third name adds no new case.

Fairness: `WF_vars(Next)`.  The loop is one goroutine that never blocks, so
once it is enabled it keeps taking steps.

### Launcher (`main`, main.go)

There are several launcher processes `p`, each a state machine over `pc[p]`
following `main()`:
* `LoadConfig`/`LoadFails` (config.Load on `cfgIn`, see ConfigLoad; log.Fatalf).
* `MakeDirectories`/`MakeDirectoriesFails`.  Without `XDG_RUNTIME_DIR`,
  `RuntimeDir()` panics, and `makeDirectories` recovers the panic into an
  error.
* `LockTaken`/`LockRefused` (`createLockFile` with `O_CREATE|O_EXCL`).
* `Install`.  Its error is only logged.
* `Spawned`/`SpawnFails` and `BrowserExits`.  Each return path runs the
  deferred `Unlock`.
* `Killed`: a signal at any point.  No handler is installed (the XXX at line
  82), so deferred calls do not run.

The shared state is `lockExists`, plus `runtimeDirSet` from the user's
environment.  Three processes make every order of two concurrent launchers
plus a later one happen; the processes are a symmetry set.

No fairness is assumed and no liveness is checked.  Nothing in `main()`
waits for another launcher (a held lock makes `OpenFile` fail at once), so
the only way a holder could keep the lock without exiting is an
`installer.Install` or `RunTorBrowser` that never returns, and both are
outside `src/`.  A progress property here would hold by the fairness
assumption alone.  That every exit path removes the lock file is the
invariant `LockStaleOnlyAfterKill`.

### ConfigLoad (`Load`, config.go 118-183)

`Load(in)` is a pure operator over what Load reads: the config file's state
(`absent`, `statError`, `decodeError` or `read`) and, when read, the fields
TOML decoded; `TOR_CONTROL_PORT`, `TOR_CONTROL_PASSWD`; GOOS and GOARCH.
`Defaulted` applies the overrides and defaults in the code's order, with the
hardened channel's `Locale = "ALL"`; `ok` is false exactly when one of the
error returns is taken (Stat/decode error, unsupported OS or architecture
when none is configured, a control port `ValidPorts` rejects, an unknown
channel or architecture).  In `Launcher`, `cfgIn` (one input for every
launcher, chosen in `Init`) guards `LoadConfig`/`LoadFails`, and
`LoadConfig` stores the result in `cfg[p]`.  `MCLauncher` enumerates files
with an empty or unparsable port, an empty, hardened or unknown channel, an
empty, native or non-Intel architecture, an empty or set locale, the three
failing file states, the port override set or not, Linux or FreeBSD, and
amd64 or 386 (312 inputs).  `LoadedConfigUsable` states what the installer
and RunTorBrowser rely on of a loaded Config.

### SandboxCore (composition)

`LoadCache` runs to completion, then `ResolveLibraries` runs on the store it
built (the order RunTorBrowser uses).  It is `INSTANCE LdCache WITH pc <- cpc`
plus `INSTANCE DynlibResolve WITH in <- ResIn, pc <- rpc`, where `ResIn` puts
`StoreView` into the call's inputs.  `StoreView` is c.store as
`GetLibraryPath` reads it.  Names and paths are the byte strings the cache
decodes.  The cache holds library `a` as a native entry, an i386 entry, or
both in either order, and holds `b` or not.  The run also decodes every cache
shape of `LdCacheShapes`, the set `MCLdCache` uses (see LdCache below).  So
the reader's own contract `StoreMatchesFile` is checked there, and the
resolver then runs on whatever store those caches give.  `Arches` is {amd64, 386}, so the `IsSupported`,
read-failure and 386 panic paths of `LoadCache` also occur there, each
ending the run with an error; `sandbox_core_native` and `ldcache_no_panic`
keep amd64 only, as their findings are about amd64.  Fairness: `WF_vars(Next)`, since one goroutine does
both.

### SeccompWhitelist (`installTBLOzWhitelist`, seccomp.go 33-184)

A rule file is a sequence of abstract lines: a comment/blank line, a line
with no `:` or `=`, a declaration `name = atoms`, or a rule
`syscall: clause || clause ...`.  A clause records whether it contains `==`,
its argument token and its value tokens.  The state is the line number,
`constantTable` and `filter`.  `filter` is a set of rules (syscall, set of
`<<arg, value>>` equality tests).  There is one action per outcome of a line:
skip, syntax error, declaration (valid or not), unknown syscall, 386
unconditional allow, `1`, a bad clause, the arg5 panic, an installed rule, and
a rule libseccomp rejects.  libseccomp's treatment of two tests on one argument
varies by release (EINVAL, or kept as a conjunction), so it is a
nondeterministic choice.  The reference `SpecAllows` reads the rule file as
the spec does: declarations in order, `||` as OR, and on 386 any rule naming
a known syscall as an unconditional allow.

`AbortsOnlyOnMalformedLine` is an action property: a step from "parse" to
"error" or "panic" happens only on a line the spec calls malformed.

Bounds: profiles of up to three lines over sixteen line shapes.  There are two
syscalls, three numerals, one built-in constant and argument slots {0, 1, 5},
on both architectures.  Three lines suffice for a declaration followed by its
use and then a redeclaration.

### SeccompBlacklist (`installBasicBlacklist`, seccomp.go 186-301)

The real 53-name list, plus vm86/vm86old on 386.  Which names libseccomp can
resolve is an input.  One action per list entry: add the deny rule, or abort
on an unknown name.

### LdCache (`getNewLdCache`, `LoadCache`, cache.go 186-350)

A call starts at `"start"` with `arch` (runtime.GOARCH) one of `Arches`.
`Unsupported` is `IsSupported()` refusing; IsSupported is not under `src/`,
so off amd64 it may refuse or not.  `ReadFails` is the `ReadFile` error and
`ReadCache` the successful read.  Off amd64 a valid header reaches the
`switch runtime.GOARCH` default case, `NoFlagCheck`: `panic(errUnsupported)`.
On amd64 `NewHeaderRead` sets the flag check and the entries are decoded.

The file is abstracted to what the decoder checks: the old magic, the old
entry count (its parity fixes the pad), where the bytes run out, the new
magic, the declared and present entries, the declared string length, and the
string table as bytes.  There is one action per check in the order the code
makes them, and one per entry (`EntryUnreadable`, `EntryDecoded`).  `GetString`
is the code's `getString`, with its "error" and "panic" outcomes.
Bounds: all 80 header shapes with no entries, plus entry lists of up to two
entries.  The entries use native and i386 flags, offsets 0-5 (inside, at and
past the end of a 4-byte table) and a header offset, over two string tables,
one of which has no final NUL.

### Runs

| Run | Expect | Shows |
|---|---|---|
| `resolve` | pass | `TypeOK`; `ResolveRefinesSpec`: the walk implements `ResolveSpec` for every map order. It returns, success gives exactly the closure grouped by canonical path, and failure happens exactly when a reachable file or path is broken |
| `resolve_scan_once` | violation | a file queued while still pending in the current level is scanned twice (spec 4.4) |
| `whitelist` | pass | `TypeOK`; `FilterWithinSpec`: the exported filter allows nothing the rule file does not |
| `whitelist_or` | violation | same-argument `\|\|` is not an OR |
| `whitelist_malformed` | violation | on 386 malformed conditions are exported as allows |
| `whitelist_aborts` | violation | `FOO=AF_UNIX`, a declaration the spec allows, aborts the compile; the property also catches the `arg5` panic and the libseccomp rejection of same-argument `\|\|` |
| `blacklist` | pass | `TypeOK`; `DeniesExactlyList` |
| `ldcache_no_panic` | violation | on amd64, truncated entries or unterminated strings panic |
| `launcher` | pass | `TypeOK` (a holder implies the lock file exists); `MutualExclusion`; `LoadedConfigUsable`: every Config Load returns is usable, and is the host's architecture when the file names none; `LockStaleOnlyAfterKill` |
| `launcher_stale_lock` | violation | after a kill, later launchers are refused though nobody holds the lock |
| `sandbox_core` | pass | `TypeOK` (no NUL in keys and paths); `StoreMatchesFile`: a loaded store is exactly the accepted entries by name, in file order; `MountsFirstRetained`: a mounted library is the first retained cache entry for its name |
| `sandbox_core_native` | violation | a 32-bit library is registered for mounting for a 64-bit binary |

Every property of a passing run has a mutant in `PROJECT.json`.  Each mutant
is a plausible bug in the mapped code, and TLC finds it.

### Defects seen in the code, not checked by a run

* main.go:85-88: an installer error is only logged, and the browser is
  launched anyway.  `Install` models it.
The `arg5` panic (seccomp.go:104/144) is caught by `AbortsOnlyOnMalformedLine`,
but the `whitelist_aborts` counterexample TLC prints is the shorter
declaration one.

### Not modelled (yet)

* `utils.ParseControlPortString` (bulb, not under `src/`): the strings it
  accepts are the input set `ValidPorts`.  `DialControlPort`, `UserDataDir`
  and `BundleInstallDir` compute paths or do network I/O and change no state
  (the `UserDataDir` panic is part of `MakeDirectoriesFails`).
* `installer.Install`, `RunTorBrowser` and bubblewrap are not under `src/`.
  They appear only as success or failure in `Launcher`, and as the
  cache-then-resolve order in `SandboxCore`.
* `GetLibraries`, which is not under `src/`: it is an input of DynlibResolve.
* The `.seccomp` data file, which is data.  Its rules use the gosecco dialect
  (`&&`, parentheses, `argL/argH`) that `installTBLOzWhitelist` does not
  parse, and its declarations OR earlier constants (`A=B | C`), which the
  compiler rejects (the `whitelist_aborts` finding).
* The hwcap and osVersion fields of cache entries, which the amd64 code
  reads and ignores.
* Logging, and the ambiguous-entry debug dump, which only logs.
