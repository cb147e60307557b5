------------------------------ MODULE Launcher ------------------------------
(***************************************************************************)
(* main() of sandboxed-tor-browser (main.go), run by several launcher      *)
(* processes of one user at once.  They share the file system: the         *)
(* runtime directory and the lock file in it.  Each process is a state    *)
(* machine over pc[p]:                                                     *)
(*   "start" -> "mkdir" -> "lock" -> "install" -> "run" -> "browsing"      *)
(* and ends in "exited" (returned or log.Fatalf) or "killed" (a signal:    *)
(* the process dies without running its deferred calls).                  *)
(* config.Load is the pure operator of ConfigLoad over the config file    *)
(* and environment cfgIn.  MkdirAll, installer.Install and RunTorBrowser  *)
(* are not under src/; each is abstracted to its success or failure.      *)
(***************************************************************************)
EXTENDS Naturals, FiniteSets

CONSTANTS
    Procs,          \* launcher processes started by the user
    ConfigInputs,   \* config files and environments config.Load may read
    ValidPorts      \* as in ConfigLoad

Config == INSTANCE ConfigLoad

\* cfg is nil: no Config loaded yet.
NoConfig == [loaded |-> FALSE]

VARIABLES
    runtimeDirSet,  \* XDG_RUNTIME_DIR is set in the user's environment
    lockExists,     \* $XDG_RUNTIME_DIR/sandboxed-tor-browser/lock exists
    cfgIn,          \* the config file and environment every launcher reads
    cfg,            \* cfg[p]: the Config launcher p loaded, or NoConfig
    pc              \* pc[p]: where launcher p is in main()

vars == <<runtimeDirSet, cfgIn, cfg, lockExists, pc>>

States == {"start", "mkdir", "lock", "install", "run", "browsing",
           "exited", "killed"}

\* Between createLockFile and the deferred lock.unlock().
Holding(p) == pc[p] \in {"install", "run", "browsing"}

Transition(p, from, to) ==
    /\ pc[p] = from
    /\ pc' = [pc EXCEPT ![p] = to]

\* lock.unlock(): os.Remove of the lock file, then Close.
Unlock == lockExists' = FALSE

-----------------------------------------------------------------------------
Init ==
    /\ runtimeDirSet \in BOOLEAN
    /\ cfgIn \in ConfigInputs
    /\ cfg = [p \in Procs |-> NoConfig]
    /\ lockExists = FALSE
    /\ pc = [p \in Procs |-> "start"]

\* config.Load() succeeds.
LoadConfig(p) ==
    /\ Config!Load(cfgIn).ok
    /\ Transition(p, "start", "mkdir")
    /\ cfg' = [cfg EXCEPT ![p] = Config!Load(cfgIn).cfg]
    /\ UNCHANGED <<runtimeDirSet, cfgIn, lockExists>>

\* config.Load() fails: log.Fatalf.
LoadFails(p) ==
    /\ ~Config!Load(cfgIn).ok
    /\ Transition(p, "start", "exited")
    /\ UNCHANGED <<runtimeDirSet, cfgIn, cfg, lockExists>>

\* makeDirectories: MkdirAll of UserDataDir and RuntimeDir.  MkdirAll of
\* a directory that exists succeeds, so concurrent launchers agree.
MakeDirectories(p) ==
    /\ runtimeDirSet
    /\ Transition(p, "mkdir", "lock")
    /\ UNCHANGED <<runtimeDirSet, cfgIn, cfg, lockExists>>

\* makeDirectories returns an error: RuntimeDir() panics without
\* XDG_RUNTIME_DIR (recovered into err), or UserDataDir() panics, or
\* MkdirAll fails.  main calls log.Fatalf.
MakeDirectoriesFails(p) ==
    /\ Transition(p, "mkdir", "exited")
    /\ UNCHANGED <<runtimeDirSet, cfgIn, cfg, lockExists>>

\* Mutant of LockTaken: O_CREATE without O_EXCL opens an existing file.
LockTakenNoExcl(p) ==
    /\ Transition(p, "lock", "install")
    /\ lockExists' = TRUE
    /\ UNCHANGED <<runtimeDirSet, cfgIn, cfg>>

\* createLockFile: os.OpenFile(O_CREATE|O_EXCL) creates the lock file.
LockTaken(p) ==
    /\ ~lockExists
    /\ Transition(p, "lock", "install")
    /\ lockExists' = TRUE
    /\ UNCHANGED <<runtimeDirSet, cfgIn, cfg>>

\* OpenFile fails with EEXIST: log.Fatalf("failed to create lock file").
LockRefused(p) ==
    /\ lockExists
    /\ Transition(p, "lock", "exited")
    /\ UNCHANGED <<runtimeDirSet, cfgIn, cfg, lockExists>>

\* Mutant of Install: the lock is released when Install returns, as with
\* a `defer lock.unlock()` scoped to a helper that returns before launch.
InstallAfterUnlock(p) ==
    /\ Transition(p, "install", "run")
    /\ Unlock
    /\ UNCHANGED <<runtimeDirSet, cfgIn, cfg>>

\* installer.Install(cfg), succeeding or not: on error it only logs (the
\* `return` is commented out) and main goes on to launch.
Install(p) ==
    /\ Transition(p, "install", "run")
    /\ UNCHANGED <<runtimeDirSet, cfgIn, cfg, lockExists>>

\* Mutant of SpawnFails: main returns without the deferred unlock.
SpawnFailsNoUnlock(p) ==
    /\ Transition(p, "run", "exited")
    /\ UNCHANGED <<runtimeDirSet, cfgIn, cfg, lockExists>>

\* RunTorBrowser fails: log, return, deferred lock.unlock() removes the
\* lock file.
SpawnFails(p) ==
    /\ Transition(p, "run", "exited")
    /\ Unlock
    /\ UNCHANGED <<runtimeDirSet, cfgIn, cfg>>

\* RunTorBrowser starts the sandboxed browser.
Spawned(p) ==
    /\ Transition(p, "run", "browsing")
    /\ UNCHANGED <<runtimeDirSet, cfgIn, cfg, lockExists>>

\* cmd.Wait() returns, main returns, lock.unlock() removes the lock file.
BrowserExits(p) ==
    /\ Transition(p, "browsing", "exited")
    /\ Unlock
    /\ UNCHANGED <<runtimeDirSet, cfgIn, cfg>>

\* A signal kills the launcher (no handlers are installed, see the XXX
\* after the defer): deferred calls do not run, the lock file stays.
Killed(p) ==
    /\ pc[p] \notin {"exited", "killed"}
    /\ pc' = [pc EXCEPT ![p] = "killed"]
    /\ UNCHANGED <<runtimeDirSet, cfgIn, cfg, lockExists>>

\* Every launcher has ended.
Terminated ==
    /\ \A p \in Procs : pc[p] \in {"exited", "killed"}
    /\ UNCHANGED vars

\* The steps launcher p takes on its own, up to starting the browser.
Step(p) ==
    \/ LoadConfig(p) \/ LoadFails(p)
    \/ MakeDirectories(p) \/ MakeDirectoriesFails(p)
    \/ LockTaken(p) \/ LockRefused(p)
    \/ Install(p) \/ SpawnFails(p) \/ Spawned(p)

Next ==
    \/ \E p \in Procs : Step(p) \/ BrowserExits(p) \/ Killed(p)
    \/ Terminated

\* Only safety is checked: whether installer.Install and RunTorBrowser
\* return is outside src/, so no fairness is assumed.
Spec == Init /\ [][Next]_vars

-----------------------------------------------------------------------------
(* Properties.                                                             *)

TypeOK ==
    /\ runtimeDirSet \in BOOLEAN
    /\ cfgIn \in ConfigInputs
    /\ \A p \in Procs : cfg[p] = NoConfig \/ DOMAIN cfg[p] = DOMAIN Config!EmptyConfig
    /\ lockExists \in BOOLEAN
    /\ pc \in [Procs -> States]
    /\ (\E p \in Procs : Holding(p)) => lockExists

\* A launcher that gets past config.Load holds a Config the installer and
\* RunTorBrowser can use: a control port ControlPortAddr parses, a known
\* channel, an Intel Linux architecture, a locale that is set and is "ALL"
\* on the hardened channel; and when the config file names no
\* architecture, Load ran on Linux and chose the host's own.
LoadedConfigUsable ==
    \A p \in Procs : cfg[p] # NoConfig =>
        /\ cfg[p].ControlPort \in ValidPorts
        /\ cfg[p].Channel \in {"release", "alpha", "hardened"}
        /\ cfg[p].Architecture \in {"linux32", "linux64"}
        /\ cfg[p].Locale # ""
        /\ cfg[p].Channel = "hardened" => cfg[p].Locale = "ALL"
        /\ Config!FromFile(cfgIn).Architecture = "" =>
               /\ cfgIn.goos = "linux"
               /\ cfgIn.goarch = "386" => cfg[p].Architecture = "linux32"
               /\ cfgIn.goarch = "amd64" => cfg[p].Architecture = "linux64"

\* The O_EXCL lock file keeps launchers apart: at most one process is
\* between createLockFile and its unlock (installing or running the
\* browser), whatever the interleaving of their steps and kills.
MutualExclusion == Cardinality({p \in Procs : Holding(p)}) <= 1

\* Once no launcher is between createLockFile and unlock, the lock file
\* is gone: a later launcher is refused only while another one holds it.
LockRefusedOnlyWhenHeld ==
    [][\A p \in Procs :
         (pc[p] = "lock" /\ pc'[p] = "exited")
            => \E q \in Procs \ {p} : Holding(q)]_vars

\* Every path out of main() after createLockFile runs the deferred
\* unlock, so the lock file outlives its holder only when the holder was
\* killed.
LockStaleOnlyAfterKill ==
    lockExists => \E p \in Procs : Holding(p) \/ pc[p] = "killed"

=============================================================================
