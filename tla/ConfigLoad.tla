----------------------------- MODULE ConfigLoad -----------------------------
(***************************************************************************)
(* config.Load() (config.go) as a pure operator over what it reads: the    *)
(* config file (fileState "absent", "statError", "decodeError" or "read",  *)
(* and fileConfig, the fields TOML decoded), the TOR_CONTROL_PORT and      *)
(* TOR_CONTROL_PASSWD                                                     *)
(* variables, and runtime.GOOS/GOARCH.  Every error return is folded into  *)
(* ok = FALSE; the caller only logs it.  utils.ParseControlPortString is   *)
(* not under src/: the strings it accepts are the constant ValidPorts.     *)
(***************************************************************************)
EXTENDS Naturals

CONSTANT ValidPorts     \* control port strings ParseControlPortString accepts

defaultControlPort == "tcp://127.0.0.1:9051"
defaultChannel     == "release"
defaultLocale      == "en-US"
allLocale          == "ALL"
archLinux32        == "linux32"
archLinux64        == "linux64"

\* new(Config): every field the empty string.
EmptyConfig ==
    [ControlPort |-> "", ControlPortPassword |-> "", Channel |-> "",
     Architecture |-> "", Locale |-> ""]

\* os.Stat and toml.DecodeFile: a missing file is fine, any other Stat
\* error or a decode error is returned.
FileRead(in) == in.fileState \in {"absent", "read"}

FromFile(in) == IF in.fileState = "read" THEN in.fileConfig ELSE EmptyConfig

\* An environment variable that is set overrides; an empty field defaults.
Override(envVal, v) == IF envVal # "" THEN envVal ELSE v
OrDefault(v, d) == IF v = "" THEN d ELSE v

\* The switch on runtime.GOARCH when no Architecture is configured.
HostArch(goarch) ==
    CASE goarch = "386"   -> archLinux32
      [] goarch = "amd64" -> archLinux64
      [] OTHER            -> ""

\* No "unsupported OS" or "unsupported Architecture" error: those checks
\* run only when the file left Architecture empty.
ArchResolved(in) ==
    \/ FromFile(in).Architecture # ""
    \/ in.goos = "linux" /\ HostArch(in.goarch) # ""

\* The overrides and defaults, in the code's order; the "hardened" case of
\* the Channel validation then replaces the Locale with "ALL".
Defaulted(in) ==
    LET f == FromFile(in)
        channel == OrDefault(f.Channel, defaultChannel)
    IN  [ControlPort |->
             OrDefault(Override(in.envControlPort, f.ControlPort),
                       defaultControlPort),
         ControlPortPassword |->
             Override(in.envControlPasswd, f.ControlPortPassword),
         Channel |-> channel,
         Architecture |-> OrDefault(f.Architecture, HostArch(in.goarch)),
         Locale |-> IF channel = "hardened" THEN allLocale
                    ELSE OrDefault(f.Locale, defaultLocale)]

\* Mutant of Validated: the Architecture switch is left out.
ValidatedNoArch(c) ==
    /\ c.ControlPort \in ValidPorts
    /\ c.Channel \in {"release", "alpha", "hardened"}

\* The validation: ControlPortAddr parses, Channel and Architecture are
\* among the supported values.
Validated(c) ==
    /\ c.ControlPort \in ValidPorts
    /\ c.Channel \in {"release", "alpha", "hardened"}
    /\ c.Architecture \in {archLinux32, archLinux64}

\* config.Load(): ok is FALSE exactly when Load returns an error.
Load(in) ==
    [ok  |-> FileRead(in) /\ ArchResolved(in) /\ Validated(Defaulted(in)),
     cfg |-> Defaulted(in)]

=============================================================================
