----------------------------- MODULE MCLauncher -----------------------------
EXTENDS Launcher, TLC

CONSTANTS p1, p2, p3

MCProcs == {p1, p2, p3}

MCSymmetry == Permutations(MCProcs)

\* ControlPortAddr accepts the default URI and a bare port number.
MCValidPorts == {"tcp://127.0.0.1:9051", "9051"}

\* What toml.DecodeFile may leave in the Config: empty fields, a port it
\* cannot parse, an unknown channel or architecture, a locale.
MCConfigFiles ==
    [ControlPort: {"", "bogus"}, ControlPortPassword: {""},
     Channel: {"", "hardened", "nightly"}, Architecture: {"", "linux64", "armhf"},
     Locale: {"", "ja-JP"}]

MCConfigInputs ==
    [fileState: {"read"}, fileConfig: MCConfigFiles,
     envControlPort: {"", "9051"}, envControlPasswd: {""},
     goos: {"linux", "freebsd"}, goarch: {"amd64", "386"}]
    \cup
    [fileState: {"absent", "statError", "decodeError"},
     fileConfig: {Config!EmptyConfig},
     envControlPort: {"", "9051"}, envControlPasswd: {""},
     goos: {"linux", "freebsd"}, goarch: {"amd64", "386"}]
=============================================================================
