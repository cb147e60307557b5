------------------------------ MODULE LdCache ------------------------------
(***************************************************************************)
(* LoadCache and getNewLdCache (cache.go): decode /etc/ld.so.cache into    *)
(* c.store, name -> entries in file order, and GetLibraryPath over it.     *)
(*                                                                         *)
(* The file is abstracted to what the decoder's checks read:               *)
(*   oldMagic     the 12-byte "ld.so-1.7.0" prefix is present              *)
(*   oldNlibs     the old-format entry count (its parity fixes the pad)    *)
(*   cut          where the bytes run out before the new entries, if they  *)
(*                do: "nlibs", "libs", "pad", "newheader" or "none"        *)
(*   newMagic     "glibc-ld.so.cache1.1" follows the pad                   *)
(*   nlibs        the new-format entry count declared in the header       *)
(*   entries      the 24-byte entries present: [flags, k, v]               *)
(*   lenStrings   the declared string-table length                        *)
(*   strtab       the bytes after the entries, as byte values (NUL is 0)   *)
(* A string offset k or v is relative to the new header, as in the file;   *)
(* HdrOff stands for any offset into the header and entry area (a string   *)
(* read there ends at a NUL inside that area), and an integer j for the    *)
(* offset of byte j of strtab (0-based).  Models keep strtab shorter than  *)
(* one entry, so entries missing from the buffer are past its end.         *)
(***************************************************************************)
EXTENDS Naturals, Sequences, SequencesExt, FiniteSets, Bitwise

CONSTANTS
    Caches,      \* the ld.so.cache contents to decode
    HdrOff,      \* an offset into the header / entries area
    HdrString,   \* the string read at such an offset
    Arches       \* the values of runtime.GOARCH to decode on

VARIABLES
    file,   \* the bytes of /etc/ld.so.cache (input)
    arch,   \* runtime.GOARCH (input)
    pc,     \* "start", "old", "new", "libs", "loaded", "error" or "panic"
    i,      \* index of the entry being decoded
    store   \* c.store: name -> entries (records) in file order

vars == <<file, arch, pc, i, store>>

flagX8664Lib64 == 768    \* 0x0300
flagElfLibc6   == 3

-----------------------------------------------------------------------------
\* padLen = ((off+8-1)/8)*8 - off, with off = 12 + 4 + 12*nlibs.
PadLen(n) ==
    LET off == 12 + 4 + 12 * n
    IN  ((off + 8 - 1) \div 8) * 8 - off

\* Mutant of GetString: the slice keeps the terminator, idx : idx+l+1.
GetStringWithNul(idx) ==
    IF idx = HdrOff THEN [st |-> "ok", s |-> HdrString]
    ELSE IF idx > Len(file.strtab) THEN [st |-> "error", s |-> <<>>]
    ELSE LET rest == SubSeq(file.strtab, idx + 1, Len(file.strtab))
             l    == SelectInSeq(rest, LAMBDA c : c = 0)
         IN  IF l = 0 THEN [st |-> "panic", s |-> <<>>]
             ELSE [st |-> "ok", s |-> SubSeq(rest, 1, l)]

\* getString(idx): bounds check against the whole new-format buffer, then
\* bytes.IndexByte for the terminating NUL; l = -1 (no NUL) makes the slice
\* stringTable[idx:idx-1] panic.  The status is "ok", "error" or "panic".
GetString(idx) ==
    IF idx = HdrOff THEN [st |-> "ok", s |-> HdrString]
    ELSE IF idx > Len(file.strtab) THEN [st |-> "error", s |-> <<>>]
    ELSE LET rest == SubSeq(file.strtab, idx + 1, Len(file.strtab))
             l    == SelectInSeq(rest, LAMBDA c : c = 0)
         IN  IF l = 0 THEN [st |-> "panic", s |-> <<>>]
             ELSE [st |-> "ok", s |-> SubSeq(rest, 1, l - 1)]

\* flagCheckFn on amd64: flags&wantFlags == flags.
FlagCheck(flags) ==
    LET wantFlags == flagX8664Lib64 | flagElfLibc6
    IN  (flags & wantFlags) = flags

\* Cache.GetLibraryPath: the first entry of c.store[name], "" if none.
GetLibraryPath(name) ==
    IF name \in DOMAIN store THEN store[name][1].value ELSE <<>>

-----------------------------------------------------------------------------
Init ==
    /\ file \in Caches
    /\ arch \in Arches
    /\ pc = "start"
    /\ i = 1
    /\ store = <<>>

\* IsSupported() is false: return errUnsupported.  IsSupported is not under
\* src/; only amd64 has a flag check below, so it is taken to hold there,
\* and either way on any other GOARCH.
Unsupported ==
    /\ pc = "start" /\ arch # "amd64"
    /\ pc' = "error"
    /\ UNCHANGED <<file, arch, i, store>>

\* ioutil.ReadFile(ldSoCache) fails.
ReadFails ==
    /\ pc = "start"
    /\ pc' = "error"
    /\ UNCHANGED <<file, arch, i, store>>

\* The file is read; getNewLdCache runs on it.
ReadCache ==
    /\ pc = "start"
    /\ pc' = "old"
    /\ UNCHANGED <<file, arch, i, store>>

\* getNewLdCache fails: bad old_magic, or truncated nlibs / libs[] / pad.
OldFormatInvalid ==
    /\ pc = "old"
    /\ \/ ~file.oldMagic
       \/ file.cut \in {"nlibs", "libs"}
       \/ file.cut = "pad" /\ PadLen(file.oldNlibs) > 0
    /\ pc' = "error"
    /\ UNCHANGED <<file, arch, i, store>>

\* getNewLdCache returns the bytes after the pad.
OldFormatSkipped ==
    /\ pc = "old"
    /\ file.oldMagic
    /\ file.cut \notin {"nlibs", "libs"}
    /\ file.cut = "pad" => PadLen(file.oldNlibs) = 0
    /\ pc' = "new"
    /\ UNCHANGED <<file, arch, i, store>>

\* Bad new_magic (also: nothing after a zero-length pad), truncated new
\* header, or lenStrings different from the bytes after the entries.
NewHeaderInvalid ==
    /\ pc = "new"
    /\ \/ file.cut = "pad" \/ ~file.newMagic
       \/ file.cut = "newheader"
       \/ /\ Len(file.entries) = file.nlibs
          /\ file.lenStrings # Len(file.strtab)
    /\ pc' = "error"
    /\ UNCHANGED <<file, arch, i, store>>

\* rawLibs := b[:nlibs*entrySz]; b = b[len(rawLibs):] is not bounds
\* checked: with fewer entries in the buffer than declared, it panics.
EntriesPastEnd ==
    /\ pc = "new"
    /\ file.cut = "none" /\ file.newMagic
    /\ Len(file.entries) < file.nlibs
    /\ pc' = "panic"
    /\ UNCHANGED <<file, arch, i, store>>

\* The header is valid and the switch on runtime.GOARCH reaches its
\* default case ("XXX: Figure out 386"): panic(errUnsupported).
NoFlagCheck ==
    /\ pc = "new" /\ arch # "amd64"
    /\ file.cut = "none" /\ file.newMagic
    /\ Len(file.entries) = file.nlibs
    /\ file.lenStrings = Len(file.strtab)
    /\ pc' = "panic"
    /\ UNCHANGED <<file, arch, i, store>>

\* The header is valid, and on amd64 flagCheckFn and capCheckFn are set.
NewHeaderRead ==
    /\ pc = "new" /\ arch = "amd64"
    /\ file.cut = "none" /\ file.newMagic
    /\ Len(file.entries) = file.nlibs
    /\ file.lenStrings = Len(file.strtab)
    /\ pc' = "libs"
    /\ UNCHANGED <<file, arch, i, store>>

\* e.key, e.value := getString(kIdx), getString(vIdx): an error or a panic.
EntryUnreadable ==
    /\ pc = "libs" /\ i <= file.nlibs
    /\ LET k == GetString(file.entries[i].k)
           v == GetString(file.entries[i].v)
       IN  /\ k.st # "ok" \/ v.st # "ok"
           /\ pc' = IF k.st # "ok" THEN k.st ELSE v.st
    /\ UNCHANGED <<file, arch, i, store>>

\* Mutant of EntryDecoded: a later entry is put in front of the earlier
\* ones for its name.
EntryDecodedPrepend ==
    /\ pc = "libs" /\ i <= file.nlibs
    /\ LET e   == file.entries[i]
           k   == GetString(e.k)
           v   == GetString(e.v)
           ent == [key |-> k.s, value |-> v.s, flags |-> e.flags]
       IN  /\ k.st = "ok" /\ v.st = "ok"
           /\ store' = IF ~FlagCheck(e.flags) THEN store
                       ELSE IF k.s \in DOMAIN store
                       THEN [store EXCEPT ![k.s] = <<ent>> \o @]
                       ELSE store @@ (k.s :> <<ent>>)
    /\ i' = i + 1
    /\ UNCHANGED <<file, arch, pc>>

\* Both strings read: append the entry to c.store[key] if flagCheckFn and
\* capCheckFn (always true on amd64) accept it, else log and ignore it.
EntryDecoded ==
    /\ pc = "libs" /\ i <= file.nlibs
    /\ LET e   == file.entries[i]
           k   == GetString(e.k)
           v   == GetString(e.v)
           ent == [key |-> k.s, value |-> v.s, flags |-> e.flags]
       IN  /\ k.st = "ok" /\ v.st = "ok"
           /\ store' = IF ~FlagCheck(e.flags) THEN store
                       ELSE IF k.s \in DOMAIN store
                       THEN [store EXCEPT ![k.s] = Append(@, ent)]
                       ELSE store @@ (k.s :> <<ent>>)
    /\ i' = i + 1
    /\ UNCHANGED <<file, arch, pc>>

\* The ambiguous-entry dump only logs; return c, nil.
Loaded ==
    /\ pc = "libs" /\ i = file.nlibs + 1
    /\ pc' = "loaded"
    /\ UNCHANGED <<file, arch, i, store>>

Returned ==
    /\ pc \in {"loaded", "error", "panic"}
    /\ UNCHANGED vars

Next ==
    \/ Unsupported \/ ReadFails \/ ReadCache
    \/ OldFormatInvalid \/ OldFormatSkipped
    \/ NewHeaderInvalid \/ EntriesPastEnd \/ NoFlagCheck \/ NewHeaderRead
    \/ EntryUnreadable \/ EntryDecoded \/ Loaded
    \/ Returned

Spec == Init /\ [][Next]_vars

-----------------------------------------------------------------------------
(* What decoding must produce (spec sections 4.3 and 8).                   *)

\* The NUL-terminated string at byte j of strtab, stated directly: the
\* bytes before the first NUL at or after j.
StringAt(j) ==
    IF j = HdrOff THEN HdrString
    ELSE LET n == CHOOSE n \in 0..Len(file.strtab) - j - 1 :
                     /\ file.strtab[j + n + 1] = 0
                     /\ \A m \in 0..n - 1 : file.strtab[j + m + 1] # 0
         IN  [m \in 1..n |-> file.strtab[j + m]]

\* The entries accepted by the flag check, decoded, in file order.
Retained ==
    LET decoded == [j \in 1..file.nlibs |->
                      [key |-> StringAt(file.entries[j].k),
                       value |-> StringAt(file.entries[j].v),
                       flags |-> file.entries[j].flags]]
    IN  SelectSeq(decoded, LAMBDA e : FlagCheck(e.flags))

-----------------------------------------------------------------------------
(* Properties.                                                             *)

TypeOK ==
    /\ arch \in Arches
    /\ pc \in {"start", "old", "new", "libs", "loaded", "error", "panic"}
    /\ i \in 1..file.nlibs + 1
    /\ \A key \in DOMAIN store :
         /\ store[key] # <<>>
         /\ \A j \in DOMAIN store[key] :
              /\ store[key][j].key = key
              /\ 0 \notin Range(key) \cup Range(store[key][j].value)

\* A loaded cache holds exactly the accepted entries, grouped by name, each
\* name's entries in file order with the key and path found at their
\* offsets, so GetLibraryPath's first match is the first such entry of the
\* file.
StoreMatchesFile ==
    pc = "loaded" =>
        /\ DOMAIN store = {Retained[j].key : j \in DOMAIN Retained}
        /\ \A key \in DOMAIN store :
             store[key] = SelectSeq(Retained, LAMBDA e : e.key = key)

=============================================================================
