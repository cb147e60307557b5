--------------------------- MODULE LdCacheShapes ---------------------------
(* Cache files: every way the headers can be wrong or cut short (with no   *)
(* entries), and well-formed headers with one or two entries whose flags   *)
(* are x86-64 or i386 libc6 and whose offsets start a string, hit its      *)
(* terminator, point at the end of the buffer, past it, into the header    *)
(* (h, the model value LdCache calls HdrOff), or into an unterminated tail. *)
EXTENDS Naturals, Sequences

Header(om, on, cut, nm, ls) ==
    [oldMagic |-> om, oldNlibs |-> on, cut |-> cut, newMagic |-> nm,
     nlibs |-> 0, entries |-> <<>>, lenStrings |-> ls, strtab |-> <<>>]

HeaderCaches ==
    { Header(om, on, cut, nm, ls) :
        om \in BOOLEAN, on \in {0, 1},
        cut \in {"none", "nlibs", "libs", "pad", "newheader"},
        nm \in BOOLEAN, ls \in {0, 1} }

\* "a\\0b\\0" and "ab\\0a" (the last string unterminated).
Strtabs == { <<97, 0, 98, 0>>, <<97, 98, 0, 97>> }

Entry(f, k, v) == [flags |-> f, k |-> k, v |-> v]

Entries(h) ==
    { Entry(f, k, v) : f \in {771, 3}, k \in {0, 1, 2, 3, 4, 5, h},
                       v \in {0, 2} }

\* n entries declared, n or n - 1 of them in the buffer.
CachesWith(st, n, es) ==
    [oldMagic |-> TRUE, oldNlibs |-> 1, cut |-> "none", newMagic |-> TRUE,
     nlibs |-> n, entries |-> es, lenStrings |-> Len(st), strtab |-> st]

EntryCaches(h) ==
    UNION { { CachesWith(st, n, es) :
                es \in UNION {[1..m -> Entries(h)] : m \in {n - 1, n}} }
            : st \in Strtabs, n \in 1..2 }

LdCaches(h) == HeaderCaches \cup EntryCaches(h)

=============================================================================
