---------------------------- MODULE MCLdCache ----------------------------
(* LoadCache over the cache shapes of LdCacheShapes.                       *)
EXTENDS LdCache, LdCacheShapes

MCCaches == LdCaches(HdrOff)

\* The magic "glibc-ld.so.cache1.1" read as a string (bytes abbreviated).
MCHdrString == <<103, 108, 105, 98, 99>>

=============================================================================
