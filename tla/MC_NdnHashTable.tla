--------------------------- MODULE MC_NdnHashTable ---------------------------
(***************************************************************************)
(* NdnHashTable for TLC: three prefixes (two of len 2, one of len 3), two  *)
(* buckets of two slots, two tag values and two ports.  The worst-case     *)
(* headroom is 3 + 3.  With LogCap 18 three records fit, so a third key    *)
(* goes to its secondary bucket when the primary is full; with LogCap 16   *)
(* the third insert stops on the headroom assert although its record       *)
(* would still fit.                                                        *)
(***************************************************************************)
EXTENDS NdnHashTable, TLC

CONSTANTS k1, k2, k3, k4, t1, t2

MCTags == {t1, t2}

\* k1 and k2 have the same length, and tag values are only compared.
MCSymmetry == Permutations({k1, k2}) \cup Permutations(MCTags)

MCKeys == {k1, k2, k3}
MCKeyLen == (k1 :> 2) @@ (k2 :> 2) @@ (k3 :> 3)
MCHeadroom == 3 + 3

\* For the argument and headroom asserts: "/" (len 1), two legal prefixes
\* and one longer than NDN_MAX_URL_LENGTH = 3, whose record (8 bytes) is
\* larger than the headroom (6) sized for the longest legal prefix.
MCLimitKeys == {k1, k2, k3, k4}
MCLimitKeyLen == (k1 :> 1) @@ (k2 :> 2) @@ (k3 :> 3) @@ (k4 :> 5)

\* No action reads call or ret: runs whose properties do not mention them
\* identify states that differ only there.
MCView == <<urlHash, tagOf, tagHash, ht_index, ht_log, log_head, aborted>>
=============================================================================
