--------------------------- MODULE MC_NdnBulkLoad ---------------------------
(***************************************************************************)
(* NdnBulkLoad for TLC: files of two lines over the names "a", "a/b", "a/" *)
(* and "a/b/a".  "a/" has an empty trailing component, which ndn_init     *)
(* loads as "a//"; "a/b/a" does not fit the four bytes of url and stops   *)
(* ndn_init.  A name and its extension appear in both orders and lines    *)
(* repeat; two ports; two buckets of one slot, so that the prefixes "a/",  *)
(* "a/b/" and "a//" compete for two slots and inserts fail.               *)
(***************************************************************************)
EXTENDS NdnBulkLoad, TLC

MCCharCode == ("a" :> 97) @@ ("b" :> 98)

MCUrlSet == {<<"a">>, <<"a", "b">>, <<"a", "">>, <<"a", "b", "a">>}

\* A later run on "a" twice (so a name the first run loaded may draw another
\* port, and its extension "a/b" is no longer a line) or on "a/" and "a/b"
\* (so "a" is no longer a line).
MCRestartFiles == {<<<<"a">>, <<"a">>>>, <<<<"a", "">>, <<"a", "b">>>>}
=============================================================================
