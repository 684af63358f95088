------------------------------ MODULE MC_NdnUrlFile ------------------------------
(***************************************************************************)
(* NdnUrlFile for TLC: lines over the bytes 'a' and '/', a buffer of four  *)
(* bytes (lines of up to three bytes fit it with their NUL) and at most    *)
(* three components per URL, so a line "///" trips the components assert.  *)
(* Every file of up to two lines of up to four bytes, one more than the    *)
(* buffer holds, for each utility.                                         *)
(***************************************************************************)
EXTENDS NdnUrlFile

MCLines(n) == UNION {[1..k -> Chars] : k \in 1..n}
MCFiles ==
  {<< >>} \cup {<<t>> : t \in MCLines(4)} \cup
  {<<t, v>> : t \in MCLines(4), v \in MCLines(4)}
\* The empty file, one short line, and a long line before a short one.
MCRewrites == {<< >>, <<<<97>>>>, <<<<97, 47, 97>>, <<97>>>>}
MCUtilities == {"num_urls", "url_array", "stats"}
=============================================================================
