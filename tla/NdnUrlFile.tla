----------------------------- MODULE NdnUrlFile -----------------------------
(***************************************************************************)
(* The URL-file utilities of src/antlr/actual/ndn/ndn.c: ndn_get_num_urls, *)
(* ndn_get_url_array (which calls ndn_get_num_urls, then reads the file a  *)
(* second time) and ndn_print_url_stats with ndn_num_components.           *)
(*                                                                         *)
(* Each reads the file with fscanf(url_fp, "%s", url) into the local       *)
(* buffer char url[NDN_MAX_URL_LENGTH]: a token and its NUL are written    *)
(* from url[0] on, whatever the token's length; at end of file the buffer  *)
(* is left as it was, so each loop clears it (or url[0]) after a line and  *)
(* stops when url[0] is still 0.  A line is a token: a sequence of byte    *)
(* values, none of them 0.  One run is one call of one utility.            *)
(***************************************************************************)
EXTENDS Integers, Sequences, FiniteSets

CONSTANTS
  Chars,          \* the byte values a line is made of ('/' among them)
  Files,          \* the files a run may read: sequences of lines over Chars
  Utilities,      \* the utilities called: "num_urls", "url_array", "stats"
  MaxUrlLen,      \* NDN_MAX_URL_LENGTH
  MaxComponents,  \* NDN_MAX_COMPONENTS
  MaxUrls,        \* bound on ndn_get_num_urls's count
  Rewrites        \* files the second fopen of ndn_get_url_array may find

Slash == 47     \* '/'
BufIdx == 0..(MaxUrlLen - 1)
Zeros == [k \in BufIdx |-> 0]

VARIABLES
  file,       \* the lines of urls_file
  utility,    \* the utility called
  pc,         \* "count", "arr_alloc", "arr", "stats", "done", "aborted"
  pos,        \* url_fp: the next line fscanf reads
  url,        \* the buffer url[NDN_MAX_URL_LENGTH]
  nb_urls,    \* ndn_get_num_urls's count
  i,          \* ndn_get_url_array's loop index
  url_arr,    \* ndn_get_url_array's result: the string in each slot
  components_stats  \* ndn_print_url_stats's histogram

vars == <<file, utility, pc, pos, url, nb_urls, i, url_arr,
          components_stats>>

TypeOK ==
  /\ file \in Files
  /\ utility \in Utilities
  /\ pc \in {"count", "arr_alloc", "arr", "stats", "done", "aborted"}
  /\ pos \in 1..(Len(file) + 1)
  /\ url \in [BufIdx -> Chars \cup {0}]
  /\ nb_urls \in 0..MaxUrls
  /\ i \in 0..MaxUrls
  /\ url_arr \in Seq(Seq(Chars))
  /\ components_stats \in [0..MaxUrlLen -> Nat]

Init ==
  /\ file \in Files
  /\ utility \in Utilities
  /\ pc = IF utility = "stats" THEN "stats" ELSE "count"
  /\ pos = 1
  /\ url = Zeros
  /\ nb_urls = 0
  /\ i = 0
  /\ url_arr = << >>
  /\ components_stats = [n \in 0..MaxUrlLen |-> 0]

---------------------------------------------------------------------------
(* fscanf(url_fp, "%s", url) and the string helpers                        *)

\* The line's bytes and its NUL stored from url[0] on.  A line of
\* MaxUrlLen bytes or more writes past url: that write is left out, the
\* buffer keeps what landed inside it.
ScanInto(b, t) ==
  [k \in BufIdx |-> IF k < Len(t) THEN t[k + 1]
                   ELSE IF k = Len(t) THEN 0 ELSE b[k]]

AtEof == pos > Len(file)

\* The buffer after fscanf: unchanged at end of file.
Scanned == IF AtEof THEN url ELSE ScanInto(url, file[pos])

\* The effect of one fscanf on the file position.
Fscanf == pos' = IF AtEof THEN pos ELSE pos + 1

\* strlen(url), for a buffer that holds a NUL.
StrLen(b) == CHOOSE n \in BufIdx : b[n] = 0 /\ \A k \in 0..(n - 1) : b[k] # 0

\* Mutant: the copy starts one byte in, memcpy(&url_arr[i], url + 1, url_len).
StrOf_shift(b) == [k \in 1..StrLen(b) |-> b[k]]

\* The C string in the buffer: memcpy(&url_arr[i], url, strlen(url)).
StrOf(b) == [k \in 1..StrLen(b) |-> b[k - 1]]

\* Mutant: the count ignores the first component.
NumComponents_noplus(b) ==
  Cardinality({k \in 0..(StrLen(b) - 1) : b[k] = Slash})

\* ndn_num_components: the '/' bytes before the NUL, plus one.
NumComponents(b) ==
  LET end == IF \E k \in BufIdx : b[k] = 0 THEN StrLen(b) ELSE MaxUrlLen
  IN  Cardinality({k \in 0..(end - 1) : b[k] = Slash}) + 1

\* assert(url[NDN_MAX_URL_LENGTH - 1] == 0).
Terminated(b) == b[MaxUrlLen - 1] = 0

---------------------------------------------------------------------------
(* ndn_get_num_urls                                                        *)

\* Mutant: url[0] = 0 is missing.
ClearFirst_none(b) == b

\* url[0] = 0: "no need to zero out all bytes".
ClearFirst(b) == [b EXCEPT ![0] = 0]

\* A line was read: clear url[0] and count it.
CountUrl ==
  /\ pc = "count"
  /\ Scanned[0] # 0
  /\ nb_urls < MaxUrls
  /\ Fscanf
  /\ url' = ClearFirst(Scanned)
  /\ nb_urls' = nb_urls + 1
  /\ UNCHANGED <<file, utility, pc, i, url_arr, components_stats>>

\* url[0] is still 0: return nb_urls.  ndn_get_url_array goes on.
CountEof ==
  /\ pc = "count"
  /\ Scanned[0] = 0
  /\ Fscanf
  /\ url' = Scanned
  /\ pc' = IF utility = "url_array" THEN "arr_alloc" ELSE "done"
  /\ UNCHANGED <<file, utility, nb_urls, i, url_arr, components_stats>>

---------------------------------------------------------------------------
(* ndn_get_url_array                                                       *)

\* malloc and memset the nb_urls slots, a zeroed url, fopen the file again:
\* the file may have been rewritten since ndn_get_num_urls read it.
ArrAlloc ==
  /\ pc = "arr_alloc"
  /\ url_arr' = [k \in 1..nb_urls |-> << >>]
  /\ url' = Zeros
  /\ file' \in {file} \cup Rewrites
  /\ pos' = 1
  /\ i' = 0
  /\ pc' = "arr"
  /\ UNCHANGED <<utility, nb_urls, components_stats>>

\* Mutant: memset(url, 0, NDN_MAX_URL_LENGTH) after a line is missing.
Cleared_none(b) == b

\* memset(url, 0, NDN_MAX_URL_LENGTH).
Cleared(b) == Zeros

\* for(i = 0; i < nb_urls; i ++): read a line, check it, copy its strlen
\* bytes into slot i and zero url.
ArrRead ==
  /\ pc = "arr"
  /\ i < nb_urls
  /\ Scanned[0] # 0
  /\ Fscanf
  /\ IF Terminated(Scanned)
       THEN /\ url_arr' = [url_arr EXCEPT ![i + 1] = StrOf(Scanned)]
            /\ url' = Cleared(Scanned)
            /\ i' = i + 1
            /\ UNCHANGED pc
       ELSE /\ pc' = "aborted"
            /\ url' = Scanned
            /\ UNCHANGED <<url_arr, i>>
  /\ UNCHANGED <<file, utility, nb_urls, components_stats>>

\* The loop ends at nb_urls: return url_arr.
ArrEnd ==
  /\ pc = "arr"
  /\ i = nb_urls
  /\ pc' = "done"
  /\ UNCHANGED <<file, utility, pos, url, nb_urls, i, url_arr,
                 components_stats>>

\* if(url[0] == 0) break: the file ended before nb_urls lines.
ArrEof ==
  /\ pc = "arr"
  /\ i < nb_urls
  /\ Scanned[0] = 0
  /\ Fscanf
  /\ url' = Scanned
  /\ pc' = "done"
  /\ UNCHANGED <<file, utility, nb_urls, i, url_arr, components_stats>>

---------------------------------------------------------------------------
(* ndn_print_url_stats                                                     *)

\* Mutant: a URL with exactly NDN_MAX_COMPONENTS components is refused.
ComponentsOK_lt(n) == n < MaxComponents

\* assert(num_components <= NDN_MAX_COMPONENTS).
ComponentsOK(n) == n <= MaxComponents

\* Read a line, check it, count its components and zero url.
StatsRead ==
  /\ pc = "stats"
  /\ Scanned[0] # 0
  /\ Fscanf
  /\ LET n == NumComponents(Scanned) IN
       IF Terminated(Scanned) /\ ComponentsOK(n)
         THEN /\ components_stats' = [components_stats EXCEPT ![n] = @ + 1]
              /\ url' = Zeros
              /\ UNCHANGED pc
         ELSE /\ pc' = "aborted"
              /\ url' = Scanned
              /\ UNCHANGED components_stats
  /\ UNCHANGED <<file, utility, nb_urls, i, url_arr>>

\* End of file: print the histogram (not modelled) and return.
StatsEof ==
  /\ pc = "stats"
  /\ Scanned[0] = 0
  /\ Fscanf
  /\ url' = Scanned
  /\ pc' = "done"
  /\ UNCHANGED <<file, utility, nb_urls, i, url_arr, components_stats>>

Next ==
  \/ CountUrl \/ CountEof
  \/ ArrAlloc \/ ArrRead \/ ArrEnd \/ ArrEof
  \/ StatsRead \/ StatsEof

\* One thread runs the utility to completion.
Spec == Init /\ [][Next]_vars /\ WF_vars(Next)

---------------------------------------------------------------------------
(* Properties                                                              *)

\* The components of a line as ndn_num_components should count them.
LineComponents(t) == Cardinality({k \in DOMAIN t : t[k] = Slash}) + 1

\* A utility that returns describes the file it read: ndn_get_num_urls
\* counts its lines and ndn_print_url_stats counts the lines of each
\* number of components.
ResultsMatchFile ==
  pc = "done" =>
    /\ utility = "num_urls" => nb_urls = Len(file)
    /\ utility = "stats" =>
         \A n \in 0..MaxUrlLen :
           components_stats[n] =
             Cardinality({k \in DOMAIN file : LineComponents(file[k]) = n})

\* ndn_get_url_array holds, in its nb_urls slots, the lines its second
\* read found, in order, and leaves the slots past the end of a file that
\* has meanwhile become shorter empty; a longer file is cut at nb_urls.
ArrayHoldsReread ==
  (pc = "done" /\ utility = "url_array") =>
    url_arr = [k \in 1..nb_urls |-> IF k <= Len(file) THEN file[k] ELSE << >>]

\* ndn_print_url_stats stops on an assert only for a file with a line that
\* has more than NDN_MAX_COMPONENTS components or does not fit url.
StatsAbortJustified ==
  (pc = "aborted" /\ utility = "stats") =>
    \E k \in DOMAIN file : \/ LineComponents(file[k]) > MaxComponents
                           \/ Len(file[k]) >= MaxUrlLen

\* Every utility returns or stops on an assert: the end-of-file test ends
\* each read loop.
Terminates == <>(pc \in {"done", "aborted"})
====
