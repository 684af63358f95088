---------------------------- MODULE NdnBulkLoad ----------------------------
(***************************************************************************)
(* ndn_init() and ndn_check() of src/antlr/actual/ndn/ndn.c driving the    *)
(* prefix table of NdnHashTable.                                           *)
(*                                                                         *)
(* A URL of the input file is the sequence of its '/'-separated            *)
(* components; a component is a single character or empty (as in "a//b"   *)
(* or a trailing "/").  The prefix of j components is the key "c1/../cj/"  *)
(* of length sum(|ci| + 1), and its tag url[len - 2] is the last character *)
(* of cj, or '/' when cj is empty.  ndn_init inserts, for every URL in     *)
(* file order, its proper prefixes as non-terminal (port -1) and the whole *)
(* URL, with a '/' appended, as terminal with a random active port.        *)
(* ndn_check then looks every one of these prefixes up (no upgrade) and    *)
(* hits assert(0) on the first one that is absent.                         *)
(*                                                                         *)
(* The index and the log are SysV shared-memory segments: they outlive the *)
(* process.  The program may die at any point (a kill, a crash, a failed  *)
(* assert) or finish, and be started again on a urls file; shmget with     *)
(* IPC_CREAT then returns the segments as the last run left them, and      *)
(* ndn_init clears them before it loads.                                   *)
(***************************************************************************)
EXTENDS Integers, Sequences, SequencesExt, FiniteSets

CONSTANTS
  UrlSet,       \* URLs the file may hold, as sequences of components
  NumUrls,      \* lines of the file
  CharCode,     \* the byte value of each component character
  Ports,        \* port_arr: the active ports
  MaxRestarts,  \* bound on the runs of the program after the first
  RestartFiles, \* the files a later run may be given
  NumBkt, BktSlots, LogCap, LogHeadroom, HashVals, MaxUrlLen,
  NoUrl, Absent, NoPort

VARIABLES
  urlHash, tagOf, tagHash, ht_index, ht_log, log_head, call, ret, aborted,
  file,         \* the lines of urls_file, in order
  phase,        \* "init", "check", "checked" (after a lookup), "done"
  u,            \* the URL being processed (1-based line number)
  i,            \* components of the prefix being processed
  nb_fail,      \* ndn_init: inserts that returned -1
  dst_port_of,  \* the port ndn_init drew for each line (history)
  restarts      \* runs of the program after the first

tableVars == <<urlHash, tagOf, tagHash, ht_index, ht_log, log_head, call, ret,
               aborted>>
loadVars == <<file, phase, u, i, nb_fail, dst_port_of, restarts>>
vars == <<tableVars, loadVars>>

\* strlen of the line: each component and the '/' between two of them.
LineLen(url) ==
  FoldLeft(LAMBDA n, c : n + (IF c = "" THEN 0 ELSE 1) + 1, 0, url) - 1

\* assert(url[NDN_MAX_URL_LENGTH - 1] == 0): the line and its NUL fit url.
LineFits(url) == LineLen(url) < MaxUrlLen

\* Every prefix of every URL that passes the assert (the keys the program
\* can ever hand the table).
Keys == UNION {{SubSeq(url, 1, j) : j \in 1..Len(url)} :
                 url \in {x \in UrlSet : LineFits(x)}}

\* len: each component and its trailing '/'.
KeyLenOf == [k \in Keys |->
               FoldLeft(LAMBDA n, c : n + (IF c = "" THEN 0 ELSE 1) + 1, 0, k)]

\* (uint16_t) url[len - 2]: the byte before the final '/' (47).
TagOf == [k \in Keys |-> IF Last(k) = "" THEN 47 ELSE CharCode[Last(k)]]

Tags == {TagOf[k] : k \in Keys}

T == INSTANCE NdnHashTable WITH KeyLen <- KeyLenOf

\* The prefix of the first j components of line v.
Prefix(v, j) == SubSeq(file[v], 1, j)

\* Mutant: nb_fail ++ is missing.
Failed_never == 0

\* ndn_init counts an insert that returned -1 (the process did not stop).
Failed == IF ~aborted' /\ ret' = -1 THEN 1 ELSE 0

TypeOK ==
  /\ T!TypeOK
  /\ file \in [1..NumUrls -> UrlSet]
  /\ phase \in {"attach", "init", "check", "checked", "done"}
  /\ u \in 1..(NumUrls + 1)
  /\ i \in 1..MaxUrlLen
  /\ nb_fail \in 0..(NumUrls * MaxUrlLen)
  /\ dst_port_of \in [1..NumUrls -> Ports \cup {NoPort}]
  /\ restarts \in 0..MaxRestarts

\* The first run: shmget creates the segments zero-filled, so ndn_init's
\* memsets leave them as they are.
Init ==
  /\ T!Init
  /\ tagOf = TagOf
  /\ file \in [1..NumUrls -> UrlSet]
  /\ phase = "init"
  /\ u = 1
  /\ i = 1
  /\ nb_fail = 0
  /\ dst_port_of = [v \in 1..NumUrls |-> NoPort]
  /\ restarts = 0

---------------------------------------------------------------------------
(* A later run of the program                                              *)

\* The process is gone, after an assert, a kill at any step or its normal
\* end, and the program runs again on a urls file.  The segments keep the
\* index and the log; the process memory (struct ndn_ht's log_head, the
\* loop state) starts afresh.  CityHash is the same function in every run.
\* ndn_check's lookups write nothing (is_terminal = 0), so a kill during
\* ndn_check leaves the segments as its end does: that is the restart from
\* "done".
Restart ==
  /\ restarts < MaxRestarts
  /\ phase \in {"init", "done"} \/ aborted
  /\ restarts' = restarts + 1
  /\ file' \in RestartFiles
  /\ phase' = "attach"
  /\ u' = 1
  /\ i' = 1
  /\ nb_fail' = 0
  /\ dst_port_of' = [v \in 1..NumUrls |-> NoPort]
  /\ aborted' = FALSE
  /\ call' = <<"none">>
  /\ ret' = 0
  /\ UNCHANGED <<urlHash, tagOf, tagHash, ht_index, ht_log, log_head>>

\* memset((char *) ht->ht_index, 0, index_size): every slot's offset is 0.
ClearedIndex(x) == [b \in T!Bkts |-> [j \in T!SlotIdx |-> T!EmptySlot]]

\* memset((char *) ht->ht_log, 0, log_size): every record byte is 0.
ClearedLog(x) == << >>

---------------------------------------------------------------------------
(* ndn_init(urls_file, portmask, ht)                                       *)

\* Mutant: ndn_init trusts shmget to hand it zero-filled segments.
InitAttach_nomemset ==
  /\ phase = "attach"
  /\ log_head' = 1
  /\ phase' = "init"
  /\ UNCHANGED <<urlHash, tagOf, tagHash, ht_index, ht_log, call, ret, aborted,
                 file, u, i, nb_fail, dst_port_of, restarts>>

\* shmget and shmat of the index and the log, memset of both, and
\* ht->log_head = 1.
InitAttach ==
  /\ phase = "attach"
  /\ ht_index' = ClearedIndex(ht_index)
  /\ ht_log' = ClearedLog(ht_log)
  /\ log_head' = 1
  /\ phase' = "init"
  /\ UNCHANGED <<urlHash, tagOf, tagHash, call, ret, aborted, file, u, i,
                 nb_fail, dst_port_of, restarts>>

\* fscanf leaves url[0] == 0 at the end of the file.
UrlsDone(v) == v > NumUrls

\* The line does not fit url: the assert stops the process.
InitLineTooLong ==
  /\ phase = "init"
  /\ ~aborted
  /\ ~UrlsDone(u)
  /\ ~LineFits(file[u])
  /\ aborted' = TRUE
  /\ UNCHANGED <<urlHash, tagOf, tagHash, ht_index, ht_log, log_head, call, ret,
                 loadVars>>

\* url[i] == '/': ndn_ht_insert(url, i + 1, 0, -1, ht), count a failure.
InitInsertPrefix ==
  /\ phase = "init"
  /\ ~UrlsDone(u)
  /\ LineFits(file[u])
  /\ i < Len(file[u])
  /\ T!NdnHtInsert(Prefix(u, i), 0, -1)
  /\ nb_fail' = nb_fail + Failed
  /\ i' = i + 1
  /\ UNCHANGED <<file, phase, u, dst_port_of, restarts>>

\* url[i] == 0: url[i] = '/'; ndn_ht_insert(url, i + 1, 1, dst_port_id, ht)
\* with dst_port_id = port_arr[rand() % num_active_ports]; next line.
InitInsertUrl ==
  /\ phase = "init"
  /\ ~UrlsDone(u)
  /\ LineFits(file[u])
  /\ i = Len(file[u])
  /\ \E p \in Ports :
       /\ T!NdnHtInsert(file[u], 1, p)
       /\ dst_port_of' = [dst_port_of EXCEPT ![u] = p]
  /\ nb_fail' = nb_fail + Failed
  /\ u' = u + 1
  /\ i' = 1
  /\ UNCHANGED <<file, phase, restarts>>

\* End of urls_file: ndn_init returns and ndn_check starts on the file.
InitEof ==
  /\ phase = "init"
  /\ ~aborted
  /\ UrlsDone(u)
  /\ phase' = "check"
  /\ u' = 1
  /\ i' = 1
  /\ UNCHANGED <<tableVars, file, nb_fail, dst_port_of, restarts>>

---------------------------------------------------------------------------
(* ndn_check(urls_file, ht)                                                *)

\* ndn_contains(url, i + 1, 0, -1, ht) on the next prefix.  (ndn_check's
\* own assert on the line's length never fires: ndn_init has read the same
\* lines and would have stopped first.)
CheckLookup ==
  /\ phase = "check"
  /\ ~UrlsDone(u)
  /\ T!NdnContains(Prefix(u, i), 0, -1)
  /\ phase' = "checked"
  /\ UNCHANGED <<file, u, i, nb_fail, dst_port_of, restarts>>

\* "Prefix %s absent.", assert(0).
CheckAbsent ==
  /\ phase = "checked"
  /\ ~aborted
  /\ ret = 0
  /\ aborted' = TRUE
  /\ UNCHANGED <<urlHash, tagOf, tagHash, ht_index, ht_log, log_head, call, ret,
                 loadVars>>

\* Mutant: the scan of the line does not move on.
NextPrefix_stay(v, j) == <<v, j>>

\* The <<line, components>> ndn_check looks at after <<v, j>>: the next
\* '/' of the line, else the line's end, then the next line.
NextPrefix(v, j) == IF j < Len(file[v]) THEN <<v, j + 1>> ELSE <<v + 1, 1>>

\* Present: go on with the next prefix, or the next line.
CheckPresent ==
  /\ phase = "checked"
  /\ ~aborted
  /\ ret = 1
  /\ phase' = "check"
  /\ u' = NextPrefix(u, i)[1]
  /\ i' = NextPrefix(u, i)[2]
  /\ UNCHANGED <<tableVars, file, nb_fail, dst_port_of, restarts>>

CheckEof ==
  /\ phase = "check"
  /\ UrlsDone(u)
  /\ phase' = "done"
  /\ UNCHANGED <<tableVars, file, u, i, nb_fail, dst_port_of, restarts>>

\* The steps of one run of the program.
Run ==
  \/ InitAttach
  \/ InitLineTooLong
  \/ InitInsertPrefix
  \/ InitInsertUrl
  \/ InitEof
  \/ CheckLookup
  \/ CheckAbsent
  \/ CheckPresent
  \/ CheckEof

Next == Restart \/ Run

\* One thread runs ndn_init and then ndn_check to the end: weak fairness
\* of its steps.  Nothing forces a restart.
Spec == Init /\ [][Next]_vars /\ WF_vars(Run)

---------------------------------------------------------------------------
(* Properties                                                              *)

\* The offsets of the records the index refers to: the records the table
\* holds (a later run may leave bytes of an earlier run's log that no slot
\* refers to).
Stored == {ht_index[b][j].off : b \in T!Bkts, j \in T!SlotIdx} \ {0}

\* The lines whose terminal insert has been made in this run.
Loaded == IF phase \in {"attach", "init"} THEN {file[v] : v \in 1..(u - 1)}
          ELSE {file[v] : v \in 1..NumUrls}

\* A prefix the index refers to is terminal exactly when it is a whole line
\* this run has already loaded, whatever an earlier run left in the
\* segments, and whichever order the file lists a name and its extensions in:
\* a later line "a" upgrades the non-terminal "a/" that an earlier "a/b"
\* left, and a later "a/b" leaves the terminal "a/" alone (ndn_ht_insert
\* dedups through ndn_contains, which upgrades).
TerminalExactlyLines ==
  phase # "attach" =>
  \A o \in Stored :
    T!LogAt(o).is_terminal = 1 <=> T!LogAt(o).url \in Loaded

\* The port of a terminal prefix is the one drawn for the first line of this
\* run that made it terminal; duplicate lines drawing other ports, and
\* earlier runs, never decide it.
FirstPortWins ==
  phase # "attach" =>
  \A o \in Stored :
    LET r == T!LogAt(o) IN
    (r.is_terminal = 1 /\ r.url \in Loaded) =>
      r.dst_port = dst_port_of[Min({v \in 1..NumUrls : file[v] = r.url})]

\* ndn_check reaches its assert(0) only if ndn_init reported a failed
\* insert: every prefix whose insert returned 0 is still found later.
CheckFailsOnlyAfterReportedFailure ==
  (aborted /\ phase = "checked") => nb_fail > 0

\* ndn_init and ndn_check run to their end, or the process stops on an
\* assert.
Terminates == <>(phase = "done" \/ aborted)
=============================================================================
