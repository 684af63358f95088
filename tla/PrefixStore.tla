---------------------------- MODULE PrefixStore ----------------------------
(***************************************************************************)
(* What the NDN prefix table promises its single writer, with buckets,     *)
(* slots, tags and byte offsets abstracted away: a partial map from        *)
(* prefixes to their forwarding metadata.                                   *)
(*                                                                         *)
(*  - a lookup answers 1 exactly when the prefix is stored;                *)
(*  - an insert of a stored prefix answers 0 and adds nothing;             *)
(*  - an insert of a new prefix either stores it (0), is rejected because  *)
(*    its buckets are full (-1), or stops the program (log exhausted);     *)
(*  - a lookup or insert asking for "terminal" turns a stored non-terminal *)
(*    prefix into a terminal one with the given port, exactly once.        *)
(***************************************************************************)
EXTENDS Integers

CONSTANTS
  Keys,     \* prefixes
  Ports,    \* forwarding ports of terminal prefixes
  Absent,   \* "prefix not stored"
  NoPort    \* port of a non-terminal prefix (meaningless)

VARIABLES
  store,    \* Keys -> Absent or [is_terminal, dst_port]
  call,     \* the last call: <<name, prefix>>
  ret,      \* the value returned by the last call
  aborted   \* the program has stopped on a fatal error

vars == <<store, call, ret, aborted>>

Meta == [is_terminal : {0, 1}, dst_port : Ports \cup {NoPort}]

\* A request: <<0, -1>> (no upgrade) or <<1, port>> (terminal, with port).
Req == {<<0, -1>>} \cup {<<1, p>> : p \in Ports}

TypeOK ==
  /\ store \in [Keys -> Meta \cup {Absent}]
  /\ call \in {<<"none">>} \cup ({"contains", "insert"} \X Keys)
  /\ ret \in {-1, 0, 1}
  /\ aborted \in BOOLEAN

Init ==
  /\ store = [k \in Keys |-> Absent]
  /\ call = <<"none">>
  /\ ret = 0
  /\ aborted = FALSE

\* The one-way terminal latch.
Latch(m, t, p) ==
  IF m.is_terminal = 0 /\ t = 1 THEN [is_terminal |-> 1, dst_port |-> p] ELSE m

Lookup(k, t, p) ==
  /\ ~aborted
  /\ call' = <<"contains", k>>
  /\ ret' = IF store[k] = Absent THEN 0 ELSE 1
  /\ store' = IF store[k] = Absent THEN store
              ELSE [store EXCEPT ![k] = Latch(@, t, p)]
  /\ UNCHANGED aborted

InsertPresent(k, t, p) ==
  /\ ~aborted
  /\ call' = <<"insert", k>>
  /\ store[k] # Absent
  /\ store' = [store EXCEPT ![k] = Latch(@, t, p)]
  /\ ret' = 0
  /\ UNCHANGED aborted

InsertNew(k, t, p) ==
  /\ ~aborted
  /\ call' = <<"insert", k>>
  /\ store[k] = Absent
  /\ store' = [store EXCEPT ![k] = [is_terminal |-> t,
                                    dst_port |-> IF t = 1 THEN p ELSE NoPort]]
  /\ ret' = 0
  /\ UNCHANGED aborted

InsertRejected(k, t, p) ==
  /\ ~aborted
  /\ call' = <<"insert", k>>
  /\ store[k] = Absent
  /\ ret' = -1
  /\ UNCHANGED <<store, aborted>>

InsertAborted(k, t, p) ==
  /\ ~aborted
  /\ call' = <<"insert", k>>
  /\ store[k] = Absent
  /\ aborted' = TRUE
  /\ UNCHANGED <<store, ret>>

Next ==
  \E k \in Keys, r \in Req :
    \/ Lookup(k, r[1], r[2])
    \/ InsertPresent(k, r[1], r[2])
    \/ InsertNew(k, r[1], r[2])
    \/ InsertRejected(k, r[1], r[2])
    \/ InsertAborted(k, r[1], r[2])

Spec == Init /\ [][Next]_vars
=============================================================================
