--------------------------- MODULE NdnUpgradeRace ---------------------------
(***************************************************************************)
(* The terminal upgrade of ndn_contains() (src/antlr/actual/ndn/ndn.c,     *)
(* lines 69-72) run by several processes at once on the shared log, as in  *)
(* the multi-reader phase: every process has found the same record (the   *)
(* search itself is NdnHashTable's: it reads the slots, the length byte    *)
(* and the key bytes, which no lookup writes) and calls either as a plain  *)
(* lookup (is_terminal = 0) or as an upgrading one with a port of its own. *)
(*                                                                         *)
(*   if(log_ptr[1] == 0 && is_terminal == 1) {                             *)
(*       log_ptr[1] = 1;                                                   *)
(*       log_ptr[2] = dst_port_id;                                         *)
(*   }                                                                     *)
(*   return 1;                                                             *)
(*                                                                         *)
(* The test and the two byte stores are separate steps of each process.    *)
(* The stores are plain, unsynchronised writes: the build may emit them in *)
(* either order (a data race, so no order is promised to other            *)
(* processes), which Init chooses once for the binary.                     *)
(***************************************************************************)
EXTENDS Integers

CONSTANTS
  Procs,    \* processes calling ndn_contains on the record
  Ports,    \* the ports they upgrade with
  NoPort    \* the dst_port byte of a non-terminal record: (uint8_t) -1

VARIABLES
  is_terminal,  \* log_ptr[1]
  dst_port,     \* log_ptr[2]
  storeOrder,   \* the order the build emits the two stores in
  pc,           \* per process: "idle", "test", "store1", "store2", "done"
  port,         \* per process: its dst_port_id
  upgrading,    \* per process: its is_terminal argument
  built         \* the record as the build phase left it: [flag, port]

vars == <<is_terminal, dst_port, storeOrder, pc, port, upgrading, built>>

Stages == {"idle", "test", "store1", "store2", "done"}

TypeOK ==
  /\ is_terminal \in {0, 1}
  /\ dst_port \in Ports \cup {NoPort}
  /\ storeOrder \in {"flag_first", "port_first"}
  /\ pc \in [Procs -> Stages]
  /\ port \in [Procs -> Ports \cup {NoPort}]
  /\ upgrading \in [Procs -> {0, 1}]
  /\ built \in [flag : {0, 1}, port : Ports \cup {NoPort}]

\* The record as ndn_init left it (135-137): a prefix inserted by
\* ndn_ht_insert(url, i + 1, 0, -1, ht), non-terminal with port -1, or a
\* line inserted terminal with its port.
Built == {[flag |-> 0, port |-> NoPort]} \cup [flag : {1}, port : Ports]

Init ==
  /\ built \in Built
  /\ is_terminal = built.flag
  /\ dst_port = built.port
  /\ storeOrder \in {"flag_first", "port_first"}
  /\ pc = [p \in Procs |-> "idle"]
  /\ port = [p \in Procs |-> NoPort]
  /\ upgrading = [p \in Procs |-> 0]

\* The call, with the record already matched by tag, length and memcmp:
\* a lookup with is_terminal t and dst_port_id d (ndn_check's lookups pass
\* 0 and -1).
Call(p, t, d) ==
  /\ pc[p] = "idle"
  /\ pc' = [pc EXCEPT ![p] = "test"]
  /\ port' = [port EXCEPT ![p] = d]
  /\ upgrading' = [upgrading EXCEPT ![p] = t]
  /\ UNCHANGED <<is_terminal, dst_port, storeOrder, built>>

\* Mutant: the log_ptr[1] == 0 test is dropped.
Upgradable_noflag(p) == upgrading[p] = 1

\* Mutant: the is_terminal == 1 test is dropped.
Upgradable_noarg(p) == is_terminal = 0

\* log_ptr[1] == 0 && is_terminal == 1.
Upgradable(p) == is_terminal = 0 /\ upgrading[p] = 1

\* The test: go on to the stores, or return 1.
Test(p) ==
  /\ pc[p] = "test"
  /\ pc' = [pc EXCEPT ![p] = IF Upgradable(p) THEN "store1" ELSE "done"]
  /\ UNCHANGED <<is_terminal, dst_port, storeOrder, port, upgrading, built>>

\* Mutant: log_ptr[1] = 1 is missing.
SetFlag_missing == is_terminal

\* Mutant: the flag byte is incremented.
SetFlag_incr == is_terminal + 1

\* log_ptr[1] = 1.
SetFlag == 1

\* One of the two stores, in the build's order.
Store(p, which) ==
  \/ /\ which = "flag"
     /\ is_terminal' = SetFlag
     /\ UNCHANGED dst_port
  \/ /\ which = "port"
     /\ dst_port' = port[p]
     /\ UNCHANGED is_terminal

StoreFirst(p) ==
  /\ pc[p] = "store1"
  /\ Store(p, IF storeOrder = "flag_first" THEN "flag" ELSE "port")
  /\ pc' = [pc EXCEPT ![p] = "store2"]
  /\ UNCHANGED <<storeOrder, port, upgrading, built>>

\* The second store, then return 1.
StoreSecond(p) ==
  /\ pc[p] = "store2"
  /\ Store(p, IF storeOrder = "flag_first" THEN "port" ELSE "flag")
  /\ pc' = [pc EXCEPT ![p] = "done"]
  /\ UNCHANGED <<storeOrder, port, upgrading, built>>

Next ==
  \E p \in Procs :
    \/ Call(p, 0, NoPort)
    \/ \E d \in Ports : Call(p, 1, d)
    \/ Test(p)
    \/ StoreFirst(p)
    \/ StoreSecond(p)

Spec == Init /\ [][Next]_vars

---------------------------------------------------------------------------
(* Properties                                                              *)

\* When every call has returned, a record built terminal is as it was
\* built, a non-terminal record that some caller upgraded is terminal with
\* the port of one of the upgrading callers, and one that only plain
\* lookups saw is unchanged: no interleaving of the unsynchronised stores
\* leaves the flag without a port or a port without the flag, and no plain
\* lookup writes.
UpgradeComplete ==
  LET Upgraders == {p \in Procs : upgrading[p] = 1}
  IN (\A p \in Procs : pc[p] = "done") =>
       IF built.flag = 0 /\ Upgraders # {}
       THEN is_terminal = 1 /\ \E p \in Upgraders : dst_port = port[p]
       ELSE is_terminal = built.flag /\ dst_port = built.port

\* Once the record is terminal its port never changes: the upgrade is a
\* one-way latch (spec section 4.4: "a record already terminal is never
\* altered by a subsequent lookup").
PortLatched ==
  [][is_terminal = 1 /\ dst_port # NoPort => dst_port' = dst_port]_vars
=============================================================================
