---------------------------- MODULE NdnHashTable ----------------------------
(***************************************************************************)
(* The NDN prefix hash table of src/antlr/actual/ndn/ndn.c, driven by one  *)
(* thread that calls ndn_contains() and ndn_ht_insert() in any order.      *)
(*                                                                         *)
(* ht_index is the array of NDN_NUM_BKT buckets of slots; a slot is the    *)
(* pair (tag, offset) that the code packs as (tag << 48) | offset, with    *)
(* offset 0 meaning "empty".  ht_log is the URL log, kept as the records   *)
(* it holds, keyed by their byte offset: the len byte, the is_terminal     *)
(* byte, the dst_port byte and the url bytes (a prefix of Keys).  Memory   *)
(* that no record covers reads as zero (ndn_init memsets both regions).    *)
(*                                                                         *)
(* The hash functions are fixed for a run but arbitrary: CityHash64 of the *)
(* url and of the 2-byte tag, and the tag byte url[len - 2] of each        *)
(* prefix, are chosen in Init among all functions over small ranges, so    *)
(* every pattern of bucket and tag collisions is explored.                 *)
(***************************************************************************)
EXTENDS Integers, Sequences, SequencesExt, Bitwise, TLC

CONSTANTS
  Keys,         \* the prefixes (url, len) the program inserts or looks up
  KeyLen,       \* [Keys -> 1..255]: the len of each prefix
  MaxUrlLen,    \* NDN_MAX_URL_LENGTH
  Tags,         \* possible values of (uint16_t) url[len - 2]
  HashVals,     \* the low bits of CityHash64 that survive & NDN_NUM_BKT_
  NumBkt,       \* NDN_NUM_BKT, a power of two
  BktSlots,     \* slots in a struct ndn_bucket (8 in the code)
  LogCap,       \* NDN_LOG_CAP, bytes of the URL log
  LogHeadroom,  \* NDN_LOG_HEADROOM
  Ports,        \* dst_port_id values of terminal prefixes
  NoUrl         \* the url of zeroed log memory

ASSUME KeyLen \in [Keys -> 1..255] /\ MaxUrlLen \in 2..255
ASSUME NumBkt \in {2^i : i \in 0..4} /\ BktSlots \in Nat \ {0}
ASSUME Ports \subseteq 0..127 /\ NoUrl \notin Keys

VARIABLES
  urlHash,   \* CityHash64(url, len) of each prefix
  tagOf,     \* (uint16_t) url[len - 2] of each prefix
  tagHash,   \* CityHash64((char *) &tag, 2) of each tag
  ht_index,  \* ht->ht_index[b].slot[i]
  ht_log,    \* ht->ht_log, as offset -> record
  log_head,  \* ht->log_head
  call,      \* the last call and its prefix (history, for AbsSpec)
  ret,       \* return value of the last call
  aborted    \* an assert() failed and the process is gone

hashes == <<urlHash, tagOf, tagHash>>
vars == <<urlHash, tagOf, tagHash, ht_index, ht_log, log_head, call, ret,
          aborted>>

Bkts == 0..(NumBkt - 1)
SlotIdx == 0..(BktSlots - 1)
EmptySlot == [tag |-> 0, off |-> 0]
Record == [len : 0..255, is_terminal : {0, 1}, dst_port : 0..255,
           url : Keys \cup {NoUrl}]
ZeroRecord == [len |-> 0, is_terminal |-> 0, dst_port |-> 0, url |-> NoUrl]

\* Mutant: the int is stored unconverted.
Byte_int(x) == x

\* A store of an int into a uint8_t log byte.
Byte(x) == x % 256

\* The bytes at &ht_log[o], read as a record.
LogAt(o) == IF o \in DOMAIN ht_log THEN ht_log[o] ELSE ZeroRecord

\* A request: <<0, -1>> (plain lookup, or non-terminal prefix) or
\* <<1, port>> (terminal prefix), the only argument pairs the code passes.
Req == {<<0, -1>>} \cup {<<1, p>> : p \in Ports}

TypeOK ==
  /\ urlHash \in [Keys -> HashVals]
  /\ tagOf \in [Keys -> Tags]
  /\ tagHash \in [Tags -> HashVals]
  /\ ht_index \in [Bkts -> [SlotIdx -> [tag : Tags \cup {0}, off : 0..LogCap]]]
  /\ DOMAIN ht_log \subseteq 1..LogCap
  /\ \A o \in DOMAIN ht_log : ht_log[o] \in Record
  /\ log_head \in 1..(LogCap + LogHeadroom)
  /\ call \in {<<"none">>} \cup ({"contains", "insert"} \X Keys)
  /\ ret \in {-1, 0, 1}
  /\ aborted \in BOOLEAN

Init ==
  /\ urlHash \in [Keys -> HashVals]
  /\ tagOf \in [Keys -> Tags]
  /\ tagHash \in [Tags -> HashVals]
  /\ ht_index = [b \in Bkts |-> [i \in SlotIdx |-> EmptySlot]]
  /\ ht_log = << >>
  /\ log_head = 1
  /\ call = <<"none">>
  /\ ret = 0
  /\ aborted = FALSE

---------------------------------------------------------------------------
(* Candidate buckets.  Both functions duplicate the same code.             *)

\* x & NDN_NUM_BKT_ and x ^ y on hash values, tabulated once by TLC.
MaskBkt == [x \in HashVals |-> x & (NumBkt - 1)]
XorHash == [x \in Bkts, y \in HashVals |-> x ^^ y]

\* Mutant: the secondary bucket forgets to mix in the tag hash.
ContainsBucket_noxor(k, bkt_num) == MaskBkt[urlHash[k]]

\* ndn_contains: bkt_1 = CityHash64(url, len) & NDN_NUM_BKT_, and
\* bkt_2 = (bkt_1 ^ CityHash64(&tag, 2)) & NDN_NUM_BKT_.
ContainsBucket(k, bkt_num) ==
  LET bkt_1 == MaskBkt[urlHash[k]]
  IN  IF bkt_num = 1 THEN bkt_1
      ELSE MaskBkt[XorHash[bkt_1, tagHash[tagOf[k]]]]

\* Mutant: insert hashes the url again instead of the tag for bkt_2.
InsertBucket_urlhash(k, bkt_num) ==
  LET bkt_1 == MaskBkt[urlHash[k]]
  IN  IF bkt_num = 1 THEN bkt_1
      ELSE MaskBkt[XorHash[bkt_1, urlHash[k]]]

\* ndn_ht_insert: the same two buckets, computed by its own copy.
InsertBucket(k, bkt_num) ==
  LET bkt_1 == MaskBkt[urlHash[k]]
  IN  IF bkt_num = 1 THEN bkt_1
      ELSE MaskBkt[XorHash[bkt_1, tagHash[tagOf[k]]]]

\* The <<bucket, slot>> pairs the two nested loops visit, in order:
\* bkt_num = 1, 2 and i = 0 .. BktSlots - 1.
Visit(Bucket(_, _), k) ==
  [n \in 1..(2 * BktSlots) |->
     <<Bucket(k, (n - 1) \div BktSlots + 1), (n - 1) % BktSlots>>]

SlotAt(pos) == ht_index[pos[1]][pos[2]]

---------------------------------------------------------------------------
(* ndn_contains(url, len, is_terminal, dst_port_id, ht)                    *)

\* Mutant: the prefix compare checks the length byte only, not the bytes.
SlotMatches_nomemcmp(k, pos) ==
  LET s == SlotAt(pos) IN
  /\ s.off # 0 /\ s.tag = tagOf[k]
  /\ LogAt(s.off).len = Byte(KeyLen[k])

\* Mutant: log_ptr = &ht_log[slot_offset + 1], one byte past the record.
SlotMatches_logptr(k, pos) ==
  LET s == SlotAt(pos) IN
  /\ s.off # 0 /\ s.tag = tagOf[k]
  /\ LogAt(s.off + 1).len = Byte(KeyLen[k])
  /\ LogAt(s.off + 1).url = k

\* A valid slot with the prefix's tag whose record holds the same prefix:
\* slot_offset != 0, slot_tag == tag, prefix_len == (uint8_t) len, memcmp.
SlotMatches(k, pos) ==
  LET s == SlotAt(pos) IN
  /\ s.off # 0 /\ s.tag = tagOf[k]
  /\ LogAt(s.off).len = Byte(KeyLen[k])
  /\ LogAt(s.off).url = k

\* Index into Visit of the first matching slot, 0 when there is none.
FoundAt(k) ==
  SelectInSeq(Visit(ContainsBucket, k), LAMBDA pos : SlotMatches(k, pos))

\* Offset of the record ndn_contains returns 1 for.
FoundOffset(k) == SlotAt(Visit(ContainsBucket, k)[FoundAt(k)]).off

\* Mutant: the upgrade only tests the request, not the stored flag.
Upgrade_noguard(rec, is_terminal, dst_port_id) ==
  IF is_terminal = 1
  THEN [rec EXCEPT !.is_terminal = 1, !.dst_port = Byte(dst_port_id)]
  ELSE rec

\* if(log_ptr[1] == 0 && is_terminal == 1) { log_ptr[1] = 1;
\*                                          log_ptr[2] = dst_port_id; }
Upgrade(rec, is_terminal, dst_port_id) ==
  IF rec.is_terminal = 0 /\ is_terminal = 1
  THEN [rec EXCEPT !.is_terminal = 1, !.dst_port = Byte(dst_port_id)]
  ELSE rec

\* The log after a call of ndn_contains: the found record, upgraded.
ContainsLog(k, is_terminal, dst_port_id) ==
  IF FoundAt(k) = 0 THEN ht_log
  ELSE [ht_log EXCEPT ![FoundOffset(k)] = Upgrade(@, is_terminal, dst_port_id)]

\* assert(len >= 2): a prefix ends with '/', so it has at least 2 bytes.
ContainsArgsOK(k) == KeyLen[k] >= 2

\* The two loops run and ndn_contains returns 1 or 0.
ContainsReturns(k, is_terminal, dst_port_id) ==
  /\ ~aborted
  /\ call' = <<"contains", k>>
  /\ ContainsArgsOK(k)
  /\ ht_log' = ContainsLog(k, is_terminal, dst_port_id)
  /\ ret' = IF FoundAt(k) # 0 THEN 1 ELSE 0
  /\ UNCHANGED <<hashes, ht_index, log_head, aborted>>

\* assert(len >= 2) fails: abort.
ContainsAssertFails(k) ==
  /\ ~aborted
  /\ call' = <<"contains", k>>
  /\ ~ContainsArgsOK(k)
  /\ aborted' = TRUE
  /\ UNCHANGED <<hashes, ht_index, ht_log, log_head, ret>>

NdnContains(k, is_terminal, dst_port_id) ==
  \/ ContainsReturns(k, is_terminal, dst_port_id)
  \/ ContainsAssertFails(k)

---------------------------------------------------------------------------
(* ndn_ht_insert(url, len, is_terminal, dst_port_id, ht)                   *)

\* Index into Visit of the first slot with slot_offset == 0, or 0.
EmptyAt(k) ==
  SelectInSeq(Visit(InsertBucket, k), LAMBDA pos : SlotAt(pos).off = 0)

\* Mutant: the upper bound on len is not checked.
InsertArgsOK_nomax(k) == KeyLen[k] >= 2

\* assert(len >= 2) and assert(len <= NDN_MAX_URL_LENGTH); the asserts on
\* is_terminal and dst_port_id hold for every request in Req.
InsertArgsOK(k) == KeyLen[k] >= 2 /\ KeyLen[k] <= MaxUrlLen

\* Mutant: the dedup lookup is ndn_contains(url, len, 0, -1, ht).
InsertExisting_noupgrade(k, is_terminal, dst_port_id) ==
  /\ ~aborted
  /\ InsertArgsOK(k)
  /\ call' = <<"insert", k>>
  /\ FoundAt(k) # 0
  /\ ht_log' = ContainsLog(k, 0, -1)
  /\ ret' = 0
  /\ UNCHANGED <<hashes, ht_index, log_head, aborted>>

\* ndn_contains found the prefix: it upgraded it; insert returns 0.
InsertExisting(k, is_terminal, dst_port_id) ==
  /\ ~aborted
  /\ InsertArgsOK(k)
  /\ call' = <<"insert", k>>
  /\ FoundAt(k) # 0
  /\ ht_log' = ContainsLog(k, is_terminal, dst_port_id)
  /\ ret' = 0
  /\ UNCHANGED <<hashes, ht_index, log_head, aborted>>

\* Mutant: NDEBUG build, the headroom assert is compiled out.
LogHasRoom_ndebug(insert_offset) == TRUE

\* assert(insert_offset + NDN_LOG_HEADROOM < NDN_LOG_CAP)
LogHasRoom(insert_offset) == insert_offset + LogHeadroom < LogCap

\* ht->log_head += (3 + len)
NextLogHead(insert_offset, len) == insert_offset + 3 + len

\* Mutant: the slot is written after log_head has been advanced.
SlotOffset_late(insert_offset, len) == NextLogHead(insert_offset, len)

\* slot[i] = ((ULL) tag << 48) | insert_offset, with insert_offset the
\* value of log_head before the advance.
SlotOffset(insert_offset, len) == insert_offset

\* First empty slot found: write the slot, advance log_head, write the
\* len, is_terminal and dst_port bytes and the url; return 0.
InsertIntoSlot(k, is_terminal, dst_port_id) ==
  LET pos == Visit(InsertBucket, k)[EmptyAt(k)]
      insert_offset == log_head
      len == KeyLen[k]
  IN
  /\ ~aborted
  /\ call' = <<"insert", k>>
  /\ InsertArgsOK(k)
  /\ FoundAt(k) = 0
  /\ EmptyAt(k) # 0
  /\ LogHasRoom(insert_offset)
  /\ ht_index' = [ht_index EXCEPT ![pos[1]][pos[2]] =
                    [tag |-> tagOf[k], off |-> SlotOffset(insert_offset, len)]]
  /\ log_head' = NextLogHead(insert_offset, len)
  /\ ht_log' = (insert_offset :> [len |-> Byte(len),
                                   is_terminal |-> is_terminal,
                                   dst_port |-> Byte(dst_port_id),
                                   url |-> k]) @@ ht_log
  /\ ret' = 0
  /\ UNCHANGED <<hashes, aborted>>

\* The assert on the log headroom fails: the process aborts.
InsertLogFull(k, is_terminal, dst_port_id) ==
  /\ ~aborted
  /\ call' = <<"insert", k>>
  /\ InsertArgsOK(k)
  /\ FoundAt(k) = 0
  /\ EmptyAt(k) # 0
  /\ ~LogHasRoom(log_head)
  /\ aborted' = TRUE
  /\ UNCHANGED <<hashes, ht_index, ht_log, log_head, ret>>

\* Both candidate buckets are full: "Unable to insert URL", return -1.
InsertBucketsFull(k, is_terminal, dst_port_id) ==
  /\ ~aborted
  /\ call' = <<"insert", k>>
  /\ InsertArgsOK(k)
  /\ FoundAt(k) = 0
  /\ EmptyAt(k) = 0
  /\ ret' = -1
  /\ UNCHANGED <<hashes, ht_index, ht_log, log_head, aborted>>

\* assert(len >= 2) or assert(len <= NDN_MAX_URL_LENGTH) fails: abort.
InsertAssertFails(k) ==
  /\ ~aborted
  /\ call' = <<"insert", k>>
  /\ ~InsertArgsOK(k)
  /\ aborted' = TRUE
  /\ UNCHANGED <<hashes, ht_index, ht_log, log_head, ret>>

NdnHtInsert(k, is_terminal, dst_port_id) ==
  \/ InsertExisting(k, is_terminal, dst_port_id)
  \/ InsertIntoSlot(k, is_terminal, dst_port_id)
  \/ InsertLogFull(k, is_terminal, dst_port_id)
  \/ InsertBucketsFull(k, is_terminal, dst_port_id)
  \/ InsertAssertFails(k)

Next ==
  \E k \in Keys :
    \/ \E r \in Req : NdnContains(k, r[1], r[2])
    \/ \E r \in Req : NdnHtInsert(k, r[1], r[2])

Spec == Init /\ [][Next]_vars

---------------------------------------------------------------------------
(* Properties                                                              *)

StoredKeys == {ht_log[o].url : o \in DOMAIN ht_log}

\* No false negatives: every prefix that has a record in the log is found
\* by ndn_contains, whichever of its two buckets ndn_ht_insert put it in and
\* whatever other prefixes collide with it (ndn_contains, ndn_ht_insert).
NoFalseNegative == \A k \in StoredKeys : FoundAt(k) # 0

\* Deduplication: no prefix has two records, however the inserts of
\* colliding prefixes and upgrades interleave (the ndn_contains call at the
\* top of ndn_ht_insert).
UniqueRecords ==
  \A o1, o2 \in DOMAIN ht_log : o1 # o2 => ht_log[o1].url # ht_log[o2].url

\* No record is written past the end of the log region: the headroom
\* assert in ndn_ht_insert stops every write that would overrun NDN_LOG_CAP.
NoLogOverrun ==
  \A o \in DOMAIN ht_log : o + 3 + KeyLen[ht_log[o].url] <= LogCap

\* Index and log agree: every valid slot points at the start of a record,
\* carries that record's tag and sits in one of its prefix's two candidate
\* buckets, and every record is pointed at by exactly one slot.
IndexMatchesLog ==
  /\ \A b \in Bkts, i \in SlotIdx :
       LET s == ht_index[b][i] IN
       s.off # 0 =>
         /\ s.off \in DOMAIN ht_log
         /\ s.tag = tagOf[ht_log[s.off].url]
         /\ b \in {ContainsBucket(ht_log[s.off].url, 1),
                   ContainsBucket(ht_log[s.off].url, 2)}
  /\ \A o \in DOMAIN ht_log :
       \E b \in Bkts, i \in SlotIdx :
         /\ ht_index[b][i].off = o
         /\ \A b2 \in Bkts, i2 \in SlotIdx :
              ht_index[b2][i2].off = o => <<b2, i2>> = <<b, i>>

---------------------------------------------------------------------------
(* Refinement: the table implements the abstract prefix store.             *)

CONSTANTS Absent, NoPort

\* The metadata of a record as the abstract store sees it: the port of a
\* non-terminal record (the byte 255 that -1 became) carries no meaning.
AbsMeta(rec) ==
  [is_terminal |-> rec.is_terminal,
   dst_port |-> IF rec.is_terminal = 1 THEN rec.dst_port ELSE NoPort]

AbsStore ==
  [k \in Keys |->
     IF k \in StoredKeys
     THEN AbsMeta(ht_log[CHOOSE o \in DOMAIN ht_log : ht_log[o].url = k])
     ELSE Absent]

Abs == INSTANCE PrefixStore WITH store <- AbsStore

\* Every sequence of calls of ndn_contains and ndn_ht_insert behaves as the
\* abstract prefix store: lookups answer 1 exactly for stored prefixes,
\* inserts never lose or duplicate a prefix, upgrades latch once.
AbsSpec == Abs!Spec
=============================================================================
