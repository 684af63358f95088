----------------------------- MODULE Ipv4Dir248 -----------------------------
(***************************************************************************)
(* The ipv4Gpu kernel of src/l2fwd/master.cu: one thread per request looks *)
(* the destination address up in the DIR-24-8 tables.                     *)
(*                                                                         *)
(*   dst_port = tbl_24[dst_ip >> 8];                                       *)
(*   if(dst_port & 0x8000)                                                 *)
(*       dst_port = tbl_long[(dst_port & 0x7fff) << 8 | (dst_port & 0xff)];*)
(*                                                                         *)
(* The tables are built by dir_ipv4_init, whose source is not in the       *)
(* repository; they are built here in the layout the kernel's own indexing *)
(* implies: tbl_24[a >> 8] holds the port of the longest route of length   *)
(* at most 24 covering a's /24, or, when a longer route falls inside that  *)
(* /24, 0x8000 | g for the g-th such /24, whose 256 answers are            *)
(* tbl_long[g << 8 .. g << 8 | 0xff], one per low byte of the address.     *)
(* Addresses are scaled down to HiBits + 8 bits ("/24" becomes /HiBits);   *)
(* the low byte and the kernel's constants are the code's.                 *)
(***************************************************************************)
EXTENDS Integers, FiniteSets, Bitwise

CONSTANTS
  HiBits,       \* the bits of an address above its low byte (24)
  RouteSet,     \* candidate routes [prefix, len, port], len in 0..HiBits + 8
  MaxRoutes,    \* bound on the routes of one table
  NoRoute       \* the tbl_24 entry of an address no route covers (0)

AddrBits == HiBits + 8
Addrs == 0..(2^AddrBits - 1)

VARIABLE routes   \* the routing table the lookup tables are built from

\* The route covers address a: their first r.len bits agree.
Covers(r, a) == a \div 2^(AddrBits - r.len) = r.prefix \div 2^(AddrBits - r.len)

\* Reference: the port of the longest route covering a.
Lpm(a) ==
  LET C == {r \in routes : Covers(r, a)}
  IN  IF C = {} THEN NoRoute
      ELSE (CHOOSE r \in C : \A s \in C : s.len <= r.len).port

\* The /24s (here /HiBits) that a route longer than 24 bits falls inside,
\* numbered in increasing order.
LongHi == {r.prefix \div 2^8 : r \in {s \in routes : s.len > HiBits}}
Group(hi) == Cardinality({h \in LongHi : h < hi})

Tbl24 == [hi \in 0..(2^HiBits - 1) |->
            IF hi \in LongHi THEN 32768 + Group(hi) ELSE Lpm(hi * 2^8)]
TblLong == [x \in 0..(Cardinality(LongHi) * 2^8 - 1) |->
              Lpm((CHOOSE hi \in LongHi : Group(hi) = x \div 2^8) * 2^8
                  + (x % 2^8))]

\* int dst_port = tbl_24[dst_ip >> 8]; the 0x8000 flag selects tbl_long.
Ipv4Gpu(dst_ip) ==
  LET dst_port == Tbl24[shiftR(dst_ip, 8)]
  IN  IF (dst_port & 32768) # 0
        THEN TblLong[(dst_port & 32767) * 2^8 + (dst_port & 255)]
        ELSE dst_port

TypeOK == routes \subseteq RouteSet

\* Any table of at most MaxRoutes routes; the kernel does not change it.
Init == routes \in {R \in SUBSET RouteSet : Cardinality(R) <= MaxRoutes}

Next == UNCHANGED routes

Spec == Init /\ [][Next]_routes

\* The kernel answers every address with the port of its longest matching
\* route, as a DIR-24-8 lookup does.
KernelIsLpm == \A a \in Addrs : Ipv4Gpu(a) = Lpm(a)
=============================================================================
