------------------------------ MODULE WmService ------------------------------
(***************************************************************************)
(* What the GPU master promises every worker lcore, with rings, counters,  *)
(* the h_reqs batch and the kernel abstracted away: a FIFO lookup service. *)
(*                                                                         *)
(*  - a worker posts an address at the end of its outstanding requests;    *)
(*  - the master answers a prefix of one worker's outstanding requests at  *)
(*    once, each with the lookup table's port for its address;             *)
(*  - a worker consumes its answers one at a time, in the order posted;    *)
(*  - the master may fail for good, and answers nothing after that.        *)
(***************************************************************************)
EXTENDS Integers, Sequences

CONSTANTS
  Workers,  \* the worker lcores
  Addrs,    \* IPv4 addresses
  Lookup    \* the answer for each address

Ports == {Lookup[a] : a \in Addrs}

VARIABLES
  outstanding,  \* per worker: posted addresses not yet answered
  ready,        \* per worker: answers published and not yet consumed
  got,          \* per worker: the answers consumed so far
  up            \* the master is running

vars == <<outstanding, ready, got, up>>

TypeOK ==
  /\ outstanding \in [Workers -> Seq(Addrs)]
  /\ ready \in [Workers -> Seq(Ports)]
  /\ got \in [Workers -> Seq(Ports)]
  /\ up \in BOOLEAN

Init ==
  /\ outstanding = [w \in Workers |-> << >>]
  /\ ready = [w \in Workers |-> << >>]
  /\ got = [w \in Workers |-> << >>]
  /\ up = TRUE

Post(w, a) ==
  /\ outstanding' = [outstanding EXCEPT ![w] = Append(@, a)]
  /\ UNCHANGED <<ready, got, up>>

\* The n oldest outstanding requests of w are answered together.
Answer(w, n) ==
  /\ up
  /\ n \in 1..Len(outstanding[w])
  /\ ready' = [ready EXCEPT ![w] =
                 @ \o [k \in 1..n |-> Lookup[outstanding[w][k]]]]
  /\ outstanding' = [outstanding EXCEPT ![w] = SubSeq(@, n + 1, Len(@))]
  /\ UNCHANGED <<got, up>>

Consume(w) ==
  /\ ready[w] # << >>
  /\ got' = [got EXCEPT ![w] = Append(@, Head(ready[w]))]
  /\ ready' = [ready EXCEPT ![w] = Tail(@)]
  /\ UNCHANGED <<outstanding, up>>

Fail ==
  /\ up
  /\ up' = FALSE
  /\ UNCHANGED <<outstanding, ready, got>>

AnswerSome(w) == \E n \in 1..Len(outstanding[w]) : Answer(w, n)

Next ==
  \E w \in Workers : \/ \E a \in Addrs : Post(w, a)
                     \/ AnswerSome(w)
                     \/ Consume(w)
  \/ Fail

\* Every worker's outstanding requests are answered in the end while the
\* master runs; consuming is up to the worker, failing is never forced.
Spec == Init /\ [][Next]_vars /\ \A w \in Workers : WF_vars(AnswerSome(w))
=============================================================================
