----------------------------- MODULE PacketPool -----------------------------
(***************************************************************************)
(* packet_pool/packet_pool.c: idle packets sit in a singly linked ring of  *)
(* nodes.  The nodes from head to tail hold packets, the ones after tail   *)
(* are spare; head and tail chase each other around the ring.  Every       *)
(* public operation runs under the pool's mutex, so it is one step here;   *)
(* the threads' use of it (protocol_adapter.c) is what interleaves.        *)
(*                                                                         *)
(* The buffer inside a packet is data and left out.                        *)
(***************************************************************************)
EXTENDS Naturals, Sequences, SequencesExt

CONSTANTS Packets, Nodes,   \* the memory cells malloc may hand out
          Null,             \* the null pointer
          MaxIdle,          \* pkt_count_max, 128 in the code
          Threads,          \* receive threads, which give back what they took
          UdpThread,        \* the UDP loop, which may forget to
          MallocMayFail     \* may malloc fail before the cells run out?

ASSUME PoolAssumption ==
    /\ MaxIdle \in Nat \ {0}
    /\ Null \notin Packets \union Nodes
    /\ UdpThread \notin Threads
    /\ MallocMayFail \in BOOLEAN

Users == Threads \union {UdpThread}

VARIABLES ring,    \* g_packet_list_idle and the nodes it owns
          exist,   \* the packets that are allocated
          held     \* held[t]: what t took and has not given back, in order

vars == <<ring, exist, held>>

Init == /\ ring = [head |-> Null, tail |-> Null, nodes |-> {},
                   next |-> [n \in Nodes |-> Null],
                   pkt |-> [n \in Nodes |-> Null],
                   ring_size |-> 0, pkt_count |-> 0]
        /\ exist = {}
        /\ held = [t \in Users |-> <<>>]

-----------------------------------------------------------------------------
(* The list operations, from a ring to a ring.                             *)

\* Mutant: behind head instead of behind tail.
NodeInsertAtHead(r, n) ==
    IF r.ring_size = 0
      THEN [r EXCEPT !.head = n, !.tail = n, !.next[n] = n,
                     !.nodes = {n}, !.ring_size = 1]
      ELSE [r EXCEPT !.next[n] = r.next[r.head], !.next[r.head] = n,
                     !.nodes = r.nodes \union {n}, !.ring_size = r.ring_size + 1]

NodeInsert(r, n) ==
    IF r.ring_size = 0
      THEN [r EXCEPT !.head = n, !.tail = n, !.next[n] = n,
                     !.nodes = {n}, !.ring_size = 1]
      ELSE [r EXCEPT !.next[n] = r.next[r.tail], !.next[r.tail] = n,
                     !.nodes = r.nodes \union {n}, !.ring_size = r.ring_size + 1]

\* The node behind tail is freed.
NodeDelete(r) ==
    LET n == r.next[r.tail] IN
    CASE r.ring_size = 0 -> r
      [] r.ring_size = 1 -> [r EXCEPT !.head = Null, !.tail = Null, !.nodes = {},
                                      !.next[r.tail] = Null, !.ring_size = 0]
      [] OTHER -> [r EXCEPT !.next[r.tail] = r.next[n], !.next[n] = Null,
                            !.nodes = r.nodes \ {n}, !.ring_size = r.ring_size - 1]

\* A node from malloc; without one the ring stays as it is.
FreeNodes(r) == Nodes \ r.nodes

\* Mutant: head is not moved on.
GetFromHeadStays(r) ==
    IF r.ring_size = 0 \/ r.pkt_count = 0 THEN r
    ELSE [r EXCEPT !.pkt_count = r.pkt_count - 1]

\* The ring without its oldest packet, which is r.pkt[r.head].
GetFromHead(r) ==
    IF r.ring_size = 0 \/ r.pkt_count = 0 THEN r
    ELSE [r EXCEPT !.pkt[r.head] = Null, !.head = r.next[r.head],
                   !.pkt_count = r.pkt_count - 1]

Full(r) == r.ring_size = r.pkt_count

SaveFromTail(r, p) ==
    LET n == r.next[r.tail] IN
    [r EXCEPT !.pkt[n] = p, !.tail = n, !.pkt_count = r.pkt_count + 1]

Times(n) == [i \in 1 .. n |-> i]

\* internal_packet_pool_delete: the oldest packets beyond max go, then every
\* spare node.
TrimTo(r, max) ==
    LET fewer == FoldLeft(LAMBDA q, i : GetFromHead(q), r,
                          Times(r.pkt_count - max))
    IN  FoldLeft(LAMBDA q, i : NodeDelete(q), fewer,
                 Times(fewer.ring_size - fewer.pkt_count))

\* Mutants: one packet too many stays; the limit is taken as one less.
TrimLate(r) == IF r.pkt_count > MaxIdle THEN TrimTo(r, MaxIdle + 1) ELSE r
TrimAtLimit(r) == IF r.pkt_count >= MaxIdle THEN TrimTo(r, MaxIdle - 1) ELSE r

\* The check at the end of internal_packet_pool_set.
Trim(r) == IF r.pkt_count > MaxIdle THEN TrimTo(r, MaxIdle) ELSE r

-----------------------------------------------------------------------------
(* The operations under the mutex, by a user that holds at most the packet *)
(* of the request it works on and the one of its reply.                    *)

PacketsIn(r) == {r.pkt[n] : n \in Nodes} \ {Null}

\* packet_pool_get_buffer; when nothing is idle and malloc fails it returns
\* NULL and nothing changes.
Get(t) ==
    /\ Len(held[t]) < 2
    /\ \/ /\ ring.pkt_count > 0
          /\ held' = [held EXCEPT ![t] = Append(held[t], ring.pkt[ring.head])]
          /\ ring' = GetFromHead(ring)
          /\ UNCHANGED exist
       \/ /\ ring.pkt_count = 0
          /\ \E p \in Packets \ exist :
               /\ exist' = exist \union {p}
               /\ held' = [held EXCEPT ![t] = Append(held[t], p)]
          /\ UNCHANGED ring

\* packet_pool_set on the packet taken last.
Set(t) ==
    /\ held[t] # <<>>
    /\ held' = [held EXCEPT ![t] = Front(held[t])]
    /\ \/ /\ Full(ring) /\ FreeNodes(ring) # {}
          /\ \E n \in FreeNodes(ring) :
               ring' = Trim(SaveFromTail(NodeInsert(ring, n), Last(held[t])))
       \/ /\ ~Full(ring)
          /\ ring' = Trim(SaveFromTail(ring, Last(held[t])))
       \/ /\ Full(ring)            \* no memory for a node: nothing is saved
          /\ MallocMayFail \/ FreeNodes(ring) = {}
          /\ UNCHANGED ring
    /\ exist' = exist \ (PacketsIn(ring) \ PacketsIn(ring'))

\* protocol_adapter_process_udp_data returns early on data that is not one
\* packet, and forgets the packet it took.
Forget ==
    /\ Len(held[UdpThread]) = 1
    /\ held' = [held EXCEPT ![UdpThread] = <<>>]
    /\ UNCHANGED <<ring, exist>>

Next == Forget \/ \E t \in Users : Get(t) \/ Set(t)

Spec == Init /\ [][Next]_vars

-----------------------------------------------------------------------------
(* Correctness.                                                            *)

\* The i-th node from head, following next.
NodeAt[i \in Nat] == IF i = 0 THEN ring.head ELSE ring.next[NodeAt[i - 1]]

Occupied == {NodeAt[i] : i \in 0 .. ring.pkt_count - 1}

\* The types, and the limit on idle packets.
TypeOK ==
    /\ ring \in [head : Nodes \union {Null}, tail : Nodes \union {Null},
                 nodes : SUBSET Nodes,
                 next : [Nodes -> Nodes \union {Null}],
                 pkt : [Nodes -> Packets \union {Null}],
                 ring_size : 0 .. MaxIdle, pkt_count : 0 .. MaxIdle]
    /\ exist \subseteq Packets
    /\ \A t \in Users : held[t] \in Seq(Packets) /\ Len(held[t]) <= 2

\* The header comment of packet_pool.c: a ring of ring_size nodes, all that are
\* allocated, in which the nodes from head to tail, and no others, hold a
\* packet; an empty list has no packet and head is the node behind tail.
RingShape ==
    IF ring.ring_size = 0
      THEN ring.head = Null /\ ring.tail = Null /\ ring.nodes = {}
           /\ ring.pkt_count = 0
      ELSE /\ {NodeAt[i] : i \in 0 .. ring.ring_size - 1} = ring.nodes
           /\ NodeAt[ring.ring_size] = ring.head
           /\ ring.next[ring.tail] = NodeAt[ring.pkt_count]
           /\ ring.pkt_count > 0 => NodeAt[ring.pkt_count - 1] = ring.tail
           /\ \A n \in Nodes : ring.pkt[n] # Null <=> n \in Occupied

\* A packet has one owner: it is in one node of the ring, or taken once by one
\* user, and it has not been freed.
OwnedOnce ==
    /\ PacketsIn(ring) \subseteq exist
    /\ \A m, n \in Nodes : ring.pkt[m] = ring.pkt[n] /\ ring.pkt[m] # Null => m = n
    /\ \A t \in Users : \A i \in DOMAIN held[t] :
         /\ held[t][i] \in exist \ PacketsIn(ring)
         /\ \A u \in Users : \A j \in DOMAIN held[u] :
              held[t][i] = held[u][j] => t = u /\ i = j

\* The ring, read from head, is the queue of idle packets.
IdleQueue == [i \in 1 .. ring.pkt_count |-> ring.pkt[NodeAt[i - 1]]]

Idle == INSTANCE IdlePool WITH idle <- IdleQueue, out <- exist \ PacketsIn(ring)

\* The ring does what IdlePool promises.
IdleSpec == Idle!Spec

\* packet_pool.c:15, "packets no longer used are saved behind the tail ... or
\* deleted": every packet that exists is idle or in use.
NothingForgotten ==
    \A p \in exist : p \in PacketsIn(ring)
                     \/ \E t \in Users : \E i \in DOMAIN held[t] : held[t][i] = p
=============================================================================
