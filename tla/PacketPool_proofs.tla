-------------------------- MODULE PacketPool_proofs --------------------------
(***************************************************************************)
(* Proofs about PacketPool, for any packets, nodes, limit and threads: the *)
(* linked list stays a ring with its packets in a row from head to tail,   *)
(* every packet has one owner, and the ring is the queue that IdlePool     *)
(* promises.                                                               *)
(*                                                                         *)
(* The list is pointers; the proofs name the order of its nodes.  For each *)
(* list operation a lemma tells how that order and the queue of packets    *)
(* change.                                                                 *)
(***************************************************************************)
EXTENDS PacketPool, WellFoundedInduction, SequenceTheorems, TLAPS

\* A ring before its limits are known.
RingType ==
    [head : Nodes \union {Null}, tail : Nodes \union {Null}, nodes : SUBSET Nodes,
     next : [Nodes -> Nodes \union {Null}], pkt : [Nodes -> Packets \union {Null}],
     ring_size : Nat, pkt_count : Nat]

\* The index that follows i around a ring of that size.
After(i, size) == IF i = size - 1 THEN 0 ELSE i + 1

\* o is the order of r's nodes from head: each is behind the one before, the
\* first ones hold the packets, and tail is the last of these.
Ordered(r, o) ==
    /\ r \in RingType
    /\ r.pkt_count <= r.ring_size
    /\ o \in [0 .. r.ring_size - 1 -> Nodes]
    /\ \A i, j \in 0 .. r.ring_size - 1 : o[i] = o[j] => i = j
    /\ r.nodes = {o[i] : i \in 0 .. r.ring_size - 1}
    /\ \A i \in 0 .. r.ring_size - 1 : r.next[o[i]] = o[After(i, r.ring_size)]
    /\ \A n \in Nodes : r.pkt[n] # Null <=> \E i \in 0 .. r.pkt_count - 1 : n = o[i]
    /\ IF r.ring_size = 0
         THEN r.head = Null /\ r.tail = Null
         ELSE /\ r.head = o[0]
              /\ r.tail = o[IF r.pkt_count = 0 THEN r.ring_size - 1
                                               ELSE r.pkt_count - 1]

\* The packets of r, oldest first.
Queue(r, o) == [i \in 1 .. r.pkt_count |-> r.pkt[o[i - 1]]]

-----------------------------------------------------------------------------
\* A full ring gets a node behind tail, which is spare.
LEMMA InsertOrdered ==
    ASSUME NEW r, NEW o, Ordered(r, o), Full(r), NEW n \in FreeNodes(r)
    PROVE  LET q == NodeInsert(r, n)
           IN  \E e : /\ Ordered(q, e)
                      /\ q.ring_size = r.ring_size + 1
                      /\ q.pkt_count = r.pkt_count
                      /\ q.pkt = r.pkt
                      /\ Queue(q, e) = Queue(r, o)
                      /\ r.ring_size # 0 => q.head = r.head
<1> DEFINE q == NodeInsert(r, n)
           size == r.ring_size
           e == [i \in 0 .. size |-> IF i = size THEN n ELSE o[i]]
<1>1. /\ size \in Nat /\ r.pkt_count = size /\ n \in Nodes /\ n \notin r.nodes
      /\ \A i \in 0 .. size - 1 : o[i] \in Nodes /\ o[i] # n
      /\ n # Null
  BY PoolAssumption DEF Ordered, RingType, Full, FreeNodes
<1>2. CASE size = 0
  <2>1. q = [r EXCEPT !.head = n, !.tail = n, !.next[n] = n,
                      !.nodes = {n}, !.ring_size = 1]
    BY <1>2 DEF NodeInsert
  <2>2. /\ q \in RingType /\ q.head = n /\ q.tail = n /\ q.next[n] = n
        /\ q.nodes = {n} /\ q.ring_size = 1 /\ q.pkt_count = 0 /\ q.pkt = r.pkt
    <3> DEFINE x == [r.next EXCEPT ![n] = n]
    <3>1. /\ r \in RingType /\ x \in [Nodes -> Nodes \union {Null}] /\ x[n] = n
          /\ q = [r EXCEPT !.head = n, !.tail = n, !.next = x, !.nodes = {n},
                           !.ring_size = 1]
      BY <2>1, <1>1 DEF Ordered, RingType
    <3> HIDE DEF q, x
    <3> QED
      BY <3>1, <1>1, <1>2 DEF RingType
  <2>3. e \in [0 .. 0 -> Nodes] /\ e[0] = n
    BY <1>1, <1>2
  <2> HIDE DEF e, q
  <2>4. \A m \in Nodes : q.pkt[m] = Null
    BY <2>2, <1>1, <1>2 DEF Ordered
  <2>5. Ordered(q, e)
    <3>1. 0 .. 1 - 1 = {0} /\ 0 .. 0 - 1 = {}
      OBVIOUS
    <3>2. \A i \in {0} : q.next[e[i]] = e[After(i, 1)]
      BY <2>2, <2>3 DEF After
    <3> QED
      BY <2>2, <2>3, <2>4, <3>1, <3>2 DEF Ordered
  <2>6. Queue(q, e) = Queue(r, o)
    BY <2>2, <1>1, <1>2 DEF Queue
  <2> QED
    BY <2>2, <2>5, <2>6, <1>1, <1>2 DEF q
<1>3. CASE size # 0
  <2>1. q = [r EXCEPT !.next[n] = r.next[r.tail], !.next[r.tail] = n,
                     !.nodes = r.nodes \union {n}, !.ring_size = r.ring_size + 1]
    BY <1>3 DEF NodeInsert
  <2>2. r.tail = o[size - 1] /\ r.next[r.tail] = o[0] /\ r.head = o[0]
        /\ r.tail \in Nodes /\ o[0] \in Nodes /\ r.tail # n
    BY <1>1, <1>3 DEF Ordered, After
  <2>3. /\ q \in RingType /\ q.head = r.head /\ q.tail = r.tail
        /\ q.next = [r.next EXCEPT ![n] = o[0], ![r.tail] = n]
        /\ q.nodes = r.nodes \union {n} /\ q.ring_size = size + 1
        /\ q.pkt_count = size /\ q.pkt = r.pkt
    <3> DEFINE x == [r.next EXCEPT ![n] = o[0], ![r.tail] = n]
               all == r.nodes \union {n}
               more == size + 1
    <3>1. /\ r \in RingType /\ x \in [Nodes -> Nodes \union {Null}]
          /\ all \in SUBSET Nodes /\ more \in Nat
      BY <2>2, <1>1 DEF Ordered, RingType
    <3>a. q = [r EXCEPT !.next = x, !.nodes = all, !.ring_size = more]
      BY <2>1, <2>2
    <3> HIDE DEF q, x, all, more
    <3>2. /\ q \in RingType /\ q.head = r.head /\ q.tail = r.tail /\ q.next = x
          /\ q.nodes = all /\ q.ring_size = more
          /\ q.pkt_count = r.pkt_count /\ q.pkt = r.pkt
      BY <3>1, <3>a DEF RingType
    <3> QED
      BY <3>2, <1>1 DEF x, all, more
  <2>4. /\ e \in [0 .. size -> Nodes] /\ e[size] = n
        /\ \A i \in 0 .. size - 1 : e[i] = o[i]
    BY <1>1
  <2>5. q.next[n] = o[0] /\ q.next[r.tail] = n
        /\ \A i \in 0 .. size - 2 : q.next[o[i]] = r.next[o[i]]
    BY <2>2, <2>3, <1>1, <1>3 DEF Ordered, RingType
  <2> HIDE DEF e, q
  <2>6. \A i, j \in 0 .. size : e[i] = e[j] => i = j
    BY <2>4, <1>1 DEF Ordered
  <2>7. q.nodes = {e[i] : i \in 0 .. size}
    BY <2>3, <2>4, <1>1 DEF Ordered
  <2>8. \A i \in 0 .. size : q.next[e[i]] = e[After(i, size + 1)]
    <3>1. \A i \in 0 .. size - 2 : r.next[o[i]] = o[i + 1]
      BY <1>1 DEF Ordered, After
    <3>2. q.next[e[size]] = e[0]
      BY <2>4, <2>5, <1>3, <1>1
    <3>3. q.next[e[size - 1]] = e[size]
      BY <2>2, <2>4, <2>5, <1>1, <1>3 DEF Ordered
    <3>4. \A i \in 0 .. size - 2 : q.next[e[i]] = e[i + 1]
      BY <3>1, <2>4, <2>5, <1>1
    <3> QED
      BY <3>2, <3>3, <3>4, <1>1 DEF After
  <2>9. \A m \in Nodes : q.pkt[m] # Null <=> \E i \in 0 .. size - 1 : m = e[i]
    BY <2>3, <2>4, <1>1 DEF Ordered
  <2>10. Ordered(q, e)
    <3>1. r.tail = e[size - 1] /\ r.head = e[0]
      BY <2>2, <2>4, <1>1, <1>3
    <3>2. /\ q.ring_size - 1 = size /\ q.pkt_count = size /\ size \in Nat
          /\ q.ring_size = size + 1
      BY <2>3, <1>1
    <3> HIDE DEF size
    <3>3. /\ q.pkt_count <= q.ring_size
          /\ \A m \in Nodes : q.pkt[m] # Null <=> \E i \in 0 .. q.pkt_count - 1 : m = e[i]
      BY <2>9, <3>2
    <3>4. /\ e \in [0 .. q.ring_size - 1 -> Nodes]
          /\ \A i, j \in 0 .. q.ring_size - 1 : e[i] = e[j] => i = j
          /\ q.nodes = {e[i] : i \in 0 .. q.ring_size - 1}
      BY <2>4, <2>6, <2>7, <3>2
    <3>5. \A i \in 0 .. q.ring_size - 1 : q.next[e[i]] = e[After(i, q.ring_size)]
      BY <2>8, <3>2
    <3>6. IF q.ring_size = 0
            THEN q.head = Null /\ q.tail = Null
            ELSE /\ q.head = e[0]
                 /\ q.tail = e[IF q.pkt_count = 0 THEN q.ring_size - 1
                                                  ELSE q.pkt_count - 1]
      BY <2>3, <3>1, <3>2, <1>3 DEF size
    <3> QED
      BY <2>3, <3>3, <3>4, <3>5, <3>6 DEF Ordered
  <2>11. Queue(q, e) = Queue(r, o)
    BY <2>3, <2>4, <1>1 DEF Queue
  <2> QED
    BY <2>3, <2>10, <2>11, <1>1 DEF q
<1> QED
  BY <1>2, <1>3, <1>1

\* The queue is one of packets, as long as the ring says.
LEMMA QueueType ==
    ASSUME NEW r, NEW o, Ordered(r, o)
    PROVE  Queue(r, o) \in Seq(Packets \union {Null}) /\ Len(Queue(r, o)) = r.pkt_count
<1>1. ASSUME NEW i \in 1 .. r.pkt_count PROVE r.pkt[o[i - 1]] \in Packets \union {Null}
  BY DEF Ordered, RingType
<1>2. r.pkt_count \in Nat
  BY DEF Ordered, RingType
<1> QED
  BY <1>1, <1>2 DEF Queue

\* A packet goes into the node behind tail, which is spare.
LEMMA SaveOrdered ==
    ASSUME NEW r, NEW o, Ordered(r, o), r.pkt_count < r.ring_size,
           NEW p \in Packets
    PROVE  LET q == SaveFromTail(r, p)
           IN  /\ Ordered(q, o)
               /\ q.ring_size = r.ring_size
               /\ q.pkt_count = r.pkt_count + 1
               /\ q.head = r.head
               /\ Queue(q, o) = Append(Queue(r, o), p)
               /\ \E n \in Nodes : r.pkt[n] = Null /\ q.pkt = [r.pkt EXCEPT ![n] = p]
<1> DEFINE q == SaveFromTail(r, p)
           n == o[r.pkt_count]
<1>1. /\ r.ring_size \in Nat /\ r.pkt_count \in Nat /\ n \in Nodes /\ p # Null
      /\ r.next[r.tail] = n /\ r.pkt[n] = Null
  BY PoolAssumption DEF Ordered, RingType, After
<1>2. /\ q \in RingType /\ q.head = r.head /\ q.tail = n /\ q.nodes = r.nodes
      /\ q.next = r.next /\ q.ring_size = r.ring_size
      /\ q.pkt_count = r.pkt_count + 1 /\ q.pkt = [r.pkt EXCEPT ![n] = p]
  <2> DEFINE x == [r.pkt EXCEPT ![n] = p]
             more == r.pkt_count + 1
  <2>1. /\ r \in RingType /\ x \in [Nodes -> Packets \union {Null}]
        /\ more \in Nat /\ n \in Nodes
        /\ q = [r EXCEPT !.pkt = x, !.tail = n, !.pkt_count = more]
    BY <1>1 DEF Ordered, RingType, SaveFromTail
  <2> HIDE DEF q, n, x, more
  <2>2. /\ q \in RingType /\ q.head = r.head /\ q.tail = n /\ q.nodes = r.nodes
        /\ q.next = r.next /\ q.ring_size = r.ring_size
        /\ q.pkt_count = more /\ q.pkt = x
    BY <2>1 DEF RingType
  <2> QED
    BY <2>2 DEF x, more
<1>3. \A m \in Nodes : q.pkt[m] # Null <=> \E i \in 0 .. r.pkt_count : m = o[i]
  <2>1. \A m \in Nodes : q.pkt[m] = IF m = n THEN p ELSE r.pkt[m]
    BY <1>2 DEF Ordered, RingType
  <2> QED
    BY <2>1, <1>1 DEF Ordered
<1> HIDE DEF q
<1>4. Ordered(q, o)
  BY <1>1, <1>2, <1>3 DEF Ordered
<1>5. Queue(q, o) = Append(Queue(r, o), p)
  <2>1. \A i \in 1 .. r.pkt_count : q.pkt[o[i - 1]] = r.pkt[o[i - 1]]
    BY <1>1, <1>2 DEF Ordered, RingType
  <2>2. q.pkt[n] = p
    BY <1>1, <1>2 DEF Ordered, RingType
  <2>3. Queue(r, o) \in Seq(Packets \union {Null}) /\ Len(Queue(r, o)) = r.pkt_count
    BY <1>1, QueueType
  <2> QED
    BY <2>1, <2>2, <2>3, <1>1, <1>2 DEF Queue
<1> QED
  BY <1>1, <1>2, <1>4, <1>5 DEF q

\* The oldest packet goes, and the node of the second oldest is the head.
LEMMA GetOrdered ==
    ASSUME NEW r, NEW o, Ordered(r, o), r.pkt_count > 0
    PROVE  LET q == GetFromHead(r)
           IN  /\ \E e : Ordered(q, e) /\ Queue(q, e) = Tail(Queue(r, o))
               /\ q.ring_size = r.ring_size
               /\ q.pkt_count = r.pkt_count - 1
               /\ r.head \in Nodes /\ r.pkt[r.head] # Null
               /\ r.pkt[r.head] = Head(Queue(r, o)) /\ Queue(r, o) # <<>>
               /\ q.pkt = [r.pkt EXCEPT ![r.head] = Null]
<1> DEFINE q == GetFromHead(r)
           size == r.ring_size
           e == [i \in 0 .. size - 1 |-> o[After(i, size)]]
<1>1. /\ size \in Nat /\ r.pkt_count \in Nat /\ size > 0 /\ r.pkt_count <= size
      /\ r.head = o[0] /\ r.head \in Nodes /\ r.pkt[r.head] # Null
  BY DEF Ordered, RingType
<1>2. /\ q \in RingType /\ q.head = r.next[o[0]] /\ q.tail = r.tail
      /\ q.nodes = r.nodes /\ q.next = r.next /\ q.ring_size = size
      /\ q.pkt_count = r.pkt_count - 1 /\ q.pkt = [r.pkt EXCEPT ![o[0]] = Null]
  <2> DEFINE x == [r.pkt EXCEPT ![o[0]] = Null]
             h == r.next[o[0]]
             less == r.pkt_count - 1
  <2>1. /\ r \in RingType /\ x \in [Nodes -> Packets \union {Null}]
        /\ less \in Nat /\ h \in Nodes \union {Null}
    BY <1>1 DEF Ordered, RingType
  <2>2. q = [r EXCEPT !.pkt = x, !.head = h, !.pkt_count = less]
    BY <1>1 DEF GetFromHead
  <2> HIDE DEF q, h, x, less
  <2>3. /\ q \in RingType /\ q.head = h /\ q.tail = r.tail /\ q.nodes = r.nodes
        /\ q.next = r.next /\ q.ring_size = r.ring_size
        /\ q.pkt_count = less /\ q.pkt = x
    BY <2>1, <2>2 DEF RingType
  <2> QED
    BY <2>3 DEF x, h, less
<1>3. /\ e \in [0 .. size - 1 -> Nodes] /\ e[size - 1] = o[0]
      /\ \A i \in 0 .. size - 2 : e[i] = o[i + 1]
      /\ \A i \in 0 .. size - 1 : After(i, size) \in 0 .. size - 1
      /\ \A i \in 0 .. size - 1 : e[i] = o[After(i, size)]
  BY <1>1 DEF Ordered, After
<1>4. \A n \in Nodes : q.pkt[n] # Null <=> \E i \in 0 .. r.pkt_count - 2 : n = e[i]
  <2>1. \A n \in Nodes : q.pkt[n] = IF n = o[0] THEN Null ELSE r.pkt[n]
    BY <1>2 DEF Ordered, RingType
  <2> HIDE DEF q, e, size
  <2>2. \A n \in Nodes : q.pkt[n] # Null
                           <=> \E i \in 1 .. r.pkt_count - 1 : n = o[i]
    BY <2>1, <1>1 DEF Ordered, size
  <2>3. ASSUME NEW n \in Nodes, NEW i \in 1 .. r.pkt_count - 1, n = o[i]
        PROVE  \E j \in 0 .. r.pkt_count - 2 : n = e[j]
    <3>1. i - 1 \in 0 .. r.pkt_count - 2 /\ i - 1 \in 0 .. size - 2 /\ i - 1 + 1 = i
      BY <1>1
    <3> QED
      BY <3>1, <2>3, <1>3
  <2>4. ASSUME NEW n \in Nodes, NEW j \in 0 .. r.pkt_count - 2, n = e[j]
        PROVE  \E i \in 1 .. r.pkt_count - 1 : n = o[i]
    <3>1. j + 1 \in 1 .. r.pkt_count - 1 /\ j \in 0 .. size - 2
      BY <1>1
    <3> QED
      BY <3>1, <2>4, <1>3
  <2> QED
    BY <2>2, <2>3, <2>4
<1> HIDE DEF q, e
<1>5. \A i, j \in 0 .. size - 1 : e[i] = e[j] => i = j
  BY <1>1, <1>3 DEF Ordered, After
<1>6. r.nodes = {e[i] : i \in 0 .. size - 1}
  <2>1. \A i \in 0 .. size - 1 : \E j \in 0 .. size - 1 : o[i] = e[j]
    <3> TAKE i \in 0 .. size - 1
    <3>1. CASE i = 0
      BY <3>1, <1>1, <1>3
    <3>2. CASE i # 0
      <4>1. i - 1 \in 0 .. size - 2 /\ i - 1 + 1 = i /\ i - 1 \in 0 .. size - 1
        BY <1>1, <3>2
      <4> QED
        BY <4>1, <1>3
    <3> QED
      BY <3>1, <3>2
  <2>2. \A i \in 0 .. size - 1 : \E j \in 0 .. size - 1 : e[i] = o[j]
    BY <1>3
  <2>3. r.nodes = {o[i] : i \in 0 .. size - 1}
    BY DEF Ordered
  <2> HIDE DEF size
  <2> QED
    BY <2>1, <2>2, <2>3
<1>7. \A i \in 0 .. size - 1 : r.next[e[i]] = e[After(i, size)]
  <2>1. \A i \in 0 .. size - 1 : r.next[e[i]] = o[After(After(i, size), size)]
    BY <1>3 DEF Ordered
  <2> QED
    BY <2>1, <1>3
<1>8. q.head = e[0]
  BY <1>1, <1>2, <1>3 DEF Ordered
<1>9. q.tail = e[IF q.pkt_count = 0 THEN size - 1 ELSE q.pkt_count - 1]
  <2>1. r.tail = o[r.pkt_count - 1]
    BY <1>1 DEF Ordered
  <2>2. CASE r.pkt_count = 1
    BY <2>1, <2>2, <1>2, <1>3
  <2>3. CASE r.pkt_count # 1
    <3>1. r.pkt_count - 2 \in 0 .. size - 2 /\ r.pkt_count - 2 + 1 = r.pkt_count - 1
          /\ r.pkt_count - 1 # 0 /\ r.pkt_count - 1 - 1 = r.pkt_count - 2
      BY <1>1, <2>3
    <3> QED
      BY <2>1, <3>1, <1>2, <1>3
  <2> QED
    BY <2>2, <2>3
<1>10. Ordered(q, e)
  <2>1. \A n \in Nodes : q.pkt[n] # Null <=> \E i \in 0 .. q.pkt_count - 1 : n = e[i]
    <3>1. q.pkt_count - 1 = r.pkt_count - 2
      BY <1>1, <1>2
    <3> QED
      BY <3>1, <1>4
  <2>2. q.pkt_count <= q.ring_size /\ q.ring_size # 0
    BY <1>1, <1>2
  <2> QED
    BY <2>1, <2>2, <1>2, <1>3, <1>5, <1>6, <1>7, <1>8, <1>9 DEF Ordered
<1>11. /\ Queue(q, e) = Tail(Queue(r, o)) /\ Queue(r, o) # <<>>
       /\ Head(Queue(r, o)) = r.pkt[o[0]]
  <2> DEFINE old == Queue(r, o)
             new == Queue(q, e)
             count == r.pkt_count
  <2>1. ASSUME NEW i \in 1 .. count PROVE r.pkt[o[i - 1]] \in Packets \union {Null}
    BY <1>1 DEF Ordered, RingType
  <2>2. /\ old \in Seq(Packets \union {Null}) /\ Len(old) = count
        /\ \A i \in 1 .. count : old[i] = r.pkt[o[i - 1]]
    BY <2>1, <1>1 DEF Queue
  <2>3. ASSUME NEW i \in 1 .. count - 1
        PROVE  q.pkt[e[i - 1]] = r.pkt[o[i]] /\ q.pkt[e[i - 1]] \in Packets \union {Null}
    <3>1. i - 1 \in 0 .. size - 2 /\ i - 1 + 1 = i /\ i \in 0 .. size - 1 /\ i # 0
      BY <1>1
    <3>2. e[i - 1] = o[i] /\ o[i] # o[0] /\ o[i] \in Nodes
      BY <3>1, <1>1, <1>3 DEF Ordered
    <3> QED
      BY <3>2, <1>2 DEF Ordered, RingType
  <2>4. q.pkt_count = count - 1 /\ count \in Nat \ {0}
    BY <1>1, <1>2
  <2> HIDE DEF count
  <2>5. /\ new \in Seq(Packets \union {Null}) /\ Len(new) = count - 1
        /\ \A i \in 1 .. count - 1 : new[i] = q.pkt[e[i - 1]]
    BY <2>3, <2>4 DEF Queue
  <2> HIDE DEF old, new
  <2>6. Len(Tail(old)) = count - 1 /\ Tail(old) \in Seq(Packets \union {Null})
    BY <2>2, <2>4
  <2>7. ASSUME NEW i \in 1 .. count - 1 PROVE Tail(old)[i] = new[i]
    <3>1. i + 1 \in 1 .. count /\ i + 1 - 1 = i
      BY <2>4
    <3>2. Tail(old)[i] = old[i + 1]
      BY <2>2, <2>4
    <3> QED
      BY <3>1, <3>2, <2>2, <2>3, <2>5
  <2>8. new = Tail(old)
    BY <2>5, <2>6, <2>7, SeqEqual
  <2> QED
    BY <2>2, <2>4, <2>8 DEF old, new
<1> QED
  BY <1>1, <1>2, <1>10, <1>11 DEF q

\* The node behind tail goes when it is spare.
LEMMA DeleteOrdered ==
    ASSUME NEW r, NEW o, Ordered(r, o), r.pkt_count > 0, r.pkt_count < r.ring_size
    PROVE  LET q == NodeDelete(r)
           IN  /\ \E e : Ordered(q, e) /\ Queue(q, e) = Queue(r, o)
               /\ q.ring_size = r.ring_size - 1
               /\ q.pkt_count = r.pkt_count
               /\ q.pkt = r.pkt
<1> DEFINE q == NodeDelete(r)
           size == r.ring_size
           count == r.pkt_count
           n == o[count]
           e == [i \in 0 .. size - 2 |-> IF i < count THEN o[i] ELSE o[i + 1]]
<1>1. /\ size \in Nat /\ count \in Nat /\ size >= 2 /\ count > 0 /\ count < size
      /\ r.tail = o[count - 1] /\ r.head = o[0] /\ n = r.next[r.tail]
      /\ n \in Nodes /\ r.tail \in Nodes /\ n # r.tail
      /\ r.next[n] = o[After(count, size)]
  <2>1. /\ size \in Nat /\ count \in Nat /\ size >= 2 /\ count > 0 /\ count < size
        /\ count \in 0 .. size - 1 /\ count - 1 \in 0 .. size - 1
        /\ After(count - 1, size) = count /\ count - 1 # count
    BY DEF Ordered, RingType, After
  <2>2. r.tail = o[count - 1] /\ r.head = o[0]
    BY <2>1 DEF Ordered
  <2> HIDE DEF size, count
  <2> QED
    BY <2>1, <2>2 DEF Ordered, size, count
<1>2. /\ q \in RingType /\ q.head = r.head /\ q.tail = r.tail
      /\ q.nodes = r.nodes \ {n} /\ q.ring_size = size - 1
      /\ q.next = [r.next EXCEPT ![r.tail] = r.next[n], ![n] = Null]
      /\ q.pkt_count = r.pkt_count /\ q.pkt = r.pkt
  <2> DEFINE x == [r.next EXCEPT ![r.tail] = r.next[n], ![n] = Null]
             left == r.nodes \ {n}
             less == size - 1
  <2>1. /\ r \in RingType /\ x \in [Nodes -> Nodes \union {Null}]
        /\ less \in Nat /\ left \in SUBSET Nodes
    BY <1>1 DEF Ordered, RingType
  <2>2. q = [r EXCEPT !.next = x, !.nodes = left, !.ring_size = less]
    <3>1. q = [r EXCEPT !.next[r.tail] = r.next[r.next[r.tail]],
                        !.next[r.next[r.tail]] = Null,
                        !.nodes = r.nodes \ {r.next[r.tail]},
                        !.ring_size = r.ring_size - 1]
      BY <1>1 DEF NodeDelete
    <3> QED
      BY <3>1, <1>1
  <2> HIDE DEF q, x, left, less
  <2>3. /\ q \in RingType /\ q.head = r.head /\ q.tail = r.tail /\ q.nodes = left
        /\ q.next = x /\ q.ring_size = less
        /\ q.pkt_count = r.pkt_count /\ q.pkt = r.pkt
    BY <2>1, <2>2 DEF RingType
  <2> QED
    BY <2>3 DEF x, left, less
<1>3. /\ e \in [0 .. size - 2 -> Nodes]
      /\ \A i \in 0 .. count - 1 : e[i] = o[i]
      /\ \A i \in count .. size - 2 : e[i] = o[i + 1]
  BY <1>1 DEF Ordered
<1>4. /\ q.next[r.tail] = o[After(count, size)]
      /\ \A i \in 0 .. size - 1 : i # count /\ i # count - 1 => q.next[o[i]] = r.next[o[i]]
  BY <1>1, <1>2 DEF Ordered, RingType
<1>5. \A i, j \in 0 .. size - 1 : o[i] = o[j] => i = j
  BY DEF Ordered
<1>6. \A i \in 0 .. size - 1 : r.next[o[i]] = o[After(i, size)]
  BY DEF Ordered
<1> HIDE DEF q, e
<1>7. \A i, j \in 0 .. size - 2 : e[i] = e[j] => i = j
  BY <1>1, <1>3, <1>5
<1>8. q.nodes = {e[i] : i \in 0 .. size - 2}
  <2>1. \A i \in 0 .. size - 1 : i # count => \E j \in 0 .. size - 2 : o[i] = e[j]
    <3> SUFFICES ASSUME NEW i \in 0 .. size - 1, i # count
                 PROVE  \E j \in 0 .. size - 2 : o[i] = e[j]
      OBVIOUS
    <3>1. CASE i < count
      BY <3>1, <1>1, <1>3
    <3>2. CASE i > count
      <4>1. i - 1 \in count .. size - 2 /\ i - 1 + 1 = i
        BY <1>1, <3>2
      <4> QED
        BY <4>1, <1>1, <1>3
    <3> QED
      BY <1>1, <3>1, <3>2
  <2>2. \A j \in 0 .. size - 2 : \E i \in 0 .. size - 1 : i # count /\ o[i] = e[j]
    <3> TAKE j \in 0 .. size - 2
    <3>1. CASE j < count
      BY <3>1, <1>1, <1>3
    <3>2. CASE j >= count
      BY <3>2, <1>1, <1>3
    <3> QED
      BY <1>1, <3>1, <3>2
  <2>3. r.nodes = {o[i] : i \in 0 .. size - 1} /\ count \in 0 .. size - 1
    BY <1>1 DEF Ordered
  <2> HIDE DEF size, count
  <2> QED
    BY <2>1, <2>2, <2>3, <1>2, <1>5
<1>9. \A i \in 0 .. size - 2 : q.next[e[i]] = e[After(i, size - 1)]
  <2> TAKE i \in 0 .. size - 2
  <2> HIDE DEF size, count, n
  <2>1. CASE i < count - 1
    <3>1. q.next[e[i]] = o[i + 1] /\ e[i + 1] = o[i + 1] /\ i # size - 2
      BY <2>1, <1>1, <1>3, <1>4, <1>6 DEF After
    <3> QED
      BY <3>1, <1>1 DEF After
  <2>2. CASE i = count - 1
    <3>1. q.next[e[i]] = o[After(count, size)]
      BY <2>2, <1>1, <1>3, <1>4
    <3>2. CASE count = size - 1
      BY <2>2, <3>1, <3>2, <1>1, <1>3 DEF After
    <3>3. CASE count # size - 1
      <4>1. q.next[e[i]] = o[count + 1] /\ e[count] = o[count + 1]
        BY <3>1, <3>3, <1>1, <1>3 DEF After
      <4> QED
        BY <4>1, <3>3, <2>2, <1>1 DEF After
    <3> QED
      BY <3>2, <3>3
  <2>3. CASE i >= count
    <3>1. q.next[e[i]] = o[After(i + 1, size)]
      BY <2>3, <1>1, <1>3, <1>4, <1>6
    <3>2. CASE i = size - 2
      BY <2>3, <3>1, <3>2, <1>1, <1>3 DEF After
    <3>3. CASE i # size - 2
      BY <2>3, <3>1, <3>3, <1>1, <1>3 DEF After
    <3> QED
      BY <3>2, <3>3
  <2> QED
    BY <2>1, <2>2, <2>3, <1>1
<1>10. \A m \in Nodes : q.pkt[m] # Null <=> \E i \in 0 .. count - 1 : m = e[i]
  BY <1>2, <1>3 DEF Ordered
<1>11. q.head = e[0] /\ q.tail = e[count - 1]
  BY <1>1, <1>2, <1>3
<1>12. Ordered(q, e)
  <2>1. /\ q.ring_size - 1 = size - 2 /\ q.ring_size = size - 1 /\ q.ring_size # 0
        /\ q.pkt_count = count /\ count # 0 /\ count <= size - 1
    BY <1>1, <1>2
  <2> HIDE DEF size, count
  <2>2. /\ e \in [0 .. q.ring_size - 1 -> Nodes]
        /\ \A i, j \in 0 .. q.ring_size - 1 : e[i] = e[j] => i = j
        /\ q.nodes = {e[i] : i \in 0 .. q.ring_size - 1}
    BY <2>1, <1>3, <1>7, <1>8
  <2>3. \A i \in 0 .. q.ring_size - 1 : q.next[e[i]] = e[After(i, q.ring_size)]
    BY <2>1, <1>9
  <2>4. \A m \in Nodes : q.pkt[m] # Null <=> \E i \in 0 .. q.pkt_count - 1 : m = e[i]
    BY <2>1, <1>10
  <2> QED
    BY <2>1, <2>2, <2>3, <2>4, <1>2, <1>11 DEF Ordered
<1>13. Queue(q, e) = Queue(r, o)
  <2>1. \A i \in 1 .. count : e[i - 1] = o[i - 1]
    BY <1>1, <1>3
  <2> QED
    BY <2>1, <1>2 DEF Queue
<1> QED
  BY <1>2, <1>12, <1>13 DEF q

-----------------------------------------------------------------------------
\* A loop that runs once takes one packet, or frees one node.
LEMMA GetOnce ==
    ASSUME NEW r
    PROVE  FoldLeft(LAMBDA q, i : GetFromHead(q), r, Times(1)) = GetFromHead(r)
<1> DEFINE D == DOMAIN Times(1)
           Iter(w) == w = [s \in SUBSET D |->
                             IF s = {} THEN r ELSE GetFromHead(w[s \ {Max(s)}])]
           once == [s \in SUBSET D |-> IF s = {} THEN r ELSE GetFromHead(r)]
<1>1. D = {1} /\ SUBSET D = {{}, {1}} /\ Max({1}) = 1
  BY DEF Times, Max
<1>2. Iter(once)
  <2> HIDE DEF D
  <2>1. \A s \in SUBSET D : s # {} => s \ {Max(s)} = {}
    BY <1>1
  <2> QED
    BY <2>1
<1>3. ASSUME NEW w, Iter(w) PROVE w[D] = GetFromHead(r)
  <2> HIDE DEF D
  <2>1. w[{}] = r /\ w[{1}] = GetFromHead(w[{1} \ {Max({1})}])
    BY <1>1, <1>3
  <2> QED
    BY <1>1, <2>1
<1>4. FoldLeft(LAMBDA q, i : GetFromHead(q), r, Times(1)) = (CHOOSE w : Iter(w))[D]
  BY DEF FoldLeft, MapThenFoldSet
<1> HIDE DEF Iter
<1> QED
  BY <1>2, <1>3, <1>4

\* The same of the loop over the spare nodes.
LEMMA DeleteOnce ==
    ASSUME NEW r
    PROVE  FoldLeft(LAMBDA q, i : NodeDelete(q), r, Times(1)) = NodeDelete(r)
<1> DEFINE D == DOMAIN Times(1)
           Iter(w) == w = [s \in SUBSET D |->
                             IF s = {} THEN r ELSE NodeDelete(w[s \ {Max(s)}])]
           once == [s \in SUBSET D |-> IF s = {} THEN r ELSE NodeDelete(r)]
<1>1. D = {1} /\ SUBSET D = {{}, {1}} /\ Max({1}) = 1
  BY DEF Times, Max
<1>2. Iter(once)
  <2> HIDE DEF D
  <2>1. \A s \in SUBSET D : s # {} => s \ {Max(s)} = {}
    BY <1>1
  <2> QED
    BY <2>1
<1>3. ASSUME NEW w, Iter(w) PROVE w[D] = NodeDelete(r)
  <2> HIDE DEF D
  <2>1. w[{}] = r /\ w[{1}] = NodeDelete(w[{1} \ {Max({1})}])
    BY <1>1, <1>3
  <2> QED
    BY <1>1, <2>1
<1>4. FoldLeft(LAMBDA q, i : NodeDelete(q), r, Times(1)) = (CHOOSE w : Iter(w))[D]
  BY DEF FoldLeft, MapThenFoldSet
<1> HIDE DEF Iter
<1> QED
  BY <1>2, <1>3, <1>4

\* A full ring with one packet more than the limit loses its oldest packet and
\* the node that held it.
LEMMA TrimOrdered ==
    ASSUME NEW r, NEW o, Ordered(r, o), r.ring_size = MaxIdle + 1,
           r.pkt_count = MaxIdle + 1
    PROVE  LET q == Trim(r)
           IN  /\ \E e : Ordered(q, e) /\ Queue(q, e) = Tail(Queue(r, o))
               /\ q.ring_size = MaxIdle
               /\ r.head \in Nodes
               /\ q.pkt = [r.pkt EXCEPT ![r.head] = Null]
<1> DEFINE fewer == GetFromHead(r)
<1>1. MaxIdle \in Nat /\ MaxIdle > 0 /\ r.pkt_count > 0 /\ r.pkt_count > MaxIdle
  BY PoolAssumption
<1>2. PICK f : Ordered(fewer, f) /\ Queue(fewer, f) = Tail(Queue(r, o))
  BY <1>1, GetOrdered
<1>3. /\ fewer.ring_size = MaxIdle + 1 /\ fewer.pkt_count = MaxIdle
      /\ r.head \in Nodes /\ fewer.pkt = [r.pkt EXCEPT ![r.head] = Null]
  BY <1>1, GetOrdered
<1>4. Trim(r) = NodeDelete(fewer)
  <2>1. r.pkt_count - MaxIdle = 1 /\ fewer.ring_size - fewer.pkt_count = 1
    BY <1>1, <1>3
  <2>2. Trim(r) = TrimTo(r, MaxIdle)
    BY <1>1 DEF Trim
  <2>3. TrimTo(r, MaxIdle)
          = LET less == FoldLeft(LAMBDA q, i : GetFromHead(q), r, Times(1))
            IN  FoldLeft(LAMBDA q, i : NodeDelete(q), less,
                         Times(less.ring_size - less.pkt_count))
    BY <2>1, Zenon DEF TrimTo
  <2> QED
    BY <2>1, <2>2, <2>3, GetOnce, DeleteOnce, Zenon
<1> HIDE DEF fewer
<1>5. PICK e : Ordered(NodeDelete(fewer), e)
               /\ Queue(NodeDelete(fewer), e) = Queue(fewer, f)
  BY <1>1, <1>2, <1>3, DeleteOrdered
<1>6. NodeDelete(fewer).ring_size = MaxIdle /\ NodeDelete(fewer).pkt = fewer.pkt
  BY <1>1, <1>2, <1>3, DeleteOrdered
<1> QED
  BY <1>2, <1>3, <1>4, <1>5, <1>6

\* q is r, whose order is o, with p as the youngest packet, and without the
\* oldest one if that is one too many.
Saved(r, o, p, q) ==
    /\ q.ring_size <= MaxIdle
    /\ \E e : /\ Ordered(q, e)
              /\ Queue(q, e) = IF r.pkt_count < MaxIdle
                                 THEN Append(Queue(r, o), p)
                                 ELSE Append(Tail(Queue(r, o)), p)
    /\ \E n \in Nodes :
         /\ r.pkt[n] = Null
         /\ IF r.pkt_count < MaxIdle
              THEN q.pkt = [r.pkt EXCEPT ![n] = p]
              ELSE /\ r.head \in Nodes /\ r.pkt[r.head] # Null
                   /\ q.pkt = [r.pkt EXCEPT ![n] = p, ![r.head] = Null]

\* What packet_pool_set does with the ring when it has the node it may need.
LEMMA SetOrdered ==
    ASSUME NEW r, NEW o, Ordered(r, o), r.ring_size <= MaxIdle,
           NEW s, NEW p \in Packets,
           \/ ~Full(r) /\ s = r
           \/ Full(r) /\ \E n \in FreeNodes(r) : s = NodeInsert(r, n)
    PROVE  Saved(r, o, p, Trim(SaveFromTail(s, p)))
<1> DEFINE u == SaveFromTail(s, p)
<1>1. /\ r.ring_size \in Nat /\ r.pkt_count \in Nat /\ r.pkt_count <= r.ring_size
      /\ MaxIdle \in Nat /\ MaxIdle > 0
  BY PoolAssumption DEF Ordered, RingType
<1>2. PICK e : /\ Ordered(s, e) /\ Queue(s, e) = Queue(r, o)
               /\ s.pkt_count = r.pkt_count /\ s.pkt = r.pkt
               /\ s.ring_size = IF Full(r) THEN r.ring_size + 1 ELSE r.ring_size
               /\ r.ring_size # 0 => s.head = r.head
  <2>1. CASE ~Full(r)
    BY <2>1
  <2>2. CASE Full(r)
    BY <2>2, InsertOrdered
  <2> QED
    BY <2>1, <2>2
<1>3. s.pkt_count < s.ring_size
  BY <1>1, <1>2 DEF Full
<1>4. /\ Ordered(u, e) /\ u.ring_size = s.ring_size /\ u.pkt_count = r.pkt_count + 1
      /\ u.head = s.head /\ Queue(u, e) = Append(Queue(r, o), p)
  BY <1>2, <1>3, SaveOrdered
<1>5. PICK n \in Nodes : r.pkt[n] = Null /\ u.pkt = [r.pkt EXCEPT ![n] = p]
  <2>1. \E n \in Nodes : s.pkt[n] = Null /\ u.pkt = [s.pkt EXCEPT ![n] = p]
    BY <1>2, <1>3, SaveOrdered
  <2> HIDE DEF u
  <2> QED
    BY <2>1, <1>2
<1> HIDE DEF u
<1>6. CASE r.pkt_count < MaxIdle
  <2>1. Trim(u) = u
    BY <1>6, <1>1, <1>4 DEF Trim
  <2>2. u.ring_size <= MaxIdle
    BY <1>6, <1>1, <1>2, <1>4 DEF Full
  <2> QED
    BY <1>6, <1>4, <1>5, <2>1, <2>2 DEF u, Saved
<1>7. CASE ~(r.pkt_count < MaxIdle)
  <2>1. /\ r.pkt_count = MaxIdle /\ Full(r) /\ u.ring_size = MaxIdle + 1
        /\ u.pkt_count = MaxIdle + 1 /\ u.head = r.head
    BY <1>7, <1>1, <1>2, <1>4 DEF Full
  <2>2. PICK g : Ordered(Trim(u), g) /\ Queue(Trim(u), g) = Tail(Queue(u, e))
    BY <1>4, <2>1, TrimOrdered
  <2>3. /\ Trim(u).ring_size = MaxIdle
        /\ Trim(u).pkt = [u.pkt EXCEPT ![r.head] = Null]
    BY <1>4, <2>1, TrimOrdered
  <2>4. /\ r.head \in Nodes /\ r.pkt[r.head] # Null
        /\ Queue(r, o) \in Seq(Packets \union {Null}) /\ Queue(r, o) # <<>>
    <3>1. ASSUME NEW i \in 1 .. r.pkt_count
          PROVE  r.pkt[o[i - 1]] \in Packets \union {Null}
      BY <1>1 DEF Ordered, RingType
    <3>2. Queue(r, o) \in Seq(Packets \union {Null}) /\ Len(Queue(r, o)) = r.pkt_count
      BY <3>1, <1>1 DEF Queue
    <3> QED
      BY <3>2, <2>1, <1>1, GetOrdered
  <2>5. Tail(Append(Queue(r, o), p)) = Append(Tail(Queue(r, o)), p)
    <3> DEFINE old == Queue(r, o)
    <3> HIDE DEF old
    <3>1. old \in Seq(Packets \union {Null}) /\ old # <<>>
          => Tail(Append(old, p)) = Append(Tail(old), p)
      OBVIOUS
    <3> QED
      BY <3>1, <2>4 DEF old
  <2>6. Trim(u).pkt = [r.pkt EXCEPT ![n] = p, ![r.head] = Null]
    BY <2>3, <1>5
  <2>7. Queue(Trim(u), g) = Append(Tail(Queue(r, o)), p)
    BY <1>4, <2>2, <2>5
  <2>8. Trim(u).ring_size <= MaxIdle
    BY <1>1, <2>3
  <2> QED
    BY <1>5, <1>7, <2>2, <2>4, <2>6, <2>7, <2>8, Zenon DEF u, Saved
<1> QED
  BY <1>6, <1>7

-----------------------------------------------------------------------------
(* Who has the packets.                                                    *)

\* The packets in the nodes, and that none is in two.
In(f) == {f[n] : n \in Nodes} \ {Null}
OnceIn(f) == \A m, n \in Nodes : f[m] = f[n] /\ f[m] # Null => m = n

\* What the users hold: its type, its packets, and that none is held twice.
HeldType == /\ held \in [Users -> Seq(Packets)]
            /\ \A t \in Users : Len(held[t]) <= 2

HeldPackets == UNION {{held[t][i] : i \in 1 .. Len(held[t])} : t \in Users}

HeldOnce == \A t, u \in Users : \A i \in 1 .. Len(held[t]), j \in 1 .. Len(held[u]) :
                held[t][i] = held[u][j] => t = u /\ i = j

\* A packet is put into a node that has none.
LEMMA PutIn ==
    ASSUME NEW f \in [Nodes -> Packets \union {Null}], OnceIn(f),
           NEW n \in Nodes, f[n] = Null, NEW p \in Packets, p \notin In(f)
    PROVE  LET g == [f EXCEPT ![n] = p]
           IN  OnceIn(g) /\ In(g) = In(f) \union {p}
<1> DEFINE g == [f EXCEPT ![n] = p]
<1>1. g[n] = p /\ p # Null /\ \A m \in Nodes \ {n} : g[m] = f[m]
  BY PoolAssumption
<1>2. \A m \in Nodes : f[m] # p
  BY <1>1 DEF In
<1> HIDE DEF g
<1> QED
  BY <1>1, <1>2 DEF OnceIn, In, g

\* The packet of a node is taken out of it.
LEMMA TakeOut ==
    ASSUME NEW f \in [Nodes -> Packets \union {Null}], OnceIn(f),
           NEW n \in Nodes, f[n] # Null
    PROVE  LET g == [f EXCEPT ![n] = Null]
           IN  OnceIn(g) /\ In(g) = In(f) \ {f[n]} /\ f[n] \in In(f)
<1> DEFINE g == [f EXCEPT ![n] = Null]
<1>1. g[n] = Null /\ \A m \in Nodes \ {n} : g[m] = f[m]
  OBVIOUS
<1>2. \A m \in Nodes \ {n} : f[m] # f[n]
  BY DEF OnceIn
<1> HIDE DEF g
<1> QED
  BY <1>1, <1>2 DEF OnceIn, In, g

\* A user takes a packet that nobody has taken.
LEMMA HeldGrows ==
    ASSUME HeldType, HeldOnce, NEW t \in Users, NEW p \in Packets,
           p \notin HeldPackets, Len(held[t]) < 2,
           held' = [held EXCEPT ![t] = Append(held[t], p)]
    PROVE  HeldType' /\ HeldOnce' /\ HeldPackets' = HeldPackets \union {p}
<1> DEFINE len == Len(held[t])
<1>1. /\ held[t] \in Seq(Packets) /\ len \in Nat /\ Len(Append(held[t], p)) = len + 1
      /\ Append(held[t], p) \in Seq(Packets)
      /\ \A i \in 1 .. len : Append(held[t], p)[i] = held[t][i]
      /\ Append(held[t], p)[len + 1] = p
  BY DEF HeldType
<1>2. /\ Len(held'[t]) = len + 1 /\ held'[t] \in Seq(Packets)
      /\ \A i \in 1 .. len : held'[t][i] = held[t][i]
      /\ held'[t][len + 1] = p
      /\ \A u \in Users \ {t} : held'[u] = held[u]
  BY <1>1 DEF HeldType
<1>3. HeldType'
  BY <1>1, <1>2 DEF HeldType
<1>4. \A u \in Users : Len(held[u]) \in Nat
  BY DEF HeldType
<1> HIDE DEF len
<1>5. \A u \in Users : \A i \in 1 .. Len(held[u]) : held[u][i] # p
  BY DEF HeldPackets
<1>6. \A u \in Users : \A i \in 1 .. Len(held'[u]) :
         \/ u = t /\ i = len + 1 /\ held'[u][i] = p
         \/ i \in 1 .. Len(held[u]) /\ held'[u][i] = held[u][i]
  BY <1>1, <1>2, <1>4 DEF len
<1>7. HeldOnce'
  BY <1>5, <1>6 DEF HeldOnce
<1>8. HeldPackets' = HeldPackets \union {p}
  <2>1. \A u \in Users : \A i \in 1 .. Len(held[u]) :
           i \in 1 .. Len(held'[u]) /\ held'[u][i] = held[u][i]
    BY <1>1, <1>2, <1>4 DEF len
  <2>2. len + 1 \in 1 .. Len(held'[t]) /\ held'[t][len + 1] = p
    BY <1>1, <1>2
  <2>3. HeldPackets' \subseteq HeldPackets \union {p}
    BY <1>6 DEF HeldPackets
  <2>4. HeldPackets \subseteq HeldPackets'
    BY <2>1 DEF HeldPackets
  <2>5. p \in HeldPackets'
    BY <2>2 DEF HeldPackets
  <2> QED
    BY <2>3, <2>4, <2>5
<1> QED
  BY <1>3, <1>7, <1>8

\* A user is rid of the packet it took last.
LEMMA HeldShrinks ==
    ASSUME HeldType, HeldOnce, NEW t \in Users, held[t] # <<>>,
           held' = [held EXCEPT ![t] = Front(held[t])]
    PROVE  LET p == Last(held[t])
           IN  /\ HeldType' /\ HeldOnce' /\ HeldPackets' = HeldPackets \ {p}
               /\ p \in HeldPackets /\ p \in Packets
<1> DEFINE len == Len(held[t])
           p == Last(held[t])
<1>1. /\ held[t] \in Seq(Packets) /\ len \in Nat \ {0} /\ p \in Packets
      /\ p = held[t][len] /\ len <= 2
  BY DEF HeldType, Last
<1>2. /\ Front(held[t]) \in Seq(Packets) /\ Len(Front(held[t])) = len - 1
      /\ \A i \in 1 .. len - 1 : Front(held[t])[i] = held[t][i]
  BY <1>1 DEF Front
<1>3. /\ Len(held'[t]) = len - 1 /\ held'[t] \in Seq(Packets)
      /\ \A i \in 1 .. len - 1 : held'[t][i] = held[t][i]
      /\ \A u \in Users \ {t} : held'[u] = held[u]
  BY <1>2 DEF HeldType
<1>4. HeldType'
  BY <1>1, <1>3 DEF HeldType
<1>5. \A u \in Users : Len(held[u]) \in Nat
  BY DEF HeldType
<1> HIDE DEF len, p
<1>6. \A u \in Users : \A i \in 1 .. Len(held'[u]) :
         i \in 1 .. Len(held[u]) /\ held'[u][i] = held[u][i] /\ ~(u = t /\ i = len)
  BY <1>1, <1>3, <1>5 DEF len
<1>7. HeldOnce'
  BY <1>6 DEF HeldOnce
<1>8. p \in HeldPackets /\ len \in 1 .. Len(held[t])
  BY <1>1 DEF HeldPackets, len
<1>9. HeldPackets' = HeldPackets \ {p}
  <2>1. \A u \in Users : \A i \in 1 .. Len(held[u]) :
           \/ u = t /\ i = len
           \/ i \in 1 .. Len(held'[u]) /\ held'[u][i] = held[u][i]
    BY <1>1, <1>3, <1>5 DEF len
  <2>2. \A u \in Users : \A i \in 1 .. Len(held[u]) :
           held[u][i] = p => u = t /\ i = len
    BY <1>1, <1>8 DEF HeldOnce
  <2>3. HeldPackets' \subseteq HeldPackets \ {p}
    BY <1>6, <2>2 DEF HeldPackets
  <2>4. HeldPackets \ {p} \subseteq HeldPackets'
    BY <1>1, <2>1 DEF HeldPackets
  <2> QED
    BY <2>3, <2>4
<1> QED
  BY <1>1, <1>4, <1>7, <1>8, <1>9 DEF p

-----------------------------------------------------------------------------
(* The inductive invariant.                                                *)

\* The nodes have an order, the limit holds, and a packet is in one place: in one
\* node, or taken once.  OwnedOnce alone would not be kept: where the next packet
\* goes depends on the pointers.
PoolInv ==
    /\ HeldType /\ HeldOnce
    /\ exist \subseteq Packets
    /\ ring.ring_size <= MaxIdle
    /\ \E o : Ordered(ring, o)
    /\ OnceIn(ring.pkt)
    /\ In(ring.pkt) \union HeldPackets \subseteq exist
    /\ In(ring.pkt) \intersect HeldPackets = {}

\* It holds of the empty ring.
LEMMA PoolInit == Init => PoolInv
<1> SUFFICES ASSUME Init PROVE PoolInv
  OBVIOUS
<1>1. /\ ring.head = Null /\ ring.tail = Null /\ ring.nodes = {}
      /\ ring.ring_size = 0 /\ ring.pkt_count = 0
      /\ ring \in RingType /\ \A n \in Nodes : ring.pkt[n] = Null
  BY DEF Init, RingType
<1>2. Ordered(ring, [i \in {} |-> Null])
  <2>1. 0 .. 0 - 1 = {} /\ [i \in {} |-> Null] \in [{} -> Nodes]
    OBVIOUS
  <2> QED
    BY <1>1, <2>1 DEF Ordered
<1>3. HeldType /\ HeldOnce /\ HeldPackets = {}
  <2>1. held \in [Users -> Seq(Packets)] /\ \A t \in Users : held[t] = <<>>
    BY DEF Init
  <2>2. \A t \in Users : Len(held[t]) = 0
    BY <2>1
  <2> QED
    BY <2>1, <2>2 DEF HeldType, HeldOnce, HeldPackets
<1>4. OnceIn(ring.pkt) /\ In(ring.pkt) = {} /\ exist = {}
  BY <1>1 DEF OnceIn, In, Init
<1> QED
  BY <1>1, <1>2, <1>3, <1>4, PoolAssumption DEF PoolInv

\* The packets that are neither idle nor taken.
Astray == exist \ (In(ring.pkt) \union HeldPackets)

\* A packet is taken from the ring, or a new one is made.
LEMMA GetKeeps ==
    ASSUME PoolInv, NEW t \in Users, Get(t)
    PROVE  PoolInv' /\ Astray' = Astray
<1>1. CASE /\ ring.pkt_count > 0 /\ ring' = GetFromHead(ring) /\ exist' = exist
           /\ held' = [held EXCEPT ![t] = Append(held[t], ring.pkt[ring.head])]
  <2> DEFINE h == ring.head
             p == ring.pkt[h]
  <2>1. PICK o : Ordered(ring, o)
    BY DEF PoolInv
  <2>2. /\ \E e : Ordered(ring', e)
        /\ ring'.ring_size = ring.ring_size
        /\ h \in Nodes /\ ring.pkt[h] # Null
        /\ ring'.pkt = [ring.pkt EXCEPT ![h] = Null]
    BY <1>1, <2>1, GetOrdered
  <2>3. ring.pkt \in [Nodes -> Packets \union {Null}] /\ p \in Packets
    BY <2>1, <2>2 DEF Ordered, RingType
  <2>4. OnceIn(ring'.pkt) /\ In(ring'.pkt) = In(ring.pkt) \ {p} /\ p \in In(ring.pkt)
    BY <2>2, <2>3, TakeOut DEF PoolInv
  <2>5. HeldType' /\ HeldOnce' /\ HeldPackets' = HeldPackets \union {p}
    <3>1. p \notin HeldPackets /\ Len(held[t]) < 2
      BY <2>4 DEF PoolInv, Get
    <3> QED
      BY <3>1, <1>1, <2>3, HeldGrows DEF PoolInv
  <2> HIDE DEF p
  <2> QED
    BY <1>1, <2>2, <2>4, <2>5 DEF PoolInv, Astray
<1>2. CASE /\ ring' = ring
           /\ \E p \in Packets \ exist :
                /\ exist' = exist \union {p}
                /\ held' = [held EXCEPT ![t] = Append(held[t], p)]
  <2>1. PICK p \in Packets \ exist :
                /\ exist' = exist \union {p}
                /\ held' = [held EXCEPT ![t] = Append(held[t], p)]
    BY <1>2
  <2>2. HeldType' /\ HeldOnce' /\ HeldPackets' = HeldPackets \union {p}
    <3>1. p \notin HeldPackets /\ Len(held[t]) < 2
      BY DEF PoolInv, Get
    <3> QED
      BY <3>1, <2>1, HeldGrows DEF PoolInv
  <2> QED
    BY <1>2, <2>1, <2>2 DEF PoolInv, Astray
<1> QED
  BY <1>1, <1>2 DEF Get

\* What a Set by user t does, in one place: the packet leaves the user, and
\* unless it is lost it is put into the ring, which may free the oldest one.
LEMMA SetEffect ==
    ASSUME PoolInv, NEW t \in Users, Set(t)
    PROVE  LET p == Last(held[t])
           IN  /\ HeldType' /\ HeldOnce' /\ HeldPackets' = HeldPackets \ {p}
               /\ p \in HeldPackets /\ p \in Packets
               /\ exist' = exist \ (In(ring.pkt) \ In(ring'.pkt))
               /\ \/ ring' = ring
                  \/ /\ ring'.ring_size <= MaxIdle
                     /\ \E e : Ordered(ring', e)
                     /\ OnceIn(ring'.pkt)
                     /\ \/ In(ring'.pkt) = In(ring.pkt) \union {p}
                        \/ \E z \in In(ring.pkt) :
                             In(ring'.pkt) = (In(ring.pkt) \union {p}) \ {z}
<1> DEFINE p == Last(held[t])
<1>1. /\ HeldType' /\ HeldOnce' /\ HeldPackets' = HeldPackets \ {p}
      /\ p \in HeldPackets /\ p \in Packets
  BY HeldShrinks DEF PoolInv, Set
<1>2. exist' = exist \ (In(ring.pkt) \ In(ring'.pkt))
  BY DEF Set, PacketsIn, In
<1>3. PICK o : Ordered(ring, o)
  BY DEF PoolInv
<1>4. /\ ring.pkt \in [Nodes -> Packets \union {Null}] /\ OnceIn(ring.pkt)
      /\ p \notin In(ring.pkt)
  BY <1>1, <1>3 DEF PoolInv, Ordered, RingType
<1>5. CASE ring' = ring
  BY <1>1, <1>2, <1>5
<1>6. CASE ring' # ring
  <2>1. PICK s : /\ \/ ~Full(ring) /\ s = ring
                    \/ Full(ring) /\ \E n \in FreeNodes(ring) : s = NodeInsert(ring, n)
                 /\ ring' = Trim(SaveFromTail(s, p))
    BY <1>6 DEF Set
  <2> HIDE DEF p
  <2>2. /\ ring'.ring_size <= MaxIdle
        /\ \E e : Ordered(ring', e)
        /\ \E n \in Nodes :
             /\ ring.pkt[n] = Null
             /\ \/ ring'.pkt = [ring.pkt EXCEPT ![n] = p]
                \/ /\ ring.head \in Nodes /\ ring.pkt[ring.head] # Null
                   /\ ring'.pkt = [ring.pkt EXCEPT ![n] = p, ![ring.head] = Null]
    <3>1. ring.ring_size <= MaxIdle
      BY DEF PoolInv
    <3>2. Saved(ring, o, p, ring')
      BY <3>1, <1>1, <1>3, <2>1, SetOrdered
    <3> QED
      BY <3>2 DEF Saved
  <2>3. PICK n \in Nodes :
             /\ ring.pkt[n] = Null
             /\ \/ ring'.pkt = [ring.pkt EXCEPT ![n] = p]
                \/ /\ ring.head \in Nodes /\ ring.pkt[ring.head] # Null
                   /\ ring'.pkt = [ring.pkt EXCEPT ![n] = p, ![ring.head] = Null]
    BY <2>2
  <2> DEFINE g == [ring.pkt EXCEPT ![n] = p]
  <2>4. OnceIn(g) /\ In(g) = In(ring.pkt) \union {p}
    BY <1>1, <1>4, <2>3, PutIn
  <2>5. CASE ring'.pkt = g
    BY <1>1, <1>2, <2>2, <2>4, <2>5 DEF p
  <2>6. CASE /\ ring.head \in Nodes /\ ring.pkt[ring.head] # Null
             /\ ring'.pkt = [g EXCEPT ![ring.head] = Null]
    <3>1. g[ring.head] = ring.pkt[ring.head] /\ ring.pkt[ring.head] \in In(ring.pkt)
      BY <2>3, <2>6, <1>4 DEF In
    <3>2. g \in [Nodes -> Packets \union {Null}]
      BY <1>1, <1>4
    <3> HIDE DEF g
    <3>3. OnceIn(ring'.pkt) /\ In(ring'.pkt) = In(g) \ {g[ring.head]}
      BY <2>4, <2>6, <3>1, <3>2, TakeOut
    <3> QED
      BY <1>1, <1>2, <2>2, <2>4, <3>1, <3>3 DEF p
  <2> QED
    BY <2>3, <2>5, <2>6
<1> QED
  BY <1>5, <1>6

\* A packet that comes back has one place, or is lost.
LEMMA SetKeeps ==
    ASSUME PoolInv, NEW t \in Users, Set(t)
    PROVE  PoolInv'
<1> DEFINE p == Last(held[t])
<1>1. /\ HeldType' /\ HeldOnce' /\ HeldPackets' = HeldPackets \ {p}
      /\ p \in HeldPackets /\ p \in Packets
      /\ exist' = exist \ (In(ring.pkt) \ In(ring'.pkt))
      /\ \/ ring' = ring
         \/ /\ ring'.ring_size <= MaxIdle
            /\ \E e : Ordered(ring', e)
            /\ OnceIn(ring'.pkt)
            /\ \/ In(ring'.pkt) = In(ring.pkt) \union {p}
               \/ \E z \in In(ring.pkt) :
                    In(ring'.pkt) = (In(ring.pkt) \union {p}) \ {z}
  BY SetEffect
<1> HIDE DEF p
<1>2. In(ring'.pkt) \subseteq In(ring.pkt) \union {p}
  BY <1>1
<1>3. In(ring'.pkt) \union HeldPackets' \subseteq exist'
  BY <1>1, <1>2 DEF PoolInv
<1>4. In(ring'.pkt) \intersect HeldPackets' = {}
  BY <1>1, <1>2 DEF PoolInv
<1> QED
  BY <1>1, <1>3, <1>4 DEF PoolInv

\* The UDP loop forgets its only packet.
LEMMA ForgetKeeps ==
    ASSUME PoolInv, Forget
    PROVE  PoolInv' /\ HeldPackets' = HeldPackets \ {held[UdpThread][1]}
<1>1. /\ UdpThread \in Users /\ held[UdpThread] \in Seq(Packets)
      /\ Len(held[UdpThread]) = 1
  BY DEF Users, PoolInv, HeldType, Forget
<1>2. /\ held[UdpThread] # <<>> /\ Front(held[UdpThread]) = <<>>
      /\ Last(held[UdpThread]) = held[UdpThread][1]
  <2> DEFINE h == held[UdpThread]
  <2> HIDE DEF h
  <2>1. h \in Seq(Packets) /\ Len(h) = 1 => h # <<>> /\ SubSeq(h, 1, Len(h) - 1) = <<>>
    BY SubSeqEmpty
  <2> QED
    BY <2>1, <1>1 DEF Front, Last, h
<1>3. /\ HeldType' /\ HeldOnce'
      /\ HeldPackets' = HeldPackets \ {held[UdpThread][1]}
  BY <1>1, <1>2, HeldShrinks DEF Forget, PoolInv
<1> QED
  BY <1>3 DEF PoolInv, Forget

\* Every step keeps the invariant.
LEMMA PoolStep ==
    ASSUME PoolInv, [Next]_vars
    PROVE  PoolInv'
<1>1. CASE UNCHANGED vars
  BY <1>1 DEF vars, PoolInv, HeldType, HeldOnce, HeldPackets
<1> QED
  BY <1>1, GetKeeps, SetKeeps, ForgetKeeps DEF Next

\* The list of packet_pool.c stays in order, whoever uses it in between.
THEOREM PoolInvariant == Spec => []PoolInv
  BY PoolInit, PoolStep, PTL DEF Spec

-----------------------------------------------------------------------------
\* A packet has one owner, whoever takes, gives back and forgets packets.
THEOREM OneOwner == Spec => []OwnedOnce
<1>1. PoolInv => OwnedOnce
  <2> SUFFICES ASSUME PoolInv PROVE OwnedOnce
    OBVIOUS
  <2>1. PacketsIn(ring) = In(ring.pkt)
    BY DEF PacketsIn, In
  <2>2. \A t \in Users : DOMAIN held[t] = 1 .. Len(held[t])
    BY DEF PoolInv, HeldType
  <2>3. \A t \in Users : \A i \in 1 .. Len(held[t]) : held[t][i] \in HeldPackets
    BY DEF HeldPackets
  <2> QED
    BY <2>1, <2>2, <2>3 DEF PoolInv, HeldOnce, OnceIn, OwnedOnce
<1> QED
  BY <1>1, PoolInvariant, PTL

\* The types, and at most MaxIdle idle packets and nodes.
THEOREM PoolTypes == Spec => []TypeOK
<1>1. PoolInv => TypeOK
  <2> SUFFICES ASSUME PoolInv PROVE TypeOK
    OBVIOUS
  <2>1. ring \in RingType /\ ring.pkt_count <= ring.ring_size
        /\ ring.ring_size <= MaxIdle /\ MaxIdle \in Nat
    BY PoolAssumption DEF PoolInv, Ordered
  <2>2. ring.pkt_count \in 0 .. MaxIdle /\ ring.ring_size \in 0 .. MaxIdle
    BY <2>1 DEF RingType
  <2>3. ring \in [head : Nodes \union {Null}, tail : Nodes \union {Null},
                 nodes : SUBSET Nodes,
                 next : [Nodes -> Nodes \union {Null}],
                 pkt : [Nodes -> Packets \union {Null}],
                 ring_size : 0 .. MaxIdle, pkt_count : 0 .. MaxIdle]
    BY <2>1, <2>2 DEF RingType
  <2>4. exist \subseteq Packets
        /\ \A t \in Users : held[t] \in Seq(Packets) /\ Len(held[t]) <= 2
    BY DEF PoolInv, HeldType
  <2> QED
    BY <2>3, <2>4 DEF TypeOK
<1> QED
  BY <1>1, PoolInvariant, PTL

-----------------------------------------------------------------------------
(* Reading the ring from head: induction over the number of steps.          *)

\* A set of naturals that has 0 and with every number the next is all of them.
LEMMA SetInduction ==
    ASSUME NEW T, 0 \in T, \A n \in Nat : n \in T => n + 1 \in T
    PROVE  Nat \subseteq T
<1> SUFFICES ASSUME Nat \ T # {} PROVE FALSE
  OBVIOUS
<1>1. PICK m \in Nat \ T : \A y \in Nat \ T : ~(<<y, m>> \in OpToRel(<, Nat))
  <2>1. Nat \ T \subseteq Nat
    OBVIOUS
  <2> QED
    BY <2>1, NatLessThanWellFounded, WFMin
<1>2. \A y \in Nat \ T : ~(y < m)
  BY <1>1 DEF OpToRel
<1>3. m # 0
  OBVIOUS
<1>4. m - 1 \in Nat /\ m - 1 < m /\ m - 1 + 1 = m
  BY <1>3
<1> QED
  BY <1>2, <1>4

\* A function of the naturals by its first value and a successor.
LEMMA Iterates ==
    ASSUME NEW a, NEW f
    PROVE  \E g : g = [i \in Nat |-> IF i = 0 THEN a ELSE f[g[i - 1]]]
<1> DEFINE Upto(n, h) == h = [i \in 0 .. n |-> IF i = 0 THEN a ELSE f[h[i - 1]]]
           T == {n \in Nat : \E h : Upto(n, h)}
<1>1. 0 \in T
  <2>1. Upto(0, [i \in 0 .. 0 |-> a])
    OBVIOUS
  <2> QED
    BY <2>1
<1>2. ASSUME NEW n \in Nat, n \in T PROVE n + 1 \in T
  <2>1. PICK h : Upto(n, h)
    BY <1>2
  <2> DEFINE e == [i \in 0 .. n + 1 |-> IF i = n + 1 THEN f[h[n]] ELSE h[i]]
  <2>2. \A i \in 0 .. n : h[i] = IF i = 0 THEN a ELSE f[h[i - 1]]
    BY <2>1
  <2>3. \A i \in 0 .. n : e[i] = h[i]
    OBVIOUS
  <2>4. ASSUME NEW i \in 0 .. n + 1 PROVE e[i] = IF i = 0 THEN a ELSE f[e[i - 1]]
    <3>1. CASE i = n + 1
      BY <3>1, <2>3
    <3>2. CASE i # n + 1 /\ i # 0
      <4>1. i \in 0 .. n /\ i - 1 \in 0 .. n
        BY <3>2
      <4> QED
        BY <4>1, <2>2, <2>3, <3>2
    <3>3. CASE i = 0
      BY <3>3, <2>2, <2>3
    <3> QED
      BY <3>1, <3>2, <3>3
  <2>5. Upto(n + 1, e)
    <3> HIDE DEF e
    <3>1. e = [i \in 0 .. n + 1 |-> e[i]]
      BY DEF e
    <3> QED
      BY <3>1, <2>4
  <2> HIDE DEF e
  <2> QED
    BY <2>5
<1>3. Nat \subseteq T
  <2> HIDE DEF T
  <2> QED
    BY <1>1, <1>2, SetInduction
<1>4. \A n \in Nat : \E h : Upto(n, h)
  BY <1>3
<1> DEFINE H(n) == CHOOSE h : Upto(n, h)
           g == [n \in Nat |-> H(n)[n]]
<1>5. \A n \in Nat : Upto(n, H(n))
  BY <1>4
<1>6. ASSUME NEW n \in Nat PROVE H(n + 1)[n] = H(n)[n]
    <2> DEFINE E == {i \in Nat : i <= n => H(n + 1)[i] = H(n)[i]}
  <2>1. \A i \in 0 .. n : H(n)[i] = IF i = 0 THEN a ELSE f[H(n)[i - 1]]
    <3> HIDE DEF H
    <3> QED BY <1>5
  <2>2. \A i \in 0 .. n + 1 : H(n + 1)[i] = IF i = 0 THEN a ELSE f[H(n + 1)[i - 1]]
    <3> HIDE DEF H
    <3> QED BY <1>5
  <2> HIDE DEF H
  <2>3. 0 \in E
    BY <2>1, <2>2
  <2>4. ASSUME NEW i \in Nat, i \in E PROVE i + 1 \in E
    BY <2>1, <2>2, <2>4
  <2>5. Nat \subseteq E
    <3> HIDE DEF E
    <3> QED BY <2>3, <2>4, SetInduction
  <2> QED
    BY <2>5
<1>7. \A n \in Nat : g[n] = IF n = 0 THEN a ELSE f[g[n - 1]]
  <2>1. \A n \in Nat : H(n)[n] = IF n = 0 THEN a ELSE f[H(n)[n - 1]]
    <3> HIDE DEF H
    <3> QED BY <1>5
  <2> HIDE DEF H
  <2>2. \A n \in Nat \ {0} : H(n)[n - 1] = H(n - 1)[n - 1]
    <3> TAKE n \in Nat \ {0}
    <3>1. n - 1 \in Nat /\ n - 1 + 1 = n
      OBVIOUS
    <3> QED BY <3>1, <1>6
  <2> QED
    BY <2>1, <2>2
<1>8. g = [i \in Nat |-> IF i = 0 THEN a ELSE f[g[i - 1]]]
  <2> HIDE DEF H
  <2>1. g = [i \in Nat |-> g[i]]
    OBVIOUS
  <2> HIDE DEF g
  <2> QED
    BY <1>7, <2>1
<1> QED
  BY <1>8

\* NodeAt, of any ring, and what is read from its nodes.
At(r) == CHOOSE g : g = [i \in Nat |-> IF i = 0 THEN r.head ELSE r.next[g[i - 1]]]
Read(r) == [i \in 1 .. r.pkt_count |-> r.pkt[At(r)[i - 1]]]

\* The equation of NodeAt has a solution, so that it defines what it says.
LEMMA AtSteps ==
    ASSUME NEW r
    PROVE  At(r)[0] = r.head /\ \A i \in Nat : At(r)[i + 1] = r.next[At(r)[i]]
<1>1. At(r) = [i \in Nat |-> IF i = 0 THEN r.head ELSE r.next[At(r)[i - 1]]]
  BY Iterates DEF At
<1> DEFINE g == At(r)
<1> HIDE DEF g
<1>2. \A i \in Nat : g[i] = IF i = 0 THEN r.head ELSE r.next[g[i - 1]]
  BY <1>1 DEF g
<1>3. ASSUME NEW i \in Nat PROVE g[i + 1] = r.next[g[i]]
  <2>1. i + 1 \in Nat /\ i + 1 # 0 /\ i + 1 - 1 = i
    OBVIOUS
  <2> QED
    BY <1>2, <2>1
<1> QED
  BY <1>2, <1>3 DEF g

\* Following next from head meets the nodes in their order, and head again.
LEMMA AtOrder ==
    ASSUME NEW r, NEW o, Ordered(r, o), r.ring_size # 0
    PROVE  /\ \A i \in 0 .. r.ring_size - 1 : At(r)[i] = o[i]
           /\ At(r)[r.ring_size] = o[0]
<1> DEFINE size == r.ring_size
           T == {i \in Nat : i <= size - 1 => At(r)[i] = o[i]}
<1>1. size \in Nat \ {0} /\ r.head = o[0]
  BY DEF Ordered, RingType
<1> HIDE DEF size
<1>2. \A i \in 0 .. size - 1 : r.next[o[i]] = o[After(i, size)]
  BY DEF Ordered, size
<1>3. 0 \in T
  BY <1>1, AtSteps
<1>4. ASSUME NEW i \in Nat, i \in T PROVE i + 1 \in T
  <2> SUFFICES ASSUME i + 1 <= size - 1 PROVE At(r)[i + 1] = o[i + 1]
    OBVIOUS
  <2>1. i \in 0 .. size - 1 /\ i # size - 1
    BY <1>1
  <2>2. r.next[o[i]] = o[i + 1]
    BY <2>1, <1>2 DEF After
  <2>3. At(r)[i] = o[i]
    BY <1>4, <2>1, <1>1
  <2> QED
    BY <2>2, <2>3, AtSteps
<1>5. \A i \in 0 .. size - 1 : At(r)[i] = o[i]
  <2>1. Nat \subseteq T
    <3> HIDE DEF T
    <3> QED
      BY <1>3, <1>4, SetInduction
  <2> QED
    BY <2>1, <1>1
<1>6. At(r)[size] = o[0]
  <2>1. size - 1 \in 0 .. size - 1 /\ size - 1 \in Nat /\ size - 1 + 1 = size
    BY <1>1
  <2>2. r.next[o[size - 1]] = o[0]
    BY <2>1, <1>2 DEF After
  <2>3. At(r)[size - 1 + 1] = r.next[At(r)[size - 1]]
    BY <2>1, AtSteps
  <2> QED
    BY <2>1, <2>2, <2>3, <1>5
<1> QED
  BY <1>5, <1>6 DEF size

\* What is read is the queue of packets.
LEMMA ReadOff ==
    ASSUME NEW r, NEW o, Ordered(r, o)
    PROVE  Read(r) = Queue(r, o)
<1>1. r.ring_size \in Nat /\ r.pkt_count \in Nat /\ r.pkt_count <= r.ring_size
  BY DEF Ordered, RingType
<1>2. ASSUME NEW i \in 1 .. r.pkt_count PROVE At(r)[i - 1] = o[i - 1]
  <2>1. i - 1 \in 0 .. r.ring_size - 1 /\ r.ring_size # 0
    BY <1>1
  <2> QED
    BY <2>1, AtOrder
<1> QED
  BY <1>2 DEF Read, Queue

\* The ring of packet_pool.c: all nodes are in it, those from head to tail
\* hold the packets, and no others.
THEOREM RingIsShaped == Spec => []RingShape
<1>1. PoolInv => RingShape
  <2> SUFFICES ASSUME PoolInv PROVE RingShape
    OBVIOUS
  <2>1. PICK o : Ordered(ring, o)
    BY DEF PoolInv
  <2> DEFINE size == ring.ring_size
             count == ring.pkt_count
  <2>2. NodeAt = At(ring)
    BY DEF NodeAt, At
  <2>3. /\ size \in Nat /\ count \in Nat /\ count <= size
        /\ ring.nodes = {o[i] : i \in 0 .. size - 1}
        /\ \A i \in 0 .. size - 1 : ring.next[o[i]] = o[After(i, size)]
        /\ \A n \in Nodes : ring.pkt[n] # Null <=> \E i \in 0 .. count - 1 : n = o[i]
    BY <2>1 DEF Ordered, RingType
  <2>4. CASE size = 0
    <3>1. count = 0 /\ 0 .. 0 - 1 = {} /\ ring.head = Null /\ ring.tail = Null
      BY <2>1, <2>3, <2>4 DEF Ordered
    <3> QED
      BY <2>3, <2>4, <3>1 DEF RingShape
  <2>5. CASE size # 0
    <3>1. /\ ring.head = o[0]
          /\ ring.tail = o[IF count = 0 THEN size - 1 ELSE count - 1]
      BY <2>1, <2>5 DEF Ordered
    <3>2. (\A i \in 0 .. size - 1 : NodeAt[i] = o[i]) /\ NodeAt[size] = o[0]
      BY <2>1, <2>2, <2>5, AtOrder
    <3> HIDE DEF size, count
    <3>3. {NodeAt[i] : i \in 0 .. size - 1} = ring.nodes
      BY <2>3, <3>2
    <3>4. \A n \in Nodes : ring.pkt[n] # Null <=> n \in Occupied
      <4>1. \A i \in 0 .. count - 1 : NodeAt[i] = o[i]
        BY <2>3, <3>2
      <4>2. Occupied = {NodeAt[i] : i \in 0 .. count - 1}
        BY DEF Occupied, count
      <4> QED
        BY <2>3, <4>1, <4>2
    <3>5. count > 0 => NodeAt[count - 1] = ring.tail
      BY <2>3, <3>1, <3>2
    <3>6. ring.next[ring.tail] = NodeAt[count]
      <4>1. CASE count = 0
        BY <4>1, <2>3, <2>5, <3>1, <3>2 DEF After
      <4>2. CASE count # 0
        <5>1. count - 1 \in 0 .. size - 1 /\ ring.tail = o[count - 1]
          BY <4>2, <2>3, <3>1
        <5>2. ring.next[ring.tail] = o[After(count - 1, size)]
          BY <5>1, <2>3
        <5>3. CASE count = size
          BY <5>2, <5>3, <3>2 DEF After
        <5>4. CASE count # size
          BY <5>2, <5>4, <4>2, <2>3, <3>2 DEF After
        <5> QED
          BY <5>3, <5>4
      <4> QED
        BY <4>1, <4>2
    <3> QED
      BY <2>5, <3>1, <3>2, <3>3, <3>4, <3>5, <3>6 DEF RingShape, size, count
  <2> QED
    BY <2>4, <2>5
<1> QED
  BY <1>1, PoolInvariant, PTL

-----------------------------------------------------------------------------
(* The ring implements IdlePool.                                           *)

\* The refinement mapping, of any ring.
LEMMA IdleMapping ==
    /\ IdleQueue = Read(ring) /\ IdleQueue' = Read(ring')
    /\ PacketsIn(ring) = In(ring.pkt) /\ PacketsIn(ring)' = In(ring'.pkt)
<1>1. NodeAt = At(ring) /\ NodeAt' = At(ring')
  BY DEF NodeAt, At
<1> QED
  BY <1>1 DEF IdleQueue, Read, PacketsIn, In

\* A packet comes from the ring only if one is idle there, and then the oldest.
LEMMA GetRefines ==
    ASSUME PoolInv, NEW t \in Users, Get(t)
    PROVE  Idle!Next
<1>1. PICK o : Ordered(ring, o)
  BY DEF PoolInv
<1>2. IdleQueue = Queue(ring, o) /\ Len(Queue(ring, o)) = ring.pkt_count
  BY <1>1, IdleMapping, ReadOff, QueueType
<1>3. CASE ring.pkt_count > 0 /\ ring' = GetFromHead(ring) /\ exist' = exist
  <2> DEFINE p == ring.pkt[ring.head]
  <2>1. PICK e : Ordered(ring', e) /\ Queue(ring', e) = Tail(Queue(ring, o))
    BY <1>1, <1>3, GetOrdered
  <2>2. /\ ring.head \in Nodes /\ p # Null /\ p = Head(Queue(ring, o))
        /\ Queue(ring, o) # <<>>
        /\ ring'.pkt = [ring.pkt EXCEPT ![ring.head] = Null]
    BY <1>1, <1>3, GetOrdered
  <2>3. In(ring'.pkt) = In(ring.pkt) \ {p} /\ p \in In(ring.pkt) /\ p \in exist
    <3>1. ring.pkt \in [Nodes -> Packets \union {Null}]
      BY <1>1 DEF Ordered, RingType
    <3>2. In(ring'.pkt) = In(ring.pkt) \ {p} /\ p \in In(ring.pkt)
      BY <3>1, <2>2, TakeOut DEF PoolInv
    <3> QED
      BY <3>2 DEF PoolInv
  <2>4. IdleQueue' = Tail(IdleQueue) /\ IdleQueue # <<>> /\ Head(IdleQueue) = p
    BY <1>2, <2>1, <2>2, IdleMapping, ReadOff
  <2>5. (exist \ PacketsIn(ring))' = (exist \ PacketsIn(ring)) \union {p}
    BY <1>3, <2>3, IdleMapping
  <2> QED
    BY <2>4, <2>5 DEF Idle!Next, Idle!Reuse
<1>4. CASE /\ ring.pkt_count = 0 /\ ring' = ring
           /\ \E p \in Packets \ exist : exist' = exist \union {p}
  <2>1. PICK p \in Packets \ exist : exist' = exist \union {p}
    BY <1>4
  <2>2. IdleQueue = <<>> /\ IdleQueue' = IdleQueue
    <3>1. IdleQueue' = IdleQueue
      BY <1>4, IdleMapping
    <3>2. IdleQueue = [i \in 1 .. 0 |-> ring.pkt[NodeAt[i - 1]]]
      BY <1>4 DEF IdleQueue
    <3> QED
      BY <3>1, <3>2
  <2>3. /\ (exist \ PacketsIn(ring))' = (exist \ PacketsIn(ring)) \union {p}
        /\ p \in Packets \ (exist \ PacketsIn(ring))
    BY <1>4, <2>1, IdleMapping DEF PoolInv
  <2> QED
    BY <2>2, <2>3 DEF Idle!Next, Idle!Make
<1> QED
  BY <1>3, <1>4 DEF Get

\* A packet that comes back is the youngest idle one, or is lost for want of a
\* node, which the promise does not notice.
LEMMA SetRefines ==
    ASSUME PoolInv, NEW t \in Users, Set(t)
    PROVE  Idle!Next \/ UNCHANGED <<IdleQueue, exist \ PacketsIn(ring)>>
<1> DEFINE p == Last(held[t])
<1>1. PICK o : Ordered(ring, o)
  BY DEF PoolInv
<1>2. /\ IdleQueue = Queue(ring, o) /\ Len(IdleQueue) = ring.pkt_count
      /\ IdleQueue \in Seq(Packets \union {Null})
  BY <1>1, IdleMapping, ReadOff, QueueType
<1>3. /\ p \in Packets /\ p \in exist /\ p \notin In(ring.pkt)
      /\ exist' = exist \ (In(ring.pkt) \ In(ring'.pkt))
      /\ \/ ring' = ring
         \/ In(ring'.pkt) = In(ring.pkt) \union {p}
         \/ \E z \in In(ring.pkt) :
              In(ring'.pkt) = (In(ring.pkt) \union {p}) \ {z}
  BY SetEffect DEF PoolInv
<1>4. CASE ring' = ring
  <2>1. exist' = exist
    BY <1>3, <1>4
  <2> QED
    BY <1>4, <2>1, IdleMapping
<1>5. CASE ring' # ring
  <2>1. PICK s : /\ \/ ~Full(ring) /\ s = ring
                    \/ Full(ring) /\ \E n \in FreeNodes(ring) : s = NodeInsert(ring, n)
                 /\ ring' = Trim(SaveFromTail(s, p))
    BY <1>5 DEF Set
  <2> HIDE DEF p
  <2>2. Saved(ring, o, p, ring')
    <3>1. ring.ring_size <= MaxIdle
      BY DEF PoolInv
    <3> QED
      BY <3>1, <1>1, <1>3, <2>1, SetOrdered
  <2>3. PICK e : /\ Ordered(ring', e)
                 /\ Queue(ring', e) = IF ring.pkt_count < MaxIdle
                                        THEN Append(Queue(ring, o), p)
                                        ELSE Append(Tail(Queue(ring, o)), p)
    BY <2>2 DEF Saved
  <2>4. IdleQueue' = IF Len(IdleQueue) < MaxIdle THEN Append(IdleQueue, p)
                                                 ELSE Append(Tail(IdleQueue), p)
    BY <1>2, <2>3, IdleMapping, ReadOff
  <2>5. (exist \ PacketsIn(ring))' = (exist \ PacketsIn(ring)) \ {p}
    <3>1. exist' \ In(ring'.pkt) = (exist \ In(ring.pkt)) \ {p}
      BY <1>3, <1>5
    <3> QED
      BY <3>1, IdleMapping
  <2>6. p \in exist \ PacketsIn(ring) /\ p \in Packets
    BY <1>3, IdleMapping
  <2> QED
    BY <2>4, <2>5, <2>6 DEF Idle!Next, Idle!Return
<1> QED
  BY <1>4, <1>5

\* The pool does what IdlePool promises: the idle packets are a queue of at
\* most MaxIdle, and a new one is made only when it is empty.
THEOREM PoolIsQueue == Spec => IdleSpec
<1>1. Init => Idle!Init
  <2> SUFFICES ASSUME Init PROVE Idle!Init
    OBVIOUS
  <2>1. ring.pkt_count = 0 /\ exist = {}
    BY DEF Init
  <2>2. IdleQueue = [i \in 1 .. 0 |-> ring.pkt[NodeAt[i - 1]]]
    BY <2>1 DEF IdleQueue
  <2>3. IdleQueue = <<>>
    BY <2>2
  <2> QED
    BY <2>1, <2>3 DEF Idle!Init
<1>2. ASSUME PoolInv, [Next]_vars
      PROVE  [Idle!Next]_<<IdleQueue, exist \ PacketsIn(ring)>>
  <2>1. CASE UNCHANGED vars \/ Forget
    <3>1. ring' = ring /\ exist' = exist
      BY <2>1 DEF vars, Forget
    <3> QED
      BY <3>1, IdleMapping
  <2>2. ASSUME NEW t \in Users, Get(t) \/ Set(t)
        PROVE  [Idle!Next]_<<IdleQueue, exist \ PacketsIn(ring)>>
    BY <2>2, <1>2, GetRefines, SetRefines
  <2> QED
    BY <1>2, <2>1, <2>2 DEF Next
<1>3. Spec => Idle!Init /\ [][Idle!Next]_<<IdleQueue, exist \ PacketsIn(ring)>>
  BY <1>1, <1>2, PoolInvariant, PTL DEF Spec
<1> QED
  BY <1>3 DEF IdleSpec, Idle!Spec
=============================================================================
