---------------------------- MODULE Daemon_proofs ----------------------------
(***************************************************************************)
(* Proofs about Daemon, for any peers, any lists of interfaces and any     *)
(* pool: who the replies to a datagram go to, for which interfaces they    *)
(* are made, that the daemon keeps to the pool's operations, so that what  *)
(* is proved of the pool holds in it, and which packets it loses.          *)
(***************************************************************************)
EXTENDS Daemon, PacketPool_proofs, TLAPS

\* While a datagram is worked on, the global address is that of its sender.
Answering ==
    /\ main \in {"take", "parse", "unsent", "interface", "send", "sent"}
         => l_remote = datagram.from
    /\ main \in {"interface", "send", "sent"} => datagram.kind = "discover"
    /\ sentTo # {} => datagram.kind = "discover"
    /\ sentTo \subseteq {datagram.from}

\* The running interfaces before the i-th.
RunningBefore(i) == {j \in DOMAIN list : j < i /\ list[j] = "running"}

\* The loop of send_ip has a reply for every running interface it has passed.
Looping ==
    /\ k \in Nat
    /\ main \in {"take", "parse", "unsent"} => list = Null
    /\ main \in {"take", "parse"} => tried = {} /\ k = 1
    /\ main = "interface" => list \in InterfaceLists /\ tried = RunningBefore(k)
    /\ main \in {"send", "sent"} =>
         list \in InterfaceLists /\ k \in DOMAIN list /\ tried = RunningBefore(k + 1)
    /\ EveryInterfaceTried

-----------------------------------------------------------------------------
\* Replies go out while the datagram's sender is the one remembered.
LEMMA AnsweringStep ==
    ASSUME Answering, [DaemonNext]_daemonVars
    PROVE  Answering'
<1> USE DEF Answering, Goto
<1>1. CASE UNCHANGED daemonVars \/ ThreadStep
  BY <1>1 DEF daemonVars, mainVars, ThreadStep
<1>2. CASE LoadConfigure \/ InitAdapter \/ ListenTcp \/ StartAccept \/ BindUdp
  BY <1>2 DEF LoadConfigure, InitAdapter, ListenTcp, StartAccept, BindUdp
<1>3. CASE StartFails
  BY <1>3 DEF StartFails
<1>4. CASE Receive
  BY <1>4 DEF Receive, Remote
<1>5. CASE TakePacket \/ ForgetPacket \/ NoBuffer \/ IgnoreDatagram
  BY <1>5 DEF TakePacket, ForgetPacket, NoBuffer, IgnoreDatagram
<1>6. CASE ListInterfaces
  BY <1>6 DEF ListInterfaces
<1>7. CASE LoginByUdp \/ GiveUnsent \/ GivePacket
  BY <1>7 DEF LoginByUdp, GiveUnsent, GivePacket
<1>8. CASE SkipInterface \/ NoAddress \/ InterfacesDone
  BY <1>8 DEF SkipInterface, NoAddress, InterfacesDone
<1>9. CASE TakeReply
  BY <1>9 DEF TakeReply
<1>10. CASE SendReply
  BY <1>10 DEF SendReply
<1>11. CASE ReplyDone
  BY <1>11 DEF ReplyDone
<1> QED
  BY <1>1, <1>2, <1>3, <1>4, <1>5, <1>6, <1>7, <1>8, <1>9, <1>10, <1>11
     DEF DaemonNext

\* Replies go to the one whose datagram looked for devices, whatever datagrams
\* come before and after it.
THEOREM AskerAnswered == DaemonSpec => []RepliesToAsker
<1>1. DaemonInit => Answering
  BY DEF DaemonInit, Answering
<1>2. Answering => RepliesToAsker
  BY DEF Answering, RepliesToAsker
<1> QED
  BY <1>1, <1>2, AnsweringStep, PTL DEF DaemonSpec

-----------------------------------------------------------------------------
\* A list of interfaces is counted from 1 to its length.
LEMMA ListDomain ==
    ASSUME list \in InterfaceLists
    PROVE  DOMAIN list = 1 .. Len(list) /\ Len(list) \in Nat
  BY InterfacesAssumption

\* One turn of the loop takes the interface it is at into account.
LEMMA LoopStep ==
    ASSUME Looping,
           SkipInterface \/ InterfacesDone \/ TakeReply \/ SendReply \/ ReplyDone
    PROVE  Looping'
<1> USE DEF Looping, RunningBefore, EveryInterfaceTried
<1>1. list' = list /\ list \in InterfaceLists
  BY DEF SkipInterface, InterfacesDone, TakeReply, SendReply, ReplyDone, Goto
<1>2. DOMAIN list = 1 .. Len(list) /\ Len(list) \in Nat
  BY <1>1, ListDomain
<1>3. ASSUME NEW i \in DOMAIN list
      PROVE  RunningBefore(i + 1)
               = RunningBefore(i) \union (IF list[i] = "running" THEN {i} ELSE {})
  BY <1>2
<1>4. CASE SkipInterface
  <2>1. /\ main = "interface" /\ main' = main /\ k' = k + 1 /\ tried' = tried
        /\ k \in DOMAIN list /\ list[k] # "running"
    BY <1>4 DEF SkipInterface, Following
  <2>2. tried' = RunningBefore(k + 1)
    BY <1>1, <1>3, <2>1
  <2> QED
    BY <1>1, <2>1, <2>2
<1>5. CASE InterfacesDone
  <2>1. /\ main = "interface" /\ main' = "give" /\ k > Len(list)
        /\ UNCHANGED <<k, tried>>
    BY <1>5 DEF InterfacesDone, Goto
  <2>2. tried' = {i \in DOMAIN list : list[i] = "running"}
    BY <1>2, <2>1
  <2> QED
    BY <1>1, <2>1, <2>2
<1>6. CASE TakeReply
  <2>1. /\ main = "interface" /\ k \in DOMAIN list /\ list[k] = "running"
        /\ tried' = tried \union {k}
        /\ \/ main' = "send" /\ k' = k
           \/ main' = main /\ k' = k + 1
    BY <1>6 DEF TakeReply
  <2>2. tried' = RunningBefore(k + 1)
    BY <1>3, <2>1
  <2> QED
    BY <1>1, <2>1, <2>2
<1>7. CASE SendReply
  BY <1>1, <1>7 DEF SendReply
<1>8. CASE ReplyDone
  BY <1>1, <1>8 DEF ReplyDone
<1> QED
  BY <1>4, <1>5, <1>6, <1>7, <1>8

\* The steps outside the loop leave it alone, or start it.
LEMMA LoopingStep ==
    ASSUME Looping, [DaemonNext]_daemonVars
    PROVE  Looping'
<1> USE DEF Looping, RunningBefore, EveryInterfaceTried, Goto
<1>1. CASE UNCHANGED daemonVars \/ ThreadStep
  BY <1>1 DEF daemonVars, mainVars, ThreadStep
<1>2. CASE LoadConfigure \/ InitAdapter \/ ListenTcp \/ StartAccept \/ BindUdp
  BY <1>2 DEF LoadConfigure, InitAdapter, ListenTcp, StartAccept, BindUdp
<1>3. CASE StartFails
  BY <1>3 DEF StartFails
<1>4. CASE Receive
  BY <1>4 DEF Receive
<1>5. CASE TakePacket \/ ForgetPacket \/ NoBuffer \/ IgnoreDatagram
  BY <1>5 DEF TakePacket, ForgetPacket, NoBuffer, IgnoreDatagram
<1>6. CASE ListInterfaces
  <2>1. /\ main = "parse" /\ tried' = {} /\ k' = 1
        /\ \/ main' = "interface" /\ list' \in InterfaceLists
           \/ main' = "give" /\ list' = Null
    BY <1>6 DEF ListInterfaces
  <2>2. ASSUME list' \in InterfaceLists PROVE RunningBefore(1)' = {}
    <3>1. DOMAIN list' = 1 .. Len(list')
      BY <2>2, InterfacesAssumption
    <3> QED
      BY <3>1
  <2> QED
    BY <2>1, <2>2
<1>7. CASE LoginByUdp \/ GiveUnsent \/ GivePacket
  BY <1>7 DEF LoginByUdp, GiveUnsent, GivePacket
<1>8. CASE NoAddress
  BY <1>8 DEF NoAddress
<1> QED
  BY <1>1, <1>2, <1>3, <1>4, <1>5, <1>6, <1>7, <1>8, LoopStep DEF DaemonNext

\* A reply was made for every running interface, wherever it stands among the
\* others, when the datagram is done with.
THEOREM InterfacesTried == DaemonSpec => []EveryInterfaceTried
<1>1. DaemonInit => Looping
  BY DEF DaemonInit, Looping, EveryInterfaceTried
<1>2. Looping => EveryInterfaceTried
  BY DEF Looping
<1> QED
  BY <1>1, <1>2, LoopingStep, PTL DEF DaemonSpec

-----------------------------------------------------------------------------
(* What the main thread and the receive threads do with the packet pool.   *)

\* Every step of the daemon is one of the pool's, or leaves the pool alone.
LEMMA PoolUsed ==
    ASSUME [DaemonNext]_daemonVars
    PROVE  [Next]_vars
<1>1. UdpThread \in Users /\ Threads \subseteq Users
  BY DEF Users
<1>2. CASE UNCHANGED daemonVars \/ Receive \/ NoBuffer \/ IgnoreDatagram
           \/ ListInterfaces \/ SendReply
  BY <1>2 DEF daemonVars, Receive, NoBuffer, IgnoreDatagram, ListInterfaces, SendReply
<1>3. CASE LoadConfigure \/ InitAdapter \/ ListenTcp \/ StartAccept \/ BindUdp \/ StartFails
  BY <1>3 DEF LoadConfigure, InitAdapter, ListenTcp, StartAccept, BindUdp, StartFails
<1>4. CASE SkipInterface \/ NoAddress \/ InterfacesDone
  BY <1>4 DEF SkipInterface, NoAddress, InterfacesDone
<1>5. CASE TakePacket \/ LoginByUdp \/ TakeReply
  BY <1>1, <1>5 DEF TakePacket, LoginByUdp, TakeReply, NoPacket, Next
<1>6. CASE GiveUnsent \/ ReplyDone \/ GivePacket
  BY <1>1, <1>6 DEF GiveUnsent, ReplyDone, GivePacket, GiveReply, GiveBack, Next
<1>7. CASE ForgetPacket
  BY <1>7 DEF ForgetPacket, Next
<1>8. CASE ThreadStep
  BY <1>1, <1>8 DEF ThreadStep, GiveBack, Next
<1> QED
  BY <1>2, <1>3, <1>4, <1>5, <1>6, <1>7, <1>8 DEF DaemonNext

\* The daemon is a user of the pool that keeps to its operations, so that what
\* is proved of the pool is true in the daemon.
THEOREM DaemonUsesPool == DaemonSpec => Spec
<1>1. DaemonInit => Init
  BY DEF DaemonInit
<1> QED
  BY <1>1, PoolUsed, PTL DEF DaemonSpec, Spec

\* In the daemon the pool's types and limits hold.
THEOREM DaemonPoolTypes == DaemonSpec => []TypeOK
  BY DaemonUsesPool, PoolTypes, PTL

\* In the daemon the list stays a ring.
THEOREM DaemonRing == DaemonSpec => []RingShape
  BY DaemonUsesPool, RingIsShaped, PTL

\* In the daemon a packet has one owner.
THEOREM DaemonOneOwner == DaemonSpec => []OwnedOnce
  BY DaemonUsesPool, OneOwner, PTL

\* In the daemon the pool is the queue it promises to be.
THEOREM DaemonQueue == DaemonSpec => IdleSpec
  BY DaemonUsesPool, PoolIsQueue, PTL

-----------------------------------------------------------------------------
(* Where the packets are.                                                  *)

\* What is neither idle nor taken was lost.
Accounted == PoolInv /\ Astray \subseteq lost

\* A packet that is given back is idle, or freed for a younger one, or lost.
LEMMA GiveBackAccounted ==
    ASSUME Accounted, NEW u \in Users, GiveBack(u)
    PROVE  Accounted'
<1> DEFINE p == Last(held[u])
<1>1. PoolInv /\ Set(u)
  BY DEF Accounted, GiveBack
<1>2. /\ HeldPackets' = HeldPackets \ {p}
      /\ exist' = exist \ (In(ring.pkt) \ In(ring'.pkt))
      /\ \/ ring' = ring
         \/ In(ring'.pkt) = In(ring.pkt) \union {p}
         \/ \E z \in In(ring.pkt) :
              In(ring'.pkt) = (In(ring.pkt) \union {p}) \ {z}
  BY <1>1, SetEffect
<1>3. lost' = IF ring' = ring THEN lost \union {p} ELSE lost
  BY DEF GiveBack
<1> HIDE DEF p
<1>4. Astray' \subseteq lost'
  BY <1>2, <1>3 DEF Accounted, Astray
<1> QED
  BY <1>1, <1>4, SetKeeps DEF Accounted

\* A step that takes a packet loses none.
LEMMA GetAccounted ==
    ASSUME Accounted, NEW u \in Users, Get(u), lost' = lost
    PROVE  Accounted'
  BY GetKeeps DEF Accounted

\* A step that leaves the pool alone changes nothing of it.
LEMMA PoolAlone ==
    ASSUME Accounted, UNCHANGED <<vars, lost>>
    PROVE  Accounted'
  BY PoolStep DEF Accounted, Astray, HeldPackets, vars

\* No step loses a packet unnoticed.
LEMMA AccountedStep ==
    ASSUME Accounted, [DaemonNext]_daemonVars
    PROVE  Accounted'
<1>1. UdpThread \in Users /\ Threads \subseteq Users
  BY DEF Users
<1>2. CASE UNCHANGED daemonVars \/ Receive \/ NoBuffer \/ IgnoreDatagram
           \/ ListInterfaces \/ SendReply
  BY <1>2, PoolAlone
     DEF daemonVars, mainVars, Receive, NoBuffer, IgnoreDatagram, ListInterfaces, SendReply
<1>3. CASE LoadConfigure \/ InitAdapter \/ ListenTcp \/ StartAccept \/ BindUdp \/ StartFails
  BY <1>3, PoolAlone
     DEF LoadConfigure, InitAdapter, ListenTcp, StartAccept, BindUdp, StartFails
<1>4. CASE SkipInterface \/ NoAddress \/ InterfacesDone
  BY <1>4, PoolAlone DEF SkipInterface, NoAddress, InterfacesDone
<1>5. CASE TakePacket \/ LoginByUdp \/ TakeReply
  BY <1>1, <1>5, PoolAlone, GetAccounted DEF TakePacket, LoginByUdp, TakeReply, NoPacket
<1>6. CASE GiveUnsent \/ ReplyDone \/ GivePacket
  BY <1>1, <1>6, GiveBackAccounted DEF GiveUnsent, ReplyDone, GivePacket, GiveReply
<1>7. CASE ForgetPacket
  <2>1. /\ Forget /\ lost' = lost \union {held[UdpThread][1]}
        /\ ring' = ring /\ exist' = exist
    BY <1>7 DEF ForgetPacket, Forget
  <2>2. PoolInv' /\ HeldPackets' = HeldPackets \ {held[UdpThread][1]}
    BY <2>1, ForgetKeeps DEF Accounted
  <2> QED
    BY <2>1, <2>2 DEF Accounted, Astray
<1>8. CASE ThreadStep
  BY <1>1, <1>8, GetAccounted, GiveBackAccounted DEF ThreadStep
<1> QED
  BY <1>2, <1>3, <1>4, <1>5, <1>6, <1>7, <1>8 DEF DaemonNext

\* The daemon loses packets in two ways only, and no path through the handling
\* of a datagram, and no thread, has another.
THEOREM NoOtherLoss == DaemonSpec => []PacketsAccounted
<1>1. DaemonInit => Accounted
  BY PoolInit DEF DaemonInit, Init, Accounted, Astray
<1>2. Accounted => PacketsAccounted
  <2> SUFFICES ASSUME Accounted PROVE PacketsAccounted
    OBVIOUS
  <2>1. \A u \in Users : DOMAIN held[u] = 1 .. Len(held[u])
    BY DEF Accounted, PoolInv, HeldType
  <2>2. \A p \in exist : p \in PacketsIn(ring) \union lost \/ p \in HeldPackets
    BY DEF Accounted, Astray, PacketsIn, In
  <2> QED
    BY <2>1, <2>2 DEF PacketsAccounted, HeldPackets
<1> QED
  BY <1>1, <1>2, AccountedStep, PTL DEF DaemonSpec
=============================================================================
