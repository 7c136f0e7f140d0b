------------------------------- MODULE Daemon -------------------------------
(***************************************************************************)
(* The main thread: main.c and ccc_upgrade.c start the parts one after the *)
(* other, then udp_server.c reads datagrams for ever and                   *)
(* protocol_adapter.c answers those that look for devices, once for every  *)
(* network interface.  The receive threads use the packet pool meanwhile.  *)
(*                                                                         *)
(* Datagrams may be lost, doubled or reordered on the way, so that the     *)
(* next one may be any.                                                    *)
(***************************************************************************)
EXTENDS PacketPool

CONSTANTS Askers,       \* peers on the network
          InterfaceLists   \* what getifaddrs may list, in order: interfaces
                           \* that are "running", "down", "lo", "other" (not
                           \* AF_INET) or "bare" (without any address)

ASSUME InterfacesAssumption ==
    /\ InterfaceLists \subseteq Seq({"running", "down", "lo", "other", "bare"})
    /\ Null \notin InterfaceLists

\* What one datagram may hold: the start of a packet, nothing that parses, or a
\* packet with a command.
Kinds == {"incomplete", "junk", "discover", "login", "other"}

VARIABLES main,       \* where the main thread is; "end": the process has ended
          accepting,  \* the accept thread runs, so receive threads may
          l_remote,   \* l_remote_addr
          datagram,   \* the datagram worked on: its sender and what it holds
          list,       \* ifList, Null when send_ip did not get so far
          k,          \* the interface send_ip is at
          tried,      \* interfaces a reply was made for
          sentTo,     \* who the replies to this datagram went to
          lost        \* packets that will never come back to the pool

mainVars == <<main, accepting, l_remote, datagram, list, k, tried, sentTo, lost>>
daemonVars == <<vars, mainVars>>

DaemonInit == /\ Init
              /\ main = "configure"
              /\ accepting = FALSE
              /\ l_remote = Null
              /\ datagram = [from |-> Null, kind |-> "junk"]
              /\ list = Null
              /\ k = 1
              /\ tried = {}
              /\ sentTo = {}
              /\ lost = {}

Alive == main # "end"

\* Only the main thread's place changes.
Goto(from, to) == /\ main = from
                  /\ main' = to
                  /\ UNCHANGED <<accepting, l_remote, datagram, list, k,
                                 tried, sentTo>>

\* packet_pool_set, which keeps and frees nothing when it gets no node.
GiveBack(u) ==
    /\ Set(u)
    /\ lost' = IF ring' = ring THEN lost \union {Last(held[u])} ELSE lost

-----------------------------------------------------------------------------
(* Start-up.  A step that fails makes main return, which ends the process, *)
(* the threads that already run included.                                  *)

LoadConfigure == Goto("configure", "adapter") /\ UNCHANGED <<vars, lost>>
InitAdapter   == Goto("adapter", "tcp") /\ UNCHANGED <<vars, lost>>
ListenTcp     == Goto("tcp", "accept") /\ UNCHANGED <<vars, lost>>

StartAccept ==
    /\ main = "accept"
    /\ main' = "udp"
    /\ accepting' = TRUE
    /\ UNCHANGED <<vars, l_remote, datagram, list, k, tried, sentTo, lost>>

BindUdp == Goto("udp", "receive") /\ UNCHANGED <<vars, lost>>

StartFails ==
    \E step \in {"configure", "adapter", "tcp", "accept", "udp"} :
        Goto(step, "end") /\ UNCHANGED <<vars, lost>>

-----------------------------------------------------------------------------
(* One datagram.                                                           *)

\* Mutant: the address of the first peer is kept.
RemoteKept(from) == IF l_remote = Null THEN from ELSE l_remote

\* recvfrom stores the sender in the one global address.
Remote(from) == from

\* thread_func_udp_server: an empty datagram or an error is passed over.
Receive ==
    /\ main = "receive"
    /\ main' = "take"
    /\ \E from \in Askers, kind \in Kinds :
         /\ l_remote' = Remote(from)
         /\ datagram' = [from |-> from, kind |-> kind]
    /\ list' = Null
    /\ k' = 1
    /\ tried' = {}
    /\ sentTo' = {}
    /\ UNCHANGED <<vars, accepting, lost>>

\* packet_pool_get_buffer returns NULL.
NoPacket == /\ ring.pkt_count = 0
            /\ MallocMayFail \/ exist = Packets
            /\ UNCHANGED vars

TakePacket ==
    /\ \/ Goto("take", "parse") /\ Get(UdpThread)
       \/ Goto("take", "receive") /\ NoPacket
    /\ UNCHANGED lost

\* parse_packet2 uses nothing of an incomplete packet: the early return.
ForgetPacket ==
    /\ datagram.kind = "incomplete"
    /\ main = "parse"
    /\ main' = "receive"
    /\ Forget
    /\ lost' = lost \union {held[UdpThread][1]}
    /\ UNCHANGED <<accepting, l_remote, datagram, list, k, tried, sentTo>>

\* ccc_packet_malloc failed, which nobody asks about: the command is copied to
\* NULL, and the process ends.
NoBuffer ==
    /\ MallocMayFail
    /\ datagram.kind \in {"discover", "login", "other"}
    /\ Goto("parse", "end")
    /\ UNCHANGED <<vars, lost>>

\* What cannot be parsed, and E2 and E3 without a session, have no effect.
IgnoreDatagram ==
    /\ datagram.kind \in {"junk", "other"}
    /\ Goto("parse", "give")
    /\ UNCHANGED <<vars, lost>>

\* send_ip: without the list or the host name nobody is answered.
ListInterfaces ==
    /\ datagram.kind = "discover"
    /\ main = "parse"
    /\ \/ main' = "interface" /\ list' \in InterfaceLists
       \/ main' = "give" /\ UNCHANGED list
    /\ UNCHANGED <<vars, accepting, l_remote, datagram, k, tried, sentTo, lost>>

\* E1: the password may be right, but the handle is an address and no slot: the
\* reply is made, handed to network_manager_client_send and goes nowhere.
LoginByUdp ==
    /\ datagram.kind = "login"
    /\ \/ Goto("parse", "unsent") /\ Get(UdpThread)
       \/ Goto("parse", "give") /\ NoPacket
    /\ UNCHANGED lost

GiveUnsent == Goto("unsent", "give") /\ GiveBack(UdpThread)

\* Mutant: the loop ends at the loopback interface.
AfterSkipped == IF list[k] = "lo" THEN Len(list) + 1 ELSE k + 1

Following == k + 1

\* The loop over the interfaces: those that are no use, and the end.
SkipInterface ==
    /\ main = "interface"
    /\ k \in DOMAIN list /\ list[k] \in {"down", "lo", "other"}
    /\ k' = Following
    /\ UNCHANGED <<vars, main, accepting, l_remote, datagram, list, tried, sentTo, lost>>

\* An interface without an address: ifa_addr is NULL.
NoAddress ==
    /\ main = "interface" /\ k \in DOMAIN list /\ list[k] = "bare"
    /\ Goto("interface", "end")
    /\ UNCHANGED <<vars, lost>>

InterfacesDone == Goto("interface", "give") /\ k > Len(list) /\ UNCHANGED <<vars, lost>>

\* send_reply_to_udp: without a packet this interface is not reported.
TakeReply ==
    /\ main = "interface"
    /\ k \in DOMAIN list /\ list[k] = "running"
    /\ tried' = tried \union {k}
    /\ \/ main' = "send" /\ UNCHANGED k /\ Get(UdpThread)
       \/ UNCHANGED main /\ k' = k + 1 /\ NoPacket
    /\ UNCHANGED <<accepting, l_remote, datagram, list, sentTo, lost>>

\* udp_sendto: to l_remote_addr, or in vain.
SendReply ==
    /\ main = "send"
    /\ main' = "sent"
    /\ sentTo' \in {sentTo, sentTo \union {l_remote}}
    /\ UNCHANGED <<vars, accepting, l_remote, datagram, list, k, tried, lost>>

\* Mutant: a reply that could not be sent is not given back.
GiveIfSent == IF sentTo # {} THEN GiveBack(UdpThread)
              ELSE /\ held' = [held EXCEPT ![UdpThread] = Front(@)]
                   /\ UNCHANGED <<ring, exist, lost>>

GiveReply == GiveBack(UdpThread)

\* The reply's packet goes back to the pool, sent or not.
ReplyDone ==
    /\ main = "sent"
    /\ main' = "interface"
    /\ k' = k + 1
    /\ GiveReply
    /\ UNCHANGED <<accepting, l_remote, datagram, list, tried, sentTo>>

GivePacket == Goto("give", "receive") /\ GiveBack(UdpThread)

-----------------------------------------------------------------------------
\* The receive threads, while the process lives.
ThreadStep ==
    /\ accepting /\ Alive
    /\ \E t \in Threads : (Get(t) /\ UNCHANGED lost) \/ GiveBack(t)
    /\ UNCHANGED <<main, accepting, l_remote, datagram, list, k, tried, sentTo>>

DaemonNext ==
    \/ LoadConfigure \/ InitAdapter \/ ListenTcp \/ StartAccept \/ BindUdp
    \/ StartFails
    \/ Receive \/ TakePacket \/ ForgetPacket \/ NoBuffer \/ IgnoreDatagram
    \/ ListInterfaces \/ LoginByUdp \/ GiveUnsent
    \/ SkipInterface \/ NoAddress \/ InterfacesDone \/ TakeReply \/ SendReply \/ ReplyDone
    \/ GivePacket
    \/ ThreadStep

DaemonSpec == DaemonInit /\ [][DaemonNext]_daemonVars

-----------------------------------------------------------------------------
(* Correctness.                                                            *)

\* Every packet that exists is idle, or taken by a thread, or was lost to an
\* incomplete datagram or for want of a ring node: no other path through the
\* datagram's handling, replies that cannot be made or sent included, costs one.
PacketsAccounted ==
    \A p \in exist :
        \/ p \in PacketsIn(ring) \union lost
        \/ \E u \in Users : \E i \in DOMAIN held[u] : held[u][i] = p

\* A reply goes to the one whose datagram looked for devices, and to nobody
\* else, though the address of the sender is one global variable.
RepliesToAsker ==
    sentTo # {} => datagram.kind = "discover" /\ sentTo = {datagram.from}

\* When the datagram is done with, a reply was made for every running interface
\* that is not the loopback, wherever it stands in the list.
EveryInterfaceTried ==
    main = "give" /\ list # Null =>
        tried = {i \in DOMAIN list : list[i] = "running"}
=============================================================================
