------------------------------ MODULE UdpEcho ------------------------------
(***************************************************************************)
(* The UDP part of the benchmark (benchmark.c): clients send numbered      *)
(* packets to a server that sends them back, and both sides repeat what    *)
(* they sent last.  Each packet has its own payload, so it is identified   *)
(* by its client and its number.  The network loses, repeats and reorders  *)
(* datagrams: those of one direction are a set, reading does not remove    *)
(* one, and Lose may at any time.                                          *)
(*                                                                         *)
(* The clock is what the retry timers see of it: `late' says that the      *)
(* server is up for longer than its retry time.  lastSendTime is 0, which is *)
(* due as soon as the server is late, or 1, which stands for any time.     *)
(***************************************************************************)
EXTENDS Naturals, FiniteSets

CONSTANTS
    Clients,    \* the addresses of the clients
    MaxAddrs,   \* the slots of the server (64)
    MaxPackets, \* bound: how many packets each client sends before it is stopped
    None        \* an unused slot

ASSUME UdpAssumption ==
    /\ MaxAddrs \in Nat
    /\ MaxPackets \in [Clients -> Nat]
    /\ None \notin Clients

VARIABLES
    dataId,     \* client: number of its current packet, and its count
    toServer,   \* datagrams on the way: numbers of packets of each client
    toClient,   \* datagrams on the way: packets sent to each client
    late,       \* server: it has been up for the retry time
    addrs,      \* server: SockAddrs, the client of each slot
    slots,      \* server: clients[], by slot
    reached     \* history: how many packets of each client the server had

vars == <<dataId, toServer, toClient, late, addrs, slots, reached>>

Slots == 0 .. MaxAddrs - 1
Ids(c) == 0 .. MaxPackets[c] - 1
Packets == Clients \X Nat

\* clients[] before its first packet: static memory, all bytes 0.
Idle == [active |-> 0]

Active ==
    [active : {1}, dataId : Nat, currentData : Packets, lastSendTime : {0, 1}]

Init ==
    /\ dataId = [c \in Clients |-> 0]
    /\ toServer = [c \in Clients |-> {}]
    /\ toClient = [c \in Clients |-> {}]
    /\ late = FALSE
    /\ addrs = [i \in Slots |-> None]
    /\ slots = [i \in Slots |-> Idle]
    /\ reached = [c \in Clients |-> 0]

-----------------------------------------------------------------------------
(* The server.                                                             *)

\* One slot for all clients of a machine (a comparison that leaves out the port).
IsSlotOfMachine(i, c) == i = 0

\* sockaddrs_add gives c the slot i: its own, or the first free one.  It returns
\* -1 when there is neither; the server does not test that, no i is left here.
IsSlot(i, c) ==
    \/ addrs[i] = c
    \/ /\ \A j \in Slots : addrs[j] # c
       /\ addrs[i] = None /\ \A j \in Slots : j < i => addrs[j] # None

\* A slot whose data is new.
Holding(id, packet) ==
    [active |-> 1, dataId |-> id, currentData |-> packet, lastSendTime |-> 0]

\* A new client: what it sent is its data and the number to compare with.
Register(slot, packet) ==
    IF slot.active = 1
    THEN slot
    ELSE Holding(packet[2], packet)

\* A new packet that waits for the retry time.
StoreQuietly(slot, packet) ==
    IF packet[2] > slot.dataId THEN [slot EXCEPT !.currentData = packet] ELSE slot

\* A packet with a higher number than the number of the slot replaces the data;
\* the number of the slot stays.
Store(slot, packet) ==
    IF packet[2] > slot.dataId
    THEN Holding(slot.dataId, packet)
    ELSE slot

\* The loop over the slots that ends each round: the slots in `due' have waited
\* for the retry time, and nothing is due before the server is late.
Respond(table, list) ==
    \E due \in SUBSET {i \in Slots : table[i].active = 1 /\ table[i].lastSendTime = 1} :
      /\ late' \in BOOLEAN /\ (late => late') /\ (due # {} => late')
      /\ LET sends == due \union {i \in Slots : late' /\ table[i].active = 1 /\ table[i].lastSendTime = 0}
         IN  /\ slots' = [i \in Slots |->
                   IF i \in sends THEN [table[i] EXCEPT !.lastSendTime = 1] ELSE table[i]]
             /\ toClient' = [c \in Clients |->
                   toClient[c] \union {table[i].currentData : i \in {j \in sends : list[j] = c}}]

\* A round that finds a datagram.
ServerRead(c, n) ==
    /\ n \in toServer[c]
    /\ \E i \in Slots :
       LET packet == <<c, n>>
           slot == Store(Register(slots[i], packet), packet)
       IN  /\ IsSlot(i, c)
           /\ addrs' = [addrs EXCEPT ![i] = c]
           /\ Respond([slots EXCEPT ![i] = slot], addrs')
           /\ reached' = [reached EXCEPT ![c] =
                 IF slot.currentData = packet /\ n >= @ THEN n + 1 ELSE @]
    /\ UNCHANGED <<dataId, toServer>>

\* A round that finds none.
ServerIdle ==
    /\ Respond(slots, addrs)
    /\ UNCHANGED <<dataId, toServer, addrs, reached>>

-----------------------------------------------------------------------------
(* A client.                                                               *)

\* Its retry time is over: it sends its packet (again).
ClientSend(c) ==
    /\ dataId[c] \in Ids(c)
    /\ toServer' = [toServer EXCEPT ![c] = @ \union {dataId[c]}]
    /\ UNCHANGED <<dataId, toClient, late, addrs, slots, reached>>

\* A client that counts without comparing.
ClientReadAny(c, n) ==
    /\ <<c, n>> \in toClient[c]
    /\ dataId[c] \in Ids(c)
    /\ dataId' = [dataId EXCEPT ![c] = @ + 1]
    /\ toServer' = [toServer EXCEPT ![c] = @ \union ({dataId'[c]} \intersect Ids(c))]
    /\ UNCHANGED <<toClient, late, addrs, slots, reached>>

\* Its packet n is back: it counts it and sends the next one in the same round.
\* Anything else it reads is dropped, which is no step here.
ClientRead(c, n) ==
    /\ <<c, n>> \in toClient[c]
    /\ n = dataId[c]
    /\ dataId[c] \in Ids(c)
    /\ dataId' = [dataId EXCEPT ![c] = @ + 1]
    /\ toServer' = [toServer EXCEPT ![c] = @ \union ({dataId'[c]} \intersect Ids(c))]
    /\ UNCHANGED <<toClient, late, addrs, slots, reached>>

-----------------------------------------------------------------------------
(* The network loses a datagram, or the last copy of it.                   *)
Lose(c) ==
    /\ \/ /\ \E n \in toServer[c] : toServer' = [toServer EXCEPT ![c] = @ \ {n}]
          /\ UNCHANGED toClient
       \/ /\ \E p \in toClient[c] : toClient' = [toClient EXCEPT ![c] = @ \ {p}]
          /\ UNCHANGED toServer
    /\ UNCHANGED <<dataId, late, addrs, slots, reached>>

Next ==
    \/ ServerIdle
    \/ \E c \in Clients :
         \/ ClientSend(c) \/ Lose(c)
         \/ \E n \in Ids(c) : ServerRead(c, n) \/ ClientRead(c, n)

Spec == Init /\ [][Next]_vars

-----------------------------------------------------------------------------
(* Fairness: both programs loop without blocking, so each retry timer that *)
(* keeps running out is acted upon; a datagram that is sent again and      *)
(* again is read at last.                                                  *)

\* A round in which slot i sends its data.
Resend(i) ==
    /\ slots[i].active = 1
    /\ ServerIdle
    /\ slots[i].currentData \in toClient'[addrs[i]]

FairSpec ==
    /\ Spec
    /\ \A i \in Slots : WF_vars(Resend(i))
    /\ \A c \in Clients :
         /\ WF_vars(ClientSend(c))
         /\ SF_vars(ServerRead(c, dataId[c]))
         /\ SF_vars(ClientRead(c, dataId[c]))

-----------------------------------------------------------------------------
(* Properties.                                                             *)

\* A slot belongs to one client: it holds a packet of that client and nothing
\* is on the way to a client but what was its own (sockaddrs_add, clients[]).
OwnSlots ==
    /\ \A i \in Slots :
         IF slots[i].active = 1
         THEN /\ slots[i].currentData[1] = addrs[i]
              /\ \A j \in Slots : addrs[j] = addrs[i] => j = i
         ELSE addrs[i] = None
    /\ \A c \in Clients : \A p \in toClient[c] : p[1] = c

\* The types, with OwnSlots.
TypeOK ==
    /\ dataId \in [Clients -> Nat]
    /\ toServer \in [Clients -> SUBSET Nat]
    /\ toClient \in [Clients -> SUBSET Packets]
    /\ late \in BOOLEAN
    /\ addrs \in [Slots -> Clients \union {None}]
    /\ slots \in [Slots -> Active \union {Idle}]
    /\ reached \in [Clients -> Nat]
    /\ OwnSlots

\* Nobody is ahead of the round trips: a client has sent nothing beyond the packet
\* it waits for, the server sends back only what it has read, and it has read all
\* that is counted and at most one packet more.
NothingAhead ==
    /\ \A c \in Clients :
         /\ dataId[c] <= reached[c] /\ reached[c] <= dataId[c] + 1
         /\ \A n \in toServer[c] : n <= dataId[c]
         /\ \A p \in toClient[c] : p[2] < reached[c]
    /\ \A i \in Slots : slots[i].active = 1 => slots[i].currentData[2] < reached[addrs[i]]

\* A counted echo is a round trip: the packet had been at the server, and the
\* client was never a packet ahead of what it counted (udp_client_func).
Counting == INSTANCE Rounds WITH counted <- dataId
ImplementsRounds == Counting!Spec

\* Whatever is lost, repeated or overtaken, each client gets on to its last
\* packet: the two retry timers get every packet to the server and back.
EveryPacketEchoed == \A c \in Clients : <>(dataId[c] = MaxPackets[c])

\* benchmark.c:165, "check if data is newer advanced": what the server holds for
\* a client is the newest packet it has read from it.
NewestHeld ==
    \A i \in Slots : slots[i].active = 1 => slots[i].currentData[2] + 1 = reached[addrs[i]]
=============================================================================
