--------------------------- MODULE UdpEchoProofs ---------------------------
(***************************************************************************)
(* Theorems about UdpEcho, for every set of clients and every number of    *)
(* slots and packets.  TypeOK (with OwnSlots) and NothingAhead together    *)
(* are inductive; the step to Rounds follows from NothingAhead.            *)
(***************************************************************************)
EXTENDS UdpEcho, TLAPS

IInv == TypeOK /\ NothingAhead

LEMMA IdleIsNot == Idle.active # 1
  BY SMT DEF Idle

LEMMA PacketParts == \A p \in Packets : p[1] \in Clients /\ p[2] \in Nat
  BY SMT DEF Packets

LEMMA ActiveParts ==
    \A slot \in Active : /\ slot.active = 1 /\ slot.dataId \in Nat
                          /\ slot.currentData \in Packets /\ slot.lastSendTime \in {0, 1}
  BY SMT DEF Active

LEMMA HoldingParts ==
    ASSUME NEW id \in Nat, NEW p \in Packets
    PROVE  Holding(id, p) \in Active /\ Holding(id, p).currentData = p
  BY SMT DEF Active, Holding

LEMMA ActiveSent ==
    ASSUME NEW slot \in Active
    PROVE  /\ [slot EXCEPT !.lastSendTime = 1] \in Active
           /\ [slot EXCEPT !.lastSendTime = 1].currentData = slot.currentData
  BY SMT DEF Active

\* An active slot is one client's, and what it holds was sent by that client.
LEMMA Owned ==
    ASSUME IInv, NEW i \in Slots, slots[i].active = 1
    PROVE  /\ slots[i] \in Active
           /\ slots[i].currentData[1] = addrs[i]
           /\ slots[i].currentData[2] < reached[addrs[i]]
           /\ \A j \in Slots : addrs[j] = addrs[i] => j = i
           /\ addrs[i] \in Clients
  <1>1. slots[i] \in Active
    BY IdleIsNot, Zenon DEF IInv, TypeOK
  <1>2. /\ slots[i].currentData[1] = addrs[i]
        /\ \A j \in Slots : addrs[j] = addrs[i] => j = i
    BY Zenon DEF IInv, TypeOK, OwnSlots
  <1>3. slots[i].currentData[2] < reached[addrs[i]]
    BY Zenon DEF IInv, NothingAhead
  <1>4. addrs[i] \in Clients
    BY <1>1, <1>2, ActiveParts, PacketParts, Zenon
  <1> QED BY <1>1, <1>2, <1>3, <1>4

\* What the slot of c holds after a round has read the packet n of c.
LEMMA Stored ==
    ASSUME IInv, NEW c \in Clients, NEW n \in toServer[c], NEW i \in Slots, IsSlot(i, c)
    PROVE  LET slot == Store(Register(slots[i], <<c, n>>), <<c, n>>)
           IN  /\ slot \in Active
               /\ slot.currentData[1] = c
               /\ slot.currentData # <<c, n>> => slot.currentData[2] < reached[c]
               /\ \A j \in Slots : addrs[j] = c => j = i
               /\ slots[i].active = 1 => addrs[i] = c
  <1> DEFINE packet == <<c, n>>
             slot == Store(Register(slots[i], packet), packet)
  <1>1. packet \in Packets /\ packet[1] = c /\ packet[2] = n /\ n \in Nat
    BY SMT DEF IInv, TypeOK, Packets
  <1>3. slots[i].active # 1 => addrs[i] = None
    BY Zenon DEF IInv, TypeOK, OwnSlots
  <1>4. slots[i].active = 1 => addrs[i] # None
    BY Owned, UdpAssumption, Zenon
  <1>5. (\A j \in Slots : addrs[j] = c => j = i) /\ (slots[i].active = 1 => addrs[i] = c)
    <2>1. CASE addrs[i] = c
      <3>1. slots[i].active = 1
        BY <2>1, <1>3, UdpAssumption, Zenon
      <3> QED BY <2>1, <3>1, Owned, Zenon
    <2>2. CASE addrs[i] = None /\ \A j \in Slots : addrs[j] # c
      BY <2>2, <1>4, Zenon
    <2> QED BY <2>1, <2>2, Zenon DEF IsSlot
  <1>6. CASE slots[i].active = 1
    <2>1. Register(slots[i], packet) = slots[i]
      BY <1>6, Zenon DEF Register
    <2>2. slots[i] \in Active /\ slots[i].currentData[1] = c
                             /\ slots[i].currentData[2] < reached[c]
      BY <1>5, <1>6, Owned, Zenon
    <2>3. CASE n > slots[i].dataId
      <3>1. slot = Holding(slots[i].dataId, packet)
        BY <1>1, <2>1, <2>3 DEF Store
      <3> QED BY <1>1, <1>5, <2>2, <3>1, ActiveParts, HoldingParts
    <2>4. CASE ~(n > slots[i].dataId)
      <3>1. slot = slots[i]
        BY <1>1, <2>1, <2>4 DEF Store
      <3> QED BY <1>5, <2>2, <3>1
    <2> QED BY <2>3, <2>4
  <1>7. CASE slots[i].active # 1
    <2>1. Register(slots[i], packet) = Holding(n, packet)
      BY <1>1, <1>7, Zenon DEF Register
    <2>2. slot = Holding(n, packet)
      BY <1>1, <2>1, SMT DEF Store, Holding
    <2> QED BY <1>1, <1>5, <1>7, <2>2, HoldingParts
  <1> QED BY <1>6, <1>7

-----------------------------------------------------------------------------
\* What a round leaves that ends with the given slots and addresses.
Answered(table, list) ==
    /\ late' \in BOOLEAN
    /\ slots' \in [Slots -> Active \union {Idle}]
    /\ \A i \in Slots :
         /\ slots'[i].active = 1 <=> table[i].active = 1
         /\ table[i].active = 1 => slots'[i].currentData = table[i].currentData
    /\ toClient' \in [Clients -> SUBSET Packets]
    /\ \A c \in Clients : \A p \in toClient'[c] :
         \/ p \in toClient[c]
         \/ \E i \in Slots :
              table[i].active = 1 /\ list[i] = c /\ p = table[i].currentData

\* The loop that ends a round changes only the send times of a table, and sends
\* to each client nothing but what the table holds for it.
LEMMA Responded ==
    ASSUME NEW table \in [Slots -> Active \union {Idle}], NEW list, IInv,
           \A i \in Slots : table[i].active = 1 => table[i].currentData \in Packets,
           Respond(table, list)
    PROVE  Answered(table, list)
  <1>1. PICK due \in SUBSET {i \in Slots : table[i].active = 1 /\ table[i].lastSendTime = 1} :
          /\ late' \in BOOLEAN
          /\ LET sends == due \union {i \in Slots : late' /\ table[i].active = 1
                                                          /\ table[i].lastSendTime = 0}
             IN  /\ slots' = [i \in Slots |->
                       IF i \in sends THEN [table[i] EXCEPT !.lastSendTime = 1] ELSE table[i]]
                 /\ toClient' = [c \in Clients |-> toClient[c] \union
                       {table[i].currentData : i \in {j \in sends : list[j] = c}}]
    BY Zenon DEF Respond
  <1> DEFINE sends == due \union {i \in Slots : late' /\ table[i].active = 1
                                                      /\ table[i].lastSendTime = 0}
  <1>2. \A i \in sends : i \in Slots /\ table[i].active = 1
    OBVIOUS
  <1>3. slots' = [i \in Slots |->
             IF i \in sends THEN [table[i] EXCEPT !.lastSendTime = 1] ELSE table[i]]
    BY <1>1
  <1>4. toClient' = [c \in Clients |-> toClient[c] \union
             {table[i].currentData : i \in {j \in sends : list[j] = c}}]
    BY <1>1
  <1> HIDE DEF sends
  <1>5. ASSUME NEW i \in Slots
        PROVE  /\ slots'[i] \in Active \union {Idle}
               /\ slots'[i].active = 1 <=> table[i].active = 1
               /\ table[i].active = 1 => slots'[i].currentData = table[i].currentData
    <2>1. CASE i \in sends
      <3>1. table[i] \in Active
        BY <1>2, <2>1, IdleIsNot
      <3>2. slots'[i] = [table[i] EXCEPT !.lastSendTime = 1]
        BY <1>3, <2>1, Zenon
      <3> QED BY <1>2, <2>1, <3>1, <3>2, ActiveSent, ActiveParts, Zenon
    <2>2. CASE i \notin sends
      <3>1. slots'[i] = table[i]
        BY <1>3, <2>2, Zenon
      <3> QED BY <3>1, Zenon
    <2> QED BY <2>1, <2>2
  <1>6. ASSUME NEW c \in Clients, NEW p \in toClient'[c]
        PROVE  \/ p \in toClient[c]
               \/ \E i \in Slots :
                    table[i].active = 1 /\ list[i] = c /\ p = table[i].currentData
    BY <1>2, <1>4, SMT
  <1>7. toClient \in [Clients -> SUBSET Packets]
    BY DEF IInv, TypeOK
  <1>8. \A c \in Clients : toClient'[c] \in SUBSET Packets
    BY <1>6, <1>7
  <1>9. slots' \in [Slots -> Active \union {Idle}]
    BY <1>3, <1>5
  <1>10. toClient' \in [Clients -> SUBSET Packets]
    BY <1>4, <1>8
  <1> QED BY <1>1, <1>5, <1>6, <1>9, <1>10, Zenon DEF Answered

\* A round of the server keeps the invariant when the table and the addresses it
\* ends with are in order.
LEMMA RoundKeeps ==
    ASSUME IInv, NEW table \in [Slots -> Active \union {Idle}],
           addrs' \in [Slots -> Clients \union {None}],
           reached' \in [Clients -> Nat],
           \A c \in Clients : reached[c] <= reached'[c] /\ reached'[c] <= dataId[c] + 1,
           \A i \in Slots :
             IF table[i].active = 1
             THEN /\ table[i].currentData[1] = addrs'[i]
                  /\ table[i].currentData[2] < reached'[addrs'[i]]
                  /\ \A j \in Slots : addrs'[j] = addrs'[i] => j = i
             ELSE addrs'[i] = None,
           Respond(table, addrs'), UNCHANGED <<dataId, toServer>>
    PROVE  IInv'
  <1>1. \A i \in Slots : table[i].active = 1 => table[i].currentData \in Packets
    BY IdleIsNot, ActiveParts, Zenon
  <1>2. Answered(table, addrs')
    BY <1>1, Responded, Zenon
  <1>3. \A i \in Slots :
          IF slots'[i].active = 1
          THEN /\ slots'[i].currentData[1] = addrs'[i]
               /\ slots'[i].currentData[2] < reached'[addrs'[i]]
               /\ \A j \in Slots : addrs'[j] = addrs'[i] => j = i
          ELSE addrs'[i] = None
    BY <1>2, Zenon DEF Answered
  <1>4. ASSUME NEW c \in Clients, NEW p \in toClient'[c]
        PROVE  p[1] = c /\ p[2] < reached'[c]
    <2>1. CASE p \in toClient[c]
      <3>1. p[1] = c /\ p[2] < reached[c] /\ p \in Packets
        BY <2>1 DEF IInv, TypeOK, OwnSlots, NothingAhead
      <3>2. p[2] \in Nat /\ reached[c] \in Nat /\ reached'[c] \in Nat
        BY <3>1, PacketParts DEF IInv, TypeOK
      <3> QED BY <3>1, <3>2
    <2>2. CASE \E i \in Slots :
                 table[i].active = 1 /\ addrs'[i] = c /\ p = table[i].currentData
      BY <2>2, Zenon
    <2> QED BY <1>2, <2>1, <2>2, Zenon DEF Answered
  <1>5. OwnSlots'
    BY <1>3, <1>4, Zenon DEF OwnSlots
  <1>6. TypeOK'
    BY <1>2, <1>5 DEF IInv, TypeOK, Answered
  <1>7. NothingAhead'
    <2>1. ASSUME NEW c \in Clients
          PROVE  /\ dataId'[c] <= reached'[c] /\ reached'[c] <= dataId'[c] + 1
                 /\ \A n \in toServer'[c] : n <= dataId'[c]
      BY SMT DEF IInv, TypeOK, NothingAhead
    <2> QED BY <1>3, <1>4, <2>1, Zenon DEF NothingAhead
  <1> QED BY <1>6, <1>7 DEF IInv

-----------------------------------------------------------------------------
LEMMA ReadKeeps ==
    ASSUME IInv, NEW c \in Clients, NEW n \in Ids(c), ServerRead(c, n)
    PROVE  /\ IInv'
           /\ \/ UNCHANGED reached
              \/ reached[c] = dataId[c] /\ reached' = [reached EXCEPT ![c] = @ + 1]
  <1>1. n \in toServer[c] /\ UNCHANGED <<dataId, toServer>>
    BY Zenon DEF ServerRead
  <1> DEFINE packet == <<c, n>>
  <1>2. PICK i \in Slots :
          /\ IsSlot(i, c)
          /\ addrs' = [addrs EXCEPT ![i] = c]
          /\ Respond([slots EXCEPT ![i] = Store(Register(slots[i], packet), packet)], addrs')
          /\ reached' = [reached EXCEPT ![c] =
                IF Store(Register(slots[i], packet), packet).currentData = packet /\ n >= @
                THEN n + 1 ELSE @]
    BY Zenon DEF ServerRead
  <1> DEFINE slot == Store(Register(slots[i], packet), packet)
             table == [slots EXCEPT ![i] = slot]
  <1>3. /\ slot \in Active
        /\ slot.currentData[1] = c
        /\ slot.currentData # packet => slot.currentData[2] < reached[c]
        /\ \A j \in Slots : addrs[j] = c => j = i
    BY <1>1, <1>2, Stored, Zenon
  <1>4. /\ dataId[c] \in Nat /\ reached \in [Clients -> Nat] /\ n \in Nat
        /\ n <= dataId[c] /\ dataId[c] <= reached[c] /\ reached[c] <= dataId[c] + 1
    BY <1>1 DEF IInv, TypeOK, NothingAhead
  <1>5. packet[2] = n
    OBVIOUS
  <1> HIDE DEF slot, packet
  <1>6. reached' = [reached EXCEPT ![c] =
            IF slot.currentData = packet /\ n >= reached[c] THEN n + 1 ELSE reached[c]]
    BY <1>2, Zenon DEF slot, packet
  <1>7. /\ reached' \in [Clients -> Nat]
        /\ \A d \in Clients : d # c => reached'[d] = reached[d]
        /\ reached[c] <= reached'[c] /\ reached'[c] <= dataId[c] + 1
        /\ slot.currentData[2] < reached'[c]
    <2>1. CASE slot.currentData = packet /\ n >= reached[c]
      <3>1. reached' = [reached EXCEPT ![c] = n + 1]
        BY <1>6, <2>1, Zenon
      <3>2. slot.currentData[2] = n
        BY <1>5, <2>1
      <3> QED BY <1>4, <2>1, <3>1, <3>2, SMT
    <2>2. CASE ~(slot.currentData = packet /\ n >= reached[c])
      <3>1. reached' = [reached EXCEPT ![c] = reached[c]]
        BY <1>6, <2>2, Zenon
      <3>2. slot.currentData[2] < reached[c]
        BY <1>3, <1>4, <1>5, <2>2, SMT
      <3> QED BY <1>4, <3>1, <3>2, SMT
    <2> QED BY <2>1, <2>2, Zenon
  <1>8. \/ UNCHANGED reached
        \/ reached[c] = dataId[c] /\ reached' = [reached EXCEPT ![c] = @ + 1]
    <2>1. CASE slot.currentData = packet /\ n >= reached[c]
      <3>1. reached' = [reached EXCEPT ![c] = n + 1]
        BY <1>6, <2>1, Zenon
      <3>2. n = reached[c] /\ reached[c] = dataId[c]
        BY <1>4, <2>1, SMT
      <3> QED BY <3>1, <3>2, Zenon
    <2>2. CASE ~(slot.currentData = packet /\ n >= reached[c])
      <3>1. reached' = [reached EXCEPT ![c] = reached[c]]
        BY <1>6, <2>2, Zenon
      <3>2. \A d \in Clients : reached'[d] = reached[d]
        BY <1>4, <3>1, Zenon
      <3>3. reached' = reached
        BY <1>4, <1>7, <3>2, SMT
      <3> QED BY <3>3
    <2> QED BY <2>1, <2>2, Zenon
  <1>9. addrs \in [Slots -> Clients \union {None}] /\ slots \in [Slots -> Active \union {Idle}]
    BY Zenon DEF IInv, TypeOK
  <1>10. table \in [Slots -> Active \union {Idle}] /\ addrs' \in [Slots -> Clients \union {None}]
    BY <1>2, <1>3, <1>9, SMT
  <1>11. ASSUME NEW k \in Slots
         PROVE  IF table[k].active = 1
                THEN /\ table[k].currentData[1] = addrs'[k]
                     /\ table[k].currentData[2] < reached'[addrs'[k]]
                     /\ \A j \in Slots : addrs'[j] = addrs'[k] => j = k
                ELSE addrs'[k] = None
    <2>1. CASE k = i
      <3>1. table[k] = slot /\ addrs'[k] = c
        BY <1>2, <1>9, <2>1, Zenon
      <3>2. \A j \in Slots : addrs'[j] = c => j = i
        BY <1>2, <1>3, <1>9, Zenon
      <3> QED BY <1>3, <1>7, <2>1, <3>1, <3>2, ActiveParts, Zenon
    <2>2. CASE k # i
      <3>1. table[k] = slots[k] /\ addrs'[k] = addrs[k] /\ addrs[k] # c
        BY <1>2, <1>3, <1>9, <2>2, Zenon
      <3>2. CASE slots[k].active = 1
        <4>1. /\ slots[k].currentData[1] = addrs[k]
              /\ slots[k].currentData[2] < reached[addrs[k]]
              /\ \A j \in Slots : addrs[j] = addrs[k] => j = k
              /\ addrs[k] \in Clients
          BY <3>2, Owned, Zenon
        <4>2. \A j \in Slots : addrs'[j] = addrs'[k] => j = k
          BY <1>2, <1>9, <3>1, <4>1, Zenon
        <4> QED BY <1>7, <3>1, <3>2, <4>1, <4>2, Zenon
      <3>3. CASE slots[k].active # 1
        BY <3>1, <3>3, Zenon DEF IInv, TypeOK, OwnSlots
      <3> QED BY <3>2, <3>3
    <2> QED BY <2>1, <2>2
  <1>12. \A d \in Clients : reached[d] <= reached'[d] /\ reached'[d] <= dataId[d] + 1
    <2>1. \A d \in Clients : reached[d] \in Nat /\ reached[d] <= dataId[d] + 1
      BY <1>4 DEF IInv, NothingAhead
    <2> QED BY <1>7, <2>1, SMT
  <1>13. Respond(table, addrs')
    BY <1>2, Zenon DEF slot, packet
  <1> HIDE DEF table
  <1>14. IInv'
    BY <1>1, <1>7, <1>10, <1>11, <1>12, <1>13, RoundKeeps, Zenon
  <1> QED BY <1>8, <1>14, Zenon

LEMMA IdleKeeps == IInv /\ ServerIdle => IInv'
  <1> SUFFICES ASSUME IInv, ServerIdle PROVE IInv'
    OBVIOUS
  <1>1. addrs' = addrs /\ reached' = reached /\ Respond(slots, addrs')
        /\ UNCHANGED <<dataId, toServer>>
    <2>1. UNCHANGED <<dataId, toServer, addrs, reached>> /\ Respond(slots, addrs)
      BY Zenon DEF ServerIdle
    <2>2. addrs' = addrs
      BY <2>1
    <2> QED BY <2>1, <2>2
  <1>2. /\ slots \in [Slots -> Active \union {Idle}]
        /\ addrs' \in [Slots -> Clients \union {None}] /\ reached' \in [Clients -> Nat]
    BY <1>1, Zenon DEF IInv, TypeOK
  <1>3. \A c \in Clients : reached[c] <= reached'[c] /\ reached'[c] <= dataId[c] + 1
    BY <1>1, <1>2, SMT DEF IInv, NothingAhead
  <1>4. \A i \in Slots :
          IF slots[i].active = 1
          THEN /\ slots[i].currentData[1] = addrs'[i]
               /\ slots[i].currentData[2] < reached'[addrs'[i]]
               /\ \A j \in Slots : addrs'[j] = addrs'[i] => j = i
          ELSE addrs'[i] = None
    BY <1>1, Owned, Zenon DEF IInv, TypeOK, OwnSlots
  <1> QED BY <1>1, <1>2, <1>3, <1>4, RoundKeeps, Zenon

LEMMA SendKeeps ==
    ASSUME IInv, NEW c \in Clients, ClientSend(c)
    PROVE  IInv'
  <1>1. toServer' = [toServer EXCEPT ![c] = @ \union {dataId[c]}]
        /\ UNCHANGED <<dataId, toClient, late, addrs, slots, reached>>
    BY Zenon DEF ClientSend
  <1>2. dataId \in [Clients -> Nat] /\ toServer \in [Clients -> SUBSET Nat]
    BY Zenon DEF IInv, TypeOK
  <1>3. toServer' \in [Clients -> SUBSET Nat]
    BY <1>1, <1>2
  <1>4. \A d \in Clients : \A n \in toServer'[d] : n <= dataId'[d]
    BY <1>1, <1>2 DEF IInv, NothingAhead
  <1>5. TypeOK'
    BY <1>1, <1>3 DEF IInv, TypeOK, OwnSlots
  <1>6. NothingAhead'
    BY <1>1, <1>4 DEF IInv, NothingAhead
  <1> QED BY <1>5, <1>6 DEF IInv

LEMMA CountKeeps ==
    ASSUME IInv, NEW c \in Clients, NEW n \in Ids(c), ClientRead(c, n)
    PROVE  IInv' /\ dataId[c] < reached[c]
  <1>1. /\ <<c, n>> \in toClient[c] /\ n = dataId[c]
        /\ dataId' = [dataId EXCEPT ![c] = @ + 1]
        /\ toServer' = [toServer EXCEPT ![c] = @ \union ({dataId'[c]} \intersect Ids(c))]
        /\ UNCHANGED <<toClient, late, addrs, slots, reached>>
    BY Zenon DEF ClientRead
  <1>2. /\ dataId \in [Clients -> Nat] /\ toServer \in [Clients -> SUBSET Nat]
        /\ reached \in [Clients -> Nat]
    BY Zenon DEF IInv, TypeOK
  <1>3. dataId[c] < reached[c]
    <2>1. <<c, n>>[2] < reached[c]
      BY <1>1, Zenon DEF IInv, NothingAhead
    <2> QED BY <1>1, <2>1
  <1>4. /\ dataId' \in [Clients -> Nat] /\ dataId'[c] = dataId[c] + 1
        /\ \A d \in Clients : d # c => dataId'[d] = dataId[d]
    BY <1>1, <1>2
  <1>5. /\ toServer' \in [Clients -> SUBSET Nat]
        /\ \A m \in toServer'[c] : m \in toServer[c] \/ m = dataId'[c]
        /\ \A d \in Clients : d # c => toServer'[d] = toServer[d]
    BY <1>1, <1>2, <1>4
  <1>6. TypeOK'
    BY <1>1, <1>4, <1>5 DEF IInv, TypeOK, OwnSlots
  <1>7. NothingAhead'
    <2>1. ASSUME NEW d \in Clients
          PROVE  /\ dataId'[d] <= reached'[d] /\ reached'[d] <= dataId'[d] + 1
                 /\ \A m \in toServer'[d] : m <= dataId'[d]
      <3>1. /\ dataId[d] <= reached[d] /\ reached[d] <= dataId[d] + 1
            /\ \A m \in toServer[d] : m <= dataId[d]
        BY DEF IInv, NothingAhead
      <3>2. reached'[d] = reached[d]
        BY <1>1
      <3>3. CASE d = c
        BY <1>2, <1>3, <1>4, <1>5, <3>1, <3>2, <3>3, SMT
      <3>4. CASE d # c
        BY <1>4, <1>5, <3>1, <3>2, <3>4, SMT
      <3> QED BY <3>3, <3>4
    <2> QED BY <1>1, <2>1, Zenon DEF IInv, NothingAhead
  <1> QED BY <1>3, <1>6, <1>7 DEF IInv

LEMMA LoseKeeps ==
    ASSUME IInv, NEW c \in Clients, Lose(c)
    PROVE  IInv'
  <1>1. UNCHANGED <<dataId, late, addrs, slots, reached>>
    BY Zenon DEF Lose
  <1>2. toServer \in [Clients -> SUBSET Nat] /\ toClient \in [Clients -> SUBSET Packets]
    BY Zenon DEF IInv, TypeOK
  <1>3. /\ toServer' \in [Clients -> SUBSET Nat] /\ toClient' \in [Clients -> SUBSET Packets]
        /\ \A d \in Clients : toServer'[d] \subseteq toServer[d] /\ toClient'[d] \subseteq toClient[d]
    BY <1>2 DEF Lose
  <1>4. TypeOK'
    BY <1>1, <1>3 DEF IInv, TypeOK, OwnSlots
  <1>5. NothingAhead'
    BY <1>1, <1>3 DEF IInv, NothingAhead
  <1> QED BY <1>4, <1>5 DEF IInv

-----------------------------------------------------------------------------
LEMMA Starts == Init => IInv
  <1> SUFFICES ASSUME Init PROVE IInv
    OBVIOUS
  <1>1. OwnSlots
    BY IdleIsNot DEF Init, OwnSlots
  <1>2. TypeOK
    BY <1>1 DEF Init, TypeOK
  <1>3. NothingAhead
    BY IdleIsNot DEF Init, NothingAhead
  <1> QED BY <1>2, <1>3 DEF IInv

LEMMA Inductive == IInv /\ [Next]_vars => IInv'
  <1> SUFFICES ASSUME IInv, [Next]_vars PROVE IInv'
    OBVIOUS
  <1>1. CASE ServerIdle
    BY <1>1, IdleKeeps
  <1>2. ASSUME NEW c \in Clients, NEW n \in Ids(c), ServerRead(c, n) PROVE IInv'
    BY <1>2, ReadKeeps, Zenon
  <1>3. ASSUME NEW c \in Clients, NEW n \in Ids(c), ClientRead(c, n) PROVE IInv'
    BY <1>3, CountKeeps, Zenon
  <1>4. ASSUME NEW c \in Clients, ClientSend(c) PROVE IInv'
    BY <1>4, SendKeeps, Zenon
  <1>5. ASSUME NEW c \in Clients, Lose(c) PROVE IInv'
    BY <1>5, LoseKeeps, Zenon
  <1>6. CASE UNCHANGED vars
    BY <1>6, Zenon DEF vars, IInv, TypeOK, OwnSlots, NothingAhead
  <1> QED BY <1>1, <1>2, <1>3, <1>4, <1>5, <1>6, Zenon DEF Next

\* The types of the variables of the UDP benchmark; each slot is one client's.
THEOREM TypeCorrect == Spec => []TypeOK
  BY Starts, Inductive, PTL DEF Spec, IInv

\* The server has read all packets that are counted and at most one more of each
\* client, and nothing beyond that is on the way.
THEOREM NoPacketAhead == Spec => []NothingAhead
  BY Starts, Inductive, PTL DEF Spec, IInv

\* Each count of the benchmark is a round trip, whatever datagrams are lost,
\* repeated and overtaken.
THEOREM CountsRoundTrips == Spec => ImplementsRounds
  <1>1. Init => Counting!Init
    BY DEF Init, Counting!Init
  <1>2. IInv /\ [Next]_vars => [Counting!Next]_Counting!vars
    <2> SUFFICES ASSUME IInv, [Next]_vars PROVE [Counting!Next]_Counting!vars
      OBVIOUS
    <2>1. ASSUME NEW c \in Clients, NEW n \in Ids(c), ServerRead(c, n)
          PROVE  [Counting!Next]_Counting!vars
      <3>1. UNCHANGED dataId
        BY <2>1, Zenon DEF ServerRead
      <3>2. \/ UNCHANGED reached
            \/ reached[c] = dataId[c] /\ reached' = [reached EXCEPT ![c] = @ + 1]
        BY <2>1, ReadKeeps, Zenon
      <3> QED BY <3>1, <3>2 DEF Counting!Next, Counting!Reach, Counting!vars
    <2>2. ASSUME NEW c \in Clients, NEW n \in Ids(c), ClientRead(c, n)
          PROVE  [Counting!Next]_Counting!vars
      <3>1. dataId' = [dataId EXCEPT ![c] = @ + 1] /\ UNCHANGED reached
        BY <2>2, Zenon DEF ClientRead
      <3>2. dataId[c] < reached[c]
        BY <2>2, CountKeeps, Zenon
      <3> QED BY <3>1, <3>2 DEF Counting!Next, Counting!Count
    <2>3. ASSUME NEW c \in Clients, ClientSend(c) \/ Lose(c)
          PROVE  [Counting!Next]_Counting!vars
      <3>1. UNCHANGED <<dataId, reached>>
        BY <2>3, Zenon DEF ClientSend, Lose
      <3> QED BY <3>1 DEF Counting!vars
    <2>4. CASE ServerIdle
      BY <2>4 DEF ServerIdle, Counting!vars
    <2>5. CASE UNCHANGED vars
      BY <2>5 DEF vars, Counting!vars
    <2> QED BY <2>1, <2>2, <2>3, <2>4, <2>5, Zenon DEF Next
  <1> QED BY <1>1, <1>2, Starts, Inductive, PTL DEF Spec, ImplementsRounds, Counting!Spec
=============================================================================
