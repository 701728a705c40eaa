--------------------------- MODULE LockstepProofs ---------------------------
(* Proofs about Lockstep, for every number of connections and every bound. *)
EXTENDS LockstepInv, SequenceTheorems, TLAPS

-----------------------------------------------------------------------------
(* What the operators return. *)

LEMMA FramesType ==
    ASSUME NEW n \in Nat
    PROVE  [i \in 1 .. n |-> Frame] \in Seq(Event)
  BY SMT DEF Event

\* Running frames keeps a simulation a sequence of events.
LEMMA ExecuteType ==
    ASSUME NEW sim \in Seq(Event), NEW queue \in Seq(Command), NEW n \in Nat,
           NEW gated \in BOOLEAN
    PROVE  Execute(sim, queue, n, gated) \in Seq(Event)
  <1>1. queue \in Seq(Event)
    BY SeqMonotonic, Command \subseteq Event DEF Event
  <1>2. [i \in 1 .. n |-> Frame] \in Seq(Event)
    BY FramesType
  <1>3. sim \o queue \in Seq(Event) /\ sim \o <<>> \in Seq(Event)
    BY <1>1
  <1>4. QED
    BY <1>2, <1>3 DEF Execute

LEMMA LeftQueuedType ==
    ASSUME NEW queue \in Seq(Command), NEW n \in Nat, NEW gated \in BOOLEAN
    PROVE  LeftQueued(queue, n, gated) \in Seq(Command)
  BY DEF LeftQueued

\* The messages have the types of their channels.
LEMMA MessageTypes ==
    /\ Login \in ToServerMsg /\ Confirm \in ToServerMsg /\ Eof \in ToServerMsg
    /\ \A cmds \in Seq(Command) : Post(cmds) \in ToServerMsg
    /\ \A s \in Slots : Cid(s) \in ToClientMsg
    /\ \A sim \in Seq(Event) : Snapshot(sim) \in ToClientMsg
    /\ \A n \in FrameCounts, cmds \in Seq(Command \union {Garbage}) :
          TurnMsg(n, cmds) \in ToClientMsg
  BY DEF ToServerMsg, ToClientMsg, Login, Confirm, Eof, Post, Cid, Snapshot, TurnMsg

\* What the type of a message says of its contents.
LEMMA MessageContents ==
    /\ \A m \in ToServerMsg : m.type = "CMDS" => m.cmds \in Seq(Command)
    /\ \A m \in ToClientMsg :
          /\ m.type = "CID" => m.id \in Slots
          /\ m.type = "SNAPSHOT" => m.sim \in Seq(Event)
          /\ m.type = "CMDS" => /\ m.frames \in FrameCounts
                                /\ m.cmds \in Seq(Command \union {Garbage})
  BY DEF ToServerMsg, ToClientMsg, Login, Confirm, Eof

\* A command list without garbage holds commands only.
LEMMA ReadableType ==
    ASSUME NEW cmds \in Seq(Command \union {Garbage}), Readable(cmds)
    PROVE  cmds \in Seq(Command)
  BY DEF Readable

-----------------------------------------------------------------------------
(* Type correctness. *)

LEMMA TypeInit == Init => TypeOK
  BY ConstantsAssumption DEF Init, TypeOK

LEMMA TypeAccept ==
    ASSUME TypeOK, NEW s \in Slots, Accept(s)
    PROVE  TypeOK'
  BY MessageTypes DEF TypeOK, Accept, gameVars

LEMMA TypeGreet ==
    ASSUME TypeOK, NEW s \in Slots, Greet(s)
    PROVE  TypeOK'
  BY MessageTypes DEF TypeOK, Greet, gameVars, clientVars, boundVars, Send

LEMMA TypeTurn ==
    ASSUME TypeOK, NEW n \in FrameCounts, Turn(n)
    PROVE  TypeOK'
  <1>1. toClient' \in [Slots -> Seq(ToClientMsg)]
    BY MessageTypes DEF TypeOK, Turn
  <1>2. serverSim' \in Seq(Event) /\ serverIn' \in Seq(Command)
    BY ExecuteType, LeftQueuedType, ConstantsAssumption DEF TypeOK, Turn
  <1>3. waiting' \in [Slots -> BOOLEAN]
    BY Zenon DEF TypeOK, Turn
  <1>4. bulk' \in Seq(Command \union {Garbage}) /\ turns' \in Nat
    BY DEF TypeOK, Turn
  <1>5. UNCHANGED <<active, needsGreeting, clientVars, toServer, issued, joins, exact>>
    BY DEF Turn
  <1>6. QED
    BY <1>1, <1>2, <1>3, <1>4, <1>5 DEF TypeOK, clientVars

LEMMA TypeReceive ==
    ASSUME TypeOK, NEW s \in Slots, NEW type
    PROVE  /\ Arrived(toServer, s, type) => /\ Receive(toServer, s) \in [Slots -> Seq(ToServerMsg)]
                                            /\ Head(toServer[s]) \in ToServerMsg
           /\ Arrived(toClient, s, type) => /\ Receive(toClient, s) \in [Slots -> Seq(ToClientMsg)]
                                            /\ Head(toClient[s]) \in ToClientMsg
  BY HeadTailProperties DEF TypeOK, Arrived, Receive

LEMMA TypeReadCmds ==
    ASSUME TypeOK, NEW s \in Slots, ReadCmds(s)
    PROVE  TypeOK'
  <1>1. toServer' \in [Slots -> Seq(ToServerMsg)] /\ Head(toServer[s]).cmds \in Seq(Command)
    BY TypeReceive, MessageContents DEF ReadCmds, ServerReads, Arrived
  <1>2. serverIn' \in Seq(Command)
    BY <1>1 DEF TypeOK, ReadCmds
  <1>3. bulk' \in Seq(Command \union {Garbage})
    BY <1>1 DEF TypeOK, ReadCmds
  <1>4. QED
    BY <1>1, <1>2, <1>3 DEF TypeOK, ReadCmds, clientVars, boundVars

LEMMA TypeReadConfirm ==
    ASSUME TypeOK, NEW s \in Slots, ReadConfirm(s)
    PROVE  TypeOK'
  BY TypeReceive DEF TypeOK, ReadConfirm, ServerReads, gameVars, clientVars, boundVars

LEMMA TypeReadLogin ==
    ASSUME TypeOK, NEW s \in Slots, ReadLogin(s)
    PROVE  TypeOK'
  <1>1. toServer' \in [Slots -> Seq(ToServerMsg)]
    BY TypeReceive DEF ReadLogin, ServerReads
  <1>2. toClient' \in [Slots -> Seq(ToClientMsg)]
    BY MessageTypes DEF TypeOK, ReadLogin, Send
  <1>3. bulk' \in Seq(Command \union {Garbage})
    BY DEF TypeOK, ReadLogin, Overwritten
  <1>4. QED
    BY <1>1, <1>2, <1>3 DEF TypeOK, ReadLogin, connVars, clientVars, boundVars

LEMMA TypeReadEof ==
    ASSUME TypeOK, NEW s \in Slots, ReadEof(s)
    PROVE  TypeOK'
  BY TypeReceive DEF TypeOK, ReadEof, ServerReads, gameVars, clientVars, boundVars

LEMMA TypeRecvCid ==
    ASSUME TypeOK, NEW c \in Slots, RecvCid(c)
    PROVE  TypeOK'
  BY TypeReceive, MessageContents
  DEF TypeOK, RecvCid, Reads, Arrived, connVars, gameVars, boundVars

LEMMA TypeRecvSnapshot ==
    ASSUME TypeOK, NEW c \in Slots, clientId[c] \in Slots, RecvSnapshot(c)
    PROVE  TypeOK'
  <1>1. /\ toClient' \in [Slots -> Seq(ToClientMsg)]
        /\ Head(toClient[c]).sim \in Seq(Event)
    BY TypeReceive, MessageContents DEF RecvSnapshot, Arrived
  <1>2. toServer' \in [Slots -> Seq(ToServerMsg)]
    BY MessageTypes DEF TypeOK, RecvSnapshot, Send
  <1>3. [kind |-> "SetLogin", sender |-> clientId[c]] \in Command
    BY DEF Command
  <1>4. clientOut' \in [Slots -> Seq(Command)]
    BY <1>3 DEF TypeOK, RecvSnapshot
  <1>5. QED
    BY <1>1, <1>2, <1>4 DEF TypeOK, RecvSnapshot, connVars, gameVars, boundVars

LEMMA TypeCatchUp ==
    ASSUME TypeOK, NEW c \in Slots, NEW received \in Seq(Command),
           Arrived(toClient, c, "CMDS"), CatchUp(c, received)
    PROVE  /\ clientSim' \in [Slots -> Seq(Event)]
           /\ clientTicks' \in [Slots -> Nat]
           /\ clientIn' \in [Slots -> Seq(Command)]
  <1>1. Head(toClient[c]).frames \in Nat
    BY TypeReceive, MessageContents, ConstantsAssumption DEF Arrived
  <1>2. clientSim' \in [Slots -> Seq(Event)]
    BY ExecuteType DEF TypeOK, CatchUp
  <1>3. LeftQueued(clientIn[c], clientTicks[c], clientWaiting[c]) \in Seq(Command)
    BY LeftQueuedType DEF TypeOK
  <1>4. clientIn' \in [Slots -> Seq(Command)]
    BY <1>3 DEF TypeOK, CatchUp
  <1>5. QED
    BY <1>1, <1>2, <1>4 DEF TypeOK, CatchUp

LEMMA TypeRecvTurn ==
    ASSUME TypeOK, NEW c \in Slots, RecvTurn(c)
    PROVE  TypeOK'
  <1>1. /\ toClient' \in [Slots -> Seq(ToClientMsg)]
        /\ Head(toClient[c]).cmds \in Seq(Command)
    BY TypeReceive, MessageContents, ReadableType DEF RecvTurn, Reads, Arrived
  <1>2. QED
    BY <1>1, TypeCatchUp DEF TypeOK, RecvTurn, Reads, connVars, gameVars, boundVars

LEMMA TypeRecvGarbledTurn ==
    ASSUME TypeOK, NEW c \in Slots, RecvGarbledTurn(c)
    PROVE  TypeOK'
  <1>1. toClient' \in [Slots -> Seq(ToClientMsg)]
    BY TypeReceive DEF RecvGarbledTurn, Reads
  <1>2. <<>> \in Seq(Command)
    OBVIOUS
  <1>3. QED
    BY <1>1, <1>2, TypeCatchUp
    DEF TypeOK, RecvGarbledTurn, Reads, connVars, gameVars, boundVars

\* An assignment to one slot.
LEMMA SlotAssigned ==
    ASSUME NEW T, NEW f \in [Slots -> T], NEW c \in Slots, NEW x \in T
    PROVE  [f EXCEPT ![c] = x] \in [Slots -> T]
  OBVIOUS

LEMMA TypeRunFrame ==
    ASSUME TypeOK, NEW c \in Slots, RunFrame(c)
    PROVE  /\ clientSim' \in [Slots -> Seq(Event)]
           /\ clientTicks' \in [Slots -> Nat]
           /\ clientIn' \in [Slots -> Seq(Command)]
  <1>1. CASE clientTicks[c] = 0
    BY <1>1 DEF TypeOK, RunFrame
  <1>2. CASE clientTicks[c] # 0
    <2>1. /\ Execute(clientSim[c], clientIn[c], 1, clientWaiting[c]) \in Seq(Event)
          /\ LeftQueued(clientIn[c], 1, clientWaiting[c]) \in Seq(Command)
      BY ExecuteType, LeftQueuedType DEF TypeOK
    <2>2. clientTicks[c] - 1 \in Nat
      BY <1>2 DEF TypeOK
    <2>3. clientSim' \in [Slots -> Seq(Event)]
      <3>1. clientSim' = [clientSim EXCEPT ![c] = Execute(@, clientIn[c], 1, clientWaiting[c])]
        BY <1>2, Zenon DEF RunFrame
      <3>2. clientSim \in [Slots -> Seq(Event)]
        BY DEF TypeOK
      <3> QED
        BY <2>1, <3>1, <3>2, SlotAssigned, Zenon
    <2>4. clientTicks' \in [Slots -> Nat]
      <3>1. clientTicks' = [clientTicks EXCEPT ![c] = @ - 1]
        BY <1>2, Zenon DEF RunFrame
      <3>2. clientTicks \in [Slots -> Nat]
        BY DEF TypeOK
      <3> QED
        BY <2>2, <3>1, <3>2, SlotAssigned, Zenon
    <2>5. clientIn' \in [Slots -> Seq(Command)]
      <3>1. clientIn' = [clientIn EXCEPT ![c] = LeftQueued(@, 1, clientWaiting[c])]
        BY <1>2, Zenon DEF RunFrame
      <3>2. clientIn \in [Slots -> Seq(Command)]
        BY DEF TypeOK
      <3> QED
        BY <2>1, <3>1, <3>2, SlotAssigned, Zenon
    <2>6. QED
      BY <2>3, <2>4, <2>5
  <1>3. QED
    BY <1>1, <1>2

\* A frame of one client is none of another.
LEMMA RunFrameElsewhere ==
    ASSUME TypeOK, NEW c \in Slots, RunFrame(c), NEW r \in Slots, r # c
    PROVE  /\ clientSim'[r] = clientSim[r] /\ clientTicks'[r] = clientTicks[r]
           /\ clientIn'[r] = clientIn[r]
  <1>1. CASE clientTicks[c] = 0
    BY <1>1 DEF RunFrame
  <1>2. CASE clientTicks[c] # 0
    <2>1. clientSim'[r] = clientSim[r]
      BY <1>2 DEF TypeOK, RunFrame
    <2>2. clientTicks'[r] = clientTicks[r]
      BY <1>2 DEF TypeOK, RunFrame
    <2>3. clientIn'[r] = clientIn[r]
      BY <1>2 DEF TypeOK, RunFrame
    <2> QED
      BY <2>1, <2>2, <2>3
  <1> QED
    BY <1>1, <1>2

LEMMA TypeLogicTick ==
    ASSUME TypeOK, NEW c \in Slots, NEW orders \in Seq(Command), NEW timerDue \in BOOLEAN,
           LogicTick(c, orders, timerDue)
    PROVE  /\ toServer' \in [Slots -> Seq(ToServerMsg)]
           /\ clientOut' \in [Slots -> Seq(Command)]
           /\ clientWaiting' \in [Slots -> BOOLEAN]
  <1>1. CASE clientWaiting[c] \/ ~timerDue
    BY <1>1 DEF TypeOK, LogicTick
  <1>2. CASE ~(clientWaiting[c] \/ ~timerDue)
    <2>1. Post(orders) \in ToServerMsg /\ <<>> \in Seq(Command)
      BY MessageTypes
    <2>2. /\ toServer' = Send(toServer, c, Post(orders))
          /\ clientOut' = [clientOut EXCEPT ![c] = <<>>]
          /\ clientWaiting' = [clientWaiting EXCEPT ![c] = TRUE]
      BY <1>2, Zenon DEF LogicTick
    <2>3. QED
      BY <2>1, <2>2 DEF TypeOK, Send
  <1>3. QED
    BY <1>1, <1>2

LEMMA TypeClientFrame ==
    ASSUME TypeOK, NEW c \in Slots, NEW typed \in Seq(Command), NEW timerDue \in BOOLEAN,
           ClientFrame(c, typed, timerDue)
    PROVE  TypeOK'
  <1>1. clientOut[c] \o typed \in Seq(Command)
    BY DEF TypeOK
  <1>2. issued' \in Nat
    BY DEF TypeOK, ClientFrame
  <1>3. QED
    BY <1>1, <1>2, TypeRunFrame, TypeLogicTick DEF TypeOK, ClientFrame, connVars, gameVars

LEMMA TypeLeave ==
    ASSUME TypeOK, NEW c \in Slots, NEW sent \in 0 .. Len(toServer[c]), Leave(c, sent)
    PROVE  TypeOK'
  <1>1. SubSeq(toServer[c], 1, sent) \in Seq(ToServerMsg)
    BY DEF TypeOK
  <1>2. toServer' \in [Slots -> Seq(ToServerMsg)]
    BY <1>1, MessageTypes DEF TypeOK, Leave
  <1>3. /\ toClient' \in [Slots -> Seq(ToClientMsg)]
        /\ clientIn' \in [Slots -> Seq(Command)]
        /\ clientOut' \in [Slots -> Seq(Command)]
        /\ clientSim' \in [Slots -> Seq(Event)]
    BY DEF TypeOK, Leave
  <1>4. /\ mode' \in [Slots -> {"off", "login", "play", "hung"}]
        /\ clientId' \in [Slots -> Slots \union {-1}]
        /\ clientWaiting' \in [Slots -> BOOLEAN]
        /\ clientTicks' \in [Slots -> Nat]
    BY DEF TypeOK, Leave
  <1>5. UNCHANGED <<connVars, gameVars, boundVars, exact>>
    BY DEF Leave
  <1>6. QED
    BY <1>2, <1>3, <1>4, <1>5 DEF TypeOK, connVars, gameVars, boundVars

-----------------------------------------------------------------------------
(* The stages of a client.                                                 *)

\* The stage of a slot depends on the variables of the slot and on serverSim.
LEMMA Bystander ==
    ASSUME NEW r \in Slots, SlotInv(r), serverSim' = serverSim,
           active'[r] = active[r], waiting'[r] = waiting[r],
           needsGreeting'[r] = needsGreeting[r], mode'[r] = mode[r],
           clientId'[r] = clientId[r], clientWaiting'[r] = clientWaiting[r],
           clientTicks'[r] = clientTicks[r], clientIn'[r] = clientIn[r],
           clientOut'[r] = clientOut[r], clientSim'[r] = clientSim[r],
           toClient'[r] = toClient[r], toServer'[r] = toServer[r]
    PROVE  SlotInv(r)'
  BY DEF SlotInv, OffStage, LoginStage, PlayStage, HungStage, Accepted, LoginUnread,
         SnapshotSent, Confirming, InGame, Credit

LEMMA AppendToOne ==
    ASSUME NEW a, NEW b
    PROVE  Append(<<a>>, b) = <<a, b>>
  <1> DEFINE S == {a, b}
             q == Append(<<a>>, b)
  <1>1. <<a>> \in Seq(S) /\ b \in S /\ <<a, b>> \in Seq(S)
    OBVIOUS
  <1>2. <<a>>[1] = a /\ Len(<<a, b>>) = 2 /\ <<a, b>>[1] = a /\ <<a, b>>[2] = b
    OBVIOUS
  <1>3. q \in Seq(S) /\ Len(q) = 2 /\ q[1] = a /\ q[2] = b
    BY <1>1, <1>2, AppendProperties
  <1> HIDE DEF q
  <1>4. \A i \in 1 .. 2 : q[i] = <<a, b>>[i]
    BY <1>2, <1>3
  <1>5. q = <<a, b>>
    BY <1>1, <1>2, <1>3, <1>4, SeqEqual
  <1>6. QED
    BY <1>5 DEF q

LEMMA ShortSequences ==
    \A a, b : /\ Append(<<>>, a) = <<a>>
              /\ Tail(<<a>>) = <<>> /\ Tail(<<a, b>>) = <<b>>
              /\ Head(<<a>>) = a /\ Head(<<a, b>>) = a
              /\ <<a>> # <<>> /\ <<a, b>> # <<>> /\ Len(<<a>>) = 1 /\ Len(<<a, b>>) = 2
  OBVIOUS

\* A connection that is not active has no client, a login is never in the
\* game's part of the stream.
\* The summands of Credit, before and after a step, and how they move.
Due(b) == IF b THEN 0 ELSE 1

LEMMA CreditSum ==
    ASSUME NEW s \in Slots
    PROVE  /\ Credit(s) = Len(toClient[s]) + Len(toServer[s])
                              + Due(waiting[s]) + Due(clientWaiting[s])
           /\ Credit(s)' = Len(toClient'[s]) + Len(toServer'[s])
                              + Due(waiting'[s]) + Due(clientWaiting'[s])
           /\ Due(waiting[s]) \in {0, 1} /\ Due(clientWaiting[s]) \in {0, 1}
  BY DEF Credit, Due

\* A turn is sent to a slot that is not waited for; an answer is read; a turn is
\* received; an answer is posted by a client that is not waiting.
LEMMA CreditMoves ==
    \A a, b \in Nat : \A w, c \in {0, 1} :
        a + b + w + c \in 1 .. 2 =>
            /\ w = 1  => (a + 1) + b + 0 + c \in 1 .. 2
            /\ b >= 1 => a + (b - 1) + 1 + c \in 1 .. 2
            /\ a >= 1 => (a - 1) + b + w + 1 \in 1 .. 2
            /\ c = 1  => a + (b + 1) + w + 0 \in 1 .. 2
  OBVIOUS

LEMMA InactiveIsOff ==
    ASSUME TypeOK, NEW s \in Slots, SlotInv(s), ~active[s]
    PROVE  mode[s] = "off"
  BY DEF TypeOK, SlotInv, LoginStage, PlayStage, HungStage

LEMMA StagesInit == Init => JoinStages
  BY DEF Init, JoinStages, SlotInv, OffStage, LoginStage, PlayStage, HungStage

LEMMA StagesAccept ==
    ASSUME IInv, NEW s \in Slots, Accept(s)
    PROVE  JoinStages'
  <1> SUFFICES ASSUME NEW r \in Slots PROVE SlotInv(r)'
    BY DEF JoinStages
  <1> USE DEF IInv
  <1>1. CASE r = s
    <2>1. OffStage(s) /\ mode[s] = "off"
      BY InactiveIsOff DEF Accept, JoinStages, SlotInv
    <2>2. mode'[s] = "login" /\ active'[s] /\ Accepted(s)'
      BY DEF Accept, Accepted, TypeOK
    <2>3. QED
      BY <1>1, <2>1, <2>2
      DEF Accept, SlotInv, OffStage, LoginStage, PlayStage, HungStage, gameVars
  <1>2. CASE r # s
    BY <1>2, Bystander DEF Accept, JoinStages, gameVars, TypeOK
  <1>3. QED
    BY <1>1, <1>2

LEMMA StagesGreet ==
    ASSUME IInv, NEW s \in Slots, Greet(s)
    PROVE  JoinStages'
  <1> SUFFICES ASSUME NEW r \in Slots PROVE SlotInv(r)'
    BY DEF JoinStages
  <1> USE DEF IInv
  <1>1. CASE r = s
    <2>1. mode[s] \in {"off", "login"} /\ OffStage(s) /\ LoginStage(s)
      BY DEF Greet, JoinStages, SlotInv, PlayStage, HungStage, TypeOK
    <2>2. UNCHANGED <<active, clientVars>> /\ OffStage(s)'
      BY <2>1 DEF Greet, OffStage, clientVars
    <2>3. ASSUME mode[s] = "login" PROVE LoginUnread(s)'
      <3>1. toClient[s] = <<>> /\ toServer[s] = <<Login>>
        BY <2>1, <2>3 DEF Greet, LoginStage, Accepted, LoginUnread, SnapshotSent
      <3>2. toClient'[s] = <<Cid(s)>> /\ toServer'[s] = <<Login>>
        BY <3>1, ShortSequences DEF Greet, Send, TypeOK
      <3>3. QED
        BY <3>2 DEF Greet, LoginUnread, TypeOK
    <2>4. QED
      BY <1>1, <2>1, <2>2, <2>3
      DEF SlotInv, OffStage, LoginStage, PlayStage, HungStage, clientVars
  <1>2. CASE r # s
    BY <1>2, Bystander DEF Greet, Send, JoinStages, gameVars, clientVars, TypeOK
  <1>3. QED
    BY <1>1, <1>2

LEMMA StagesTurn ==
    ASSUME IInv, NEW n \in FrameCounts, Turn(n)
    PROVE  JoinStages'
  <1> SUFFICES ASSUME NEW r \in Slots PROVE SlotInv(r)'
    BY DEF JoinStages
  <1> USE DEF IInv
  <1>1. SlotInv(r) /\ ~needsGreeting[r] /\ (active[r] => ~waiting[r])
    BY DEF Turn, JoinStages, Greeted, NoneWaits
  <1>2. mode[r] # "login"
    BY <1>1 DEF SlotInv, LoginStage, Accepted, LoginUnread, SnapshotSent
  <1>3. UNCHANGED <<active, needsGreeting, clientVars, toServer>>
    BY DEF Turn
  <1>4. ASSUME mode[r] = "play" PROVE InGame(r)'
    <2>1. InGame(r) /\ active[r] /\ ~waiting[r]
      BY <1>1, <1>4 DEF SlotInv, PlayStage, Confirming
    <2>2. TurnMsg(n, bulk) \in Turns
      BY DEF TypeOK, Turns, TurnMsg
    <2>3. toClient'[r] = Append(toClient[r], TurnMsg(n, bulk)) /\ waiting'[r]
      BY <2>1 DEF Turn
    <2>4. toClient'[r] \in Seq(Turns) /\ Len(toClient'[r]) = Len(toClient[r]) + 1
      BY <2>1, <2>2, <2>3 DEF InGame
    <2>5. Len(toClient[r]) \in Nat /\ Len(toServer[r]) \in Nat
      BY DEF TypeOK
    <2>6. Credit(r)' \in 1 .. 2
      <3>1. Len(toServer'[r]) = Len(toServer[r]) /\ Due(clientWaiting'[r]) = Due(clientWaiting[r])
        BY <1>3 DEF clientVars
      <3>2. Due(waiting[r]) = 1 /\ Due(waiting'[r]) = 0
        BY <2>1, <2>3 DEF Due
      <3>3. Credit(r)' = (Len(toClient[r]) + 1) + Len(toServer[r]) + 0 + Due(clientWaiting[r])
        BY <2>4, <3>1, <3>2, CreditSum
      <3>4. Len(toClient[r]) + Len(toServer[r]) + Due(waiting[r]) + Due(clientWaiting[r]) \in 1 .. 2
        BY <2>1, CreditSum, Zenon DEF InGame
      <3>5. (Len(toClient[r]) + 1) + Len(toServer[r]) + 0 + Due(clientWaiting[r]) \in 1 .. 2
        BY <2>5, <3>2, <3>4, CreditSum, CreditMoves, Zenon
      <3>6. QED
        BY <3>3, <3>5, Zenon
    <2>7. QED
      BY <1>3, <2>1, <2>4, <2>6 DEF InGame, clientVars
  <1>5. QED
    BY <1>1, <1>2, <1>3, <1>4
    DEF SlotInv, OffStage, LoginStage, PlayStage, HungStage, clientVars

\* Reading from a connection: the other slots do not notice, and what a client
\* in the game has sent are its orders, or first its confirmation.
LEMMA ReadPlay ==
    ASSUME IInv, NEW s \in Slots, NEW type, ServerReads(s, type), mode[s] = "play"
    PROVE  \/ type = "CONFIRM" /\ Confirming(s)
           \/ /\ type = "CMDS" /\ InGame(s)
              /\ toServer'[s] \in Seq(OwnPost(s))
              /\ Len(toServer'[s]) = Len(toServer[s]) - 1
  <1> USE DEF IInv
  <1>1. toServer[s] # <<>> /\ Head(toServer[s]).type = type /\ toServer'[s] = Tail(toServer[s])
    BY DEF ServerReads, Arrived, Receive, TypeOK
  <1>2. CASE Confirming(s)
    <2>1. Head(toServer[s]) = Confirm
      BY <1>2, ShortSequences DEF Confirming, TypeOK
    <2>2. QED
      BY <1>1, <1>2, <2>1 DEF Confirm
  <1>3. CASE InGame(s)
    <2>1. Head(toServer[s]) \in OwnPost(s)
      BY <1>1, <1>3 DEF InGame
    <2>2. QED
      BY <1>1, <1>3, <2>1, HeadTailProperties DEF InGame, OwnPost
  <1>4. QED
    BY <1>2, <1>3 DEF JoinStages, SlotInv, PlayStage

LEMMA ReadLoginStage ==
    ASSUME IInv, NEW s \in Slots, NEW type, ServerReads(s, type), mode[s] = "login"
    PROVE  type = "LOGIN" /\ LoginUnread(s) /\ toServer'[s] = <<>>
  <1> USE DEF IInv
  <1>1. toServer[s] # <<>> /\ Head(toServer[s]).type = type /\ toServer'[s] = Tail(toServer[s])
    BY DEF ServerReads, Arrived, Receive, TypeOK
  <1>2. LoginUnread(s)
    BY <1>1 DEF ServerReads, JoinStages, SlotInv, LoginStage, Accepted, SnapshotSent
  <1>3. QED
    BY <1>1, <1>2, ShortSequences DEF LoginUnread, Login

LEMMA ReadHung ==
    ASSUME IInv, NEW s \in Slots, NEW type, ServerReads(s, type), mode[s] = "hung"
    PROVE  type = "CMDS" /\ toServer'[s] \in Seq(OwnPost(s))
  <1> USE DEF IInv
  <1>1. toServer[s] # <<>> /\ Head(toServer[s]).type = type /\ toServer'[s] = Tail(toServer[s])
    BY DEF ServerReads, Arrived, Receive, TypeOK
  <1>2. toServer[s] \in Seq(OwnPost(s))
    BY DEF JoinStages, SlotInv, HungStage
  <1>3. Head(toServer[s]) \in OwnPost(s) /\ Tail(toServer[s]) \in Seq(OwnPost(s))
    BY <1>1, <1>2, HeadTailProperties
  <1>4. QED
    BY <1>1, <1>3 DEF OwnPost

LEMMA StagesReadCmds ==
    ASSUME IInv, NEW s \in Slots, ReadCmds(s)
    PROVE  JoinStages'
  <1> SUFFICES ASSUME NEW r \in Slots PROVE SlotInv(r)'
    BY DEF JoinStages
  <1> USE DEF IInv
  <1>1. CASE r = s
    <2>1. SlotInv(s) /\ ServerReads(s, "CMDS") /\ mode[s] # "login"
      BY ReadLoginStage DEF ReadCmds, JoinStages
    <2>2. UNCHANGED <<active, needsGreeting, serverSim, clientVars, toClient>> /\ ~waiting'[s]
      BY DEF ReadCmds, TypeOK
    <2>3. ASSUME mode[s] = "play" PROVE InGame(s)'
      <3>1. /\ InGame(s)
            /\ toServer'[s] \in Seq(OwnPost(s))
            /\ Len(toServer'[s]) = Len(toServer[s]) - 1
        BY <2>1, <2>3, ReadPlay
      <3>2. clientWaiting' = clientWaiting /\ toClient' = toClient
        BY <2>2 DEF clientVars
      <3>3. Len(toClient[s]) \in Nat /\ Len(toServer[s]) \in Nat /\ Len(toServer'[s]) \in Nat
        <4>1. toClient[s] \in Seq(ToClientMsg) /\ toServer[s] \in Seq(ToServerMsg)
          BY DEF TypeOK
        <4> QED
          BY <3>1, <4>1
      <3>4. Credit(s)' \in 1 .. 2
        <4>1. Due(waiting'[s]) = 1 /\ Due(clientWaiting'[s]) = Due(clientWaiting[s])
          BY <2>2, <3>2 DEF Due
        <4>2. Credit(s)' = Len(toClient[s]) + (Len(toServer[s]) - 1) + 1 + Due(clientWaiting[s])
          BY <3>1, <3>2, <4>1, CreditSum
        <4>3. Len(toServer[s]) >= 1
          BY <3>1, <3>3
        <4>4. Len(toClient[s]) + Len(toServer[s]) + Due(waiting[s]) + Due(clientWaiting[s]) \in 1 .. 2
          BY <3>1, CreditSum, Zenon DEF InGame
        <4>5. Len(toClient[s]) + (Len(toServer[s]) - 1) + 1 + Due(clientWaiting[s]) \in 1 .. 2
          BY <3>3, <4>3, <4>4, CreditSum, CreditMoves, Zenon
        <4>6. QED
          BY <4>2, <4>5, Zenon
      <3>5. QED
        BY <3>1, <3>2, <3>4 DEF InGame
    <2>4. ASSUME mode[s] = "hung" PROVE toServer'[s] \in Seq(OwnPost(s))
      BY <2>1, <2>4, ReadHung
    <2>5. QED
      BY <1>1, <2>1, <2>2, <2>3, <2>4
      DEF SlotInv, OffStage, LoginStage, PlayStage, HungStage, clientVars
  <1>2. CASE r # s
    BY <1>2, Bystander
    DEF ReadCmds, ServerReads, Receive, JoinStages, clientVars, TypeOK
  <1>3. QED
    BY <1>1, <1>2

LEMMA StagesReadConfirm ==
    ASSUME IInv, NEW s \in Slots, ReadConfirm(s)
    PROVE  JoinStages'
  <1> SUFFICES ASSUME NEW r \in Slots PROVE SlotInv(r)'
    BY DEF JoinStages
  <1> USE DEF IInv
  <1>1. CASE r = s
    <2>1. SlotInv(s) /\ ServerReads(s, "CONFIRM") /\ mode[s] # "login" /\ mode[s] # "hung"
      BY ReadLoginStage, ReadHung DEF ReadConfirm, JoinStages
    <2>2. UNCHANGED <<active, needsGreeting, gameVars, clientVars, toClient>> /\ ~waiting'[s]
      BY DEF ReadConfirm, TypeOK
    <2>3. ASSUME mode[s] = "play" PROVE InGame(s)'
      <3>1. Confirming(s)
        BY <2>1, <2>3, ReadPlay
      <3>2. toServer'[s] = Tail(toServer[s]) /\ toServer[s] \in Seq(ToServerMsg)
        BY <2>1 DEF ServerReads, Receive, TypeOK
      <3>3. clientWaiting'[s] = clientWaiting[s] /\ toClient'[s] = <<>>
        BY <2>2, <3>1 DEF clientVars, Confirming
      <3>4. CASE toServer[s] = <<Confirm>> /\ ~clientWaiting[s]
        <4>1. toServer'[s] = <<>>
          BY <3>2, <3>4, ShortSequences
        <4>2. QED
          BY <2>2, <3>3, <3>4, <4>1, EmptySeq DEF InGame, Credit
      <3>5. CASE /\ clientWaiting[s]
                 /\ Len(toServer[s]) = 2 /\ toServer[s][2] \in OwnPost(s)
        <4>1. Len(toServer'[s]) = 1 /\ toServer'[s][1] = toServer[s][2]
              /\ toServer'[s] \in Seq(ToServerMsg)
          BY <3>2, <3>5, HeadTailProperties
        <4>2. toServer'[s] \in Seq(OwnPost(s))
          BY <3>5, <4>1
        <4>3. QED
          BY <2>2, <3>3, <3>5, <4>1, <4>2, EmptySeq DEF InGame, Credit
      <3>6. QED
        BY <3>1, <3>4, <3>5 DEF Confirming
    <2>4. QED
      BY <1>1, <2>1, <2>2, <2>3
      DEF SlotInv, OffStage, LoginStage, PlayStage, HungStage, clientVars
  <1>2. CASE r # s
    BY <1>2, Bystander
    DEF ReadConfirm, ServerReads, Receive, JoinStages, clientVars, gameVars, TypeOK
  <1>3. QED
    BY <1>1, <1>2

LEMMA StagesReadLogin ==
    ASSUME IInv, NEW s \in Slots, ReadLogin(s)
    PROVE  JoinStages'
  <1> SUFFICES ASSUME NEW r \in Slots PROVE SlotInv(r)'
    BY DEF JoinStages
  <1> USE DEF IInv
  <1>1. CASE r = s
    <2>1. SlotInv(s) /\ ServerReads(s, "LOGIN") /\ mode[s] # "play" /\ mode[s] # "hung"
      BY ReadPlay, ReadHung DEF ReadLogin, JoinStages
    <2>2. /\ UNCHANGED <<connVars, serverSim, clientVars>>
          /\ toClient'[s] = Append(toClient[s], Snapshot(serverSim))
      BY DEF ReadLogin, Send, TypeOK
    <2>3. ASSUME mode[s] = "login" PROVE SnapshotSent(s)'
      <3>1. LoginUnread(s) /\ toServer'[s] = <<>>
        BY <2>1, <2>3, ReadLoginStage
      <3>2. CASE toClient[s] = <<Cid(s)>>
        <4>1. toClient'[s] = <<Cid(s), Snapshot(serverSim)>>
          BY <2>2, <3>2, AppendToOne
        <4>2. QED
          BY <2>2, <3>1, <4>1 DEF SnapshotSent, LoginUnread, Cid, Snapshot, connVars
      <3>3. CASE toClient[s] = <<>> /\ clientId[s] = s
        <4>1. toClient'[s] = <<Snapshot(serverSim)>>
          BY <2>2, <3>3, ShortSequences
        <4>2. QED
          BY <2>2, <3>1, <3>3, <4>1 DEF SnapshotSent, LoginUnread, Snapshot, connVars, clientVars
      <3>4. QED
        BY <3>1, <3>2, <3>3 DEF LoginUnread
    <2>4. QED
      BY <1>1, <2>1, <2>2, <2>3
      DEF SlotInv, OffStage, LoginStage, PlayStage, HungStage, clientVars, connVars
  <1>2. CASE r # s
    BY <1>2, Bystander
    DEF ReadLogin, ServerReads, Receive, Send, JoinStages, clientVars, connVars, TypeOK
  <1>3. QED
    BY <1>1, <1>2

LEMMA StagesReadEof ==
    ASSUME IInv, NEW s \in Slots, ReadEof(s)
    PROVE  JoinStages'
  <1> SUFFICES ASSUME NEW r \in Slots PROVE SlotInv(r)'
    BY DEF JoinStages
  <1> USE DEF IInv
  <1>1. CASE r = s
    <2>1. /\ SlotInv(s) /\ mode[s] # "play" /\ mode[s] # "hung" /\ mode[s] # "login"
      BY ReadPlay, ReadHung, ReadLoginStage DEF ReadEof, JoinStages
    <2>2. QED
      BY <1>1, <2>1
      DEF ReadEof, SlotInv, OffStage, LoginStage, PlayStage, HungStage, clientVars
  <1>2. CASE r # s
    BY <1>2, Bystander
    DEF ReadEof, ServerReads, Receive, JoinStages, clientVars, gameVars, TypeOK
  <1>3. QED
    BY <1>1, <1>2

\* What a client can receive says in which stage it is.
LEMMA RecvLogin ==
    ASSUME IInv, NEW c \in Slots, NEW type, Arrived(toClient, c, type), mode[c] = "login"
    PROVE  \/ /\ type = "CID" /\ ~needsGreeting[c] /\ waiting[c] /\ Head(toClient[c]) = Cid(c)
              /\ \/ LoginUnread(c) /\ Tail(toClient[c]) = <<>>
                 \/ SnapshotSent(c) /\ Tail(toClient[c]) = <<Snapshot(serverSim)>>
           \/ /\ type = "SNAPSHOT" /\ SnapshotSent(c) /\ clientId[c] = c
              /\ Head(toClient[c]) = Snapshot(serverSim) /\ Tail(toClient[c]) = <<>>
  <1> USE DEF IInv
  <1>1. toClient[c] # <<>> /\ Head(toClient[c]).type = type
    BY DEF Arrived
  <1>2. LoginUnread(c) \/ SnapshotSent(c)
    BY <1>1 DEF JoinStages, SlotInv, LoginStage, Accepted
  <1>3. CASE toClient[c] = <<Cid(c)>> /\ LoginUnread(c)
    BY <1>1, <1>3, ShortSequences DEF LoginUnread, Cid
  <1>4. CASE toClient[c] = <<Cid(c), Snapshot(serverSim)>> /\ SnapshotSent(c)
    BY <1>1, <1>4, ShortSequences DEF SnapshotSent, Cid
  <1>5. CASE toClient[c] = <<Snapshot(serverSim)>> /\ clientId[c] = c /\ SnapshotSent(c)
    BY <1>1, <1>5, ShortSequences DEF Snapshot
  <1>6. QED
    BY <1>1, <1>2, <1>3, <1>4, <1>5 DEF LoginUnread, SnapshotSent

LEMMA RecvPlay ==
    ASSUME IInv, NEW c \in Slots, NEW type, Arrived(toClient, c, type), mode[c] = "play"
    PROVE  /\ type = "CMDS" /\ InGame(c)
           /\ Tail(toClient[c]) \in Seq(Turns)
           /\ Len(Tail(toClient[c])) = Len(toClient[c]) - 1
  <1> USE DEF IInv
  <1>1. toClient[c] # <<>> /\ Head(toClient[c]).type = type
    BY DEF Arrived
  <1>2. InGame(c)
    BY <1>1 DEF JoinStages, SlotInv, PlayStage, Confirming
  <1>3. toClient[c] \in Seq(Turns)
    BY <1>2 DEF InGame
  <1>4. /\ Head(toClient[c]) \in Turns /\ Tail(toClient[c]) \in Seq(Turns)
        /\ Len(Tail(toClient[c])) = Len(toClient[c]) - 1
    BY <1>1, <1>3, HeadTailProperties
  <1>5. QED
    BY <1>1, <1>2, <1>4 DEF Turns

LEMMA StagesRecvCid ==
    ASSUME IInv, NEW c \in Slots, RecvCid(c)
    PROVE  JoinStages'
  <1> SUFFICES ASSUME NEW r \in Slots PROVE SlotInv(r)'
    BY DEF JoinStages
  <1> USE DEF IInv
  <1>1. CASE r = c
    <2>1. SlotInv(c) /\ mode[c] = "login" /\ Arrived(toClient, c, "CID")
      BY RecvPlay DEF RecvCid, Reads, JoinStages
    <2>2. /\ ~needsGreeting[c] /\ waiting[c] /\ Head(toClient[c]) = Cid(c)
          /\ \/ LoginUnread(c) /\ Tail(toClient[c]) = <<>>
             \/ SnapshotSent(c) /\ Tail(toClient[c]) = <<Snapshot(serverSim)>>
      BY <2>1, RecvLogin
    <2>3. toClient'[c] = Tail(toClient[c]) /\ clientId'[c] = c
      <3>1. toClient' = Receive(toClient, c)
            /\ clientId' = [clientId EXCEPT ![c] = Head(toClient[c]).id]
        BY Zenon DEF RecvCid
      <3>2. Head(toClient[c]).id = c
        BY <2>2 DEF Cid
      <3>3. toClient'[c] = Tail(toClient[c])
        BY <3>1 DEF Receive, TypeOK
      <3>4. clientId'[c] = c
        BY <3>1, <3>2 DEF TypeOK
      <3> QED
        BY <3>3, <3>4
    <2>4. /\ UNCHANGED <<connVars, gameVars, mode, clientWaiting, clientTicks, clientIn,
                         clientOut, clientSim, toServer>>
      BY DEF RecvCid
    <2>5. LoginUnread(c)' \/ SnapshotSent(c)'
      BY <2>2, <2>3, <2>4 DEF LoginUnread, SnapshotSent, Snapshot, connVars, gameVars
    <2>6. QED
      BY <1>1, <2>1, <2>4, <2>5
      DEF SlotInv, OffStage, LoginStage, PlayStage, HungStage, connVars
  <1>2. CASE r # c
    BY <1>2, Bystander DEF RecvCid, Receive, JoinStages, connVars, gameVars, TypeOK
  <1>3. QED
    BY <1>1, <1>2

LEMMA StagesRecvSnapshot ==
    ASSUME IInv, NEW c \in Slots, RecvSnapshot(c)
    PROVE  JoinStages' /\ clientId[c] \in Slots
  <1> USE DEF IInv
  <1>1. /\ mode[c] = "login" /\ SnapshotSent(c) /\ clientId[c] = c /\ LoginStage(c)
        /\ Head(toClient[c]) = Snapshot(serverSim) /\ Tail(toClient[c]) = <<>>
    BY RecvLogin DEF RecvSnapshot, JoinStages, SlotInv
  <1> SUFFICES ASSUME NEW r \in Slots PROVE SlotInv(r)'
    BY <1>1 DEF JoinStages
  <1>2. CASE r = c
    <2>1. UNCHANGED <<connVars, gameVars, clientId, clientWaiting, clientTicks, clientIn>>
      BY DEF RecvSnapshot
    <2>2. /\ toClient'[c] = <<>> /\ clientSim'[c] = serverSim /\ mode'[c] = "play"
      <3>1. Head(toClient[c]).sim = serverSim
        BY <1>1 DEF Snapshot
      <3>2. QED
        BY <1>1, <3>1 DEF RecvSnapshot, Receive, TypeOK
    <2>3. toServer'[c] = <<Confirm>>
      BY <1>1, ShortSequences DEF RecvSnapshot, Send, SnapshotSent, TypeOK
    <2>4. clientOut'[c] \in Seq(OwnCommand(c))
      <3>1. clientOut[c] = <<>> /\ [kind |-> "SetLogin", sender |-> c] \in OwnCommand(c)
        BY <1>1 DEF LoginStage, OwnCommand
      <3>2. clientOut'[c] = Append(<<>>, [kind |-> "SetLogin", sender |-> c])
        BY <1>1, <3>1 DEF RecvSnapshot, TypeOK
      <3>3. QED
        BY <3>1, <3>2
    <2>5. Confirming(c)'
      <3>1. waiting[c] /\ ~clientWaiting[c] /\ clientTicks[c] = 0 /\ clientIn[c] = <<>>
        BY <1>1 DEF SnapshotSent, LoginStage
      <3>2. UNCHANGED <<waiting, serverSim, clientWaiting, clientTicks, clientIn>>
        BY <2>1 DEF connVars, gameVars
      <3>3. QED
        BY <2>2, <2>3, <3>1, <3>2 DEF Confirming
    <2>6. QED
      BY <1>1, <1>2, <2>1, <2>2, <2>4, <2>5
      DEF SlotInv, OffStage, LoginStage, PlayStage, HungStage, SnapshotSent, connVars
  <1>3. CASE r # c
    BY <1>3, Bystander DEF RecvSnapshot, Receive, Send, JoinStages, connVars, gameVars, TypeOK
  <1>4. QED
    BY <1>2, <1>3

LEMMA CreditAfterTurn ==
    ASSUME IInv, NEW c \in Slots, InGame(c),
           Len(toClient'[c]) = Len(toClient[c]) - 1, Len(toClient[c]) >= 1,
           toServer'[c] = toServer[c], waiting'[c] = waiting[c], ~clientWaiting'[c]
    PROVE  Credit(c)' \in 1 .. 2
  <1>1. Len(toClient[c]) \in Nat /\ Len(toServer[c]) \in Nat
    BY DEF IInv, TypeOK
  <1>2. Len(toClient[c]) + Len(toServer[c]) + Due(waiting[c]) + Due(clientWaiting[c]) \in 1 .. 2
    BY CreditSum, Zenon DEF InGame
  <1>3. Due(clientWaiting'[c]) = 1 /\ Due(waiting'[c]) = Due(waiting[c])
    BY DEF Due
  <1>4. Credit(c)' = (Len(toClient[c]) - 1) + Len(toServer[c]) + Due(waiting[c]) + 1
    BY <1>3, CreditSum
  <1>5. (Len(toClient[c]) - 1) + Len(toServer[c]) + Due(waiting[c]) + 1 \in 1 .. 2
    BY <1>1, <1>2, CreditSum, CreditMoves, Zenon
  <1>6. QED
    BY <1>4, <1>5, Zenon

LEMMA StagesRecvTurn ==
    ASSUME IInv, NEW c \in Slots, RecvTurn(c)
    PROVE  JoinStages'
  <1> SUFFICES ASSUME NEW r \in Slots PROVE SlotInv(r)'
    BY DEF JoinStages
  <1> USE DEF IInv
  <1>1. CASE r = c
    <2>1. Arrived(toClient, c, "CMDS") /\ mode[c] = "play"
      BY RecvLogin DEF RecvTurn, Reads
    <2>2. /\ InGame(c) /\ PlayStage(c) /\ toClient'[c] = Tail(toClient[c])
          /\ toClient'[c] \in Seq(Turns) /\ Len(toClient'[c]) = Len(toClient[c]) - 1
      BY <2>1, RecvPlay DEF RecvTurn, Receive, JoinStages, SlotInv, TypeOK
    <2>3. /\ UNCHANGED <<connVars, gameVars, mode, clientId, clientOut, toServer>>
          /\ ~clientWaiting'[c]
      BY DEF RecvTurn, TypeOK
    <2>4. Len(toClient[c]) >= 1
      BY <2>1 DEF Arrived, TypeOK
    <2>5. Credit(c)' \in 1 .. 2
      BY <2>2, <2>3, <2>4, CreditAfterTurn DEF connVars
    <2>6. InGame(c)'
      BY <2>2, <2>3, <2>5 DEF InGame
    <2>7. QED
      BY <1>1, <2>1, <2>2, <2>3, <2>6
      DEF SlotInv, OffStage, LoginStage, PlayStage, HungStage, connVars
  <1>2. CASE r # c
    BY <1>2, Bystander
    DEF RecvTurn, CatchUp, Receive, JoinStages, connVars, gameVars, TypeOK
  <1>3. QED
    BY <1>1, <1>2

LEMMA StagesRecvGarbledTurn ==
    ASSUME IInv, NEW c \in Slots, RecvGarbledTurn(c)
    PROVE  JoinStages'
  <1> SUFFICES ASSUME NEW r \in Slots PROVE SlotInv(r)'
    BY DEF JoinStages
  <1> USE DEF IInv
  <1>1. CASE r = c
    <2>1. Arrived(toClient, c, "CMDS") /\ mode[c] = "play"
      BY RecvLogin DEF RecvGarbledTurn, Reads
    <2>2. InGame(c) /\ PlayStage(c)
      BY <2>1, RecvPlay DEF JoinStages, SlotInv
    <2>3. /\ UNCHANGED <<connVars, gameVars, clientId, clientOut, toServer>>
          /\ mode'[c] = "hung"
      BY DEF RecvGarbledTurn, TypeOK
    <2>4. QED
      BY <1>1, <2>1, <2>2, <2>3
      DEF SlotInv, OffStage, LoginStage, PlayStage, HungStage, InGame, connVars
  <1>2. CASE r # c
    BY <1>2, Bystander
    DEF RecvGarbledTurn, CatchUp, Receive, JoinStages, connVars, gameVars, TypeOK
  <1>3. QED
    BY <1>1, <1>2

LEMMA CreditAfterPost ==
    ASSUME IInv, NEW c \in Slots, InGame(c),
           Len(toServer'[c]) = Len(toServer[c]) + 1, ~clientWaiting[c],
           toClient'[c] = toClient[c], waiting'[c] = waiting[c], clientWaiting'[c]
    PROVE  Credit(c)' \in 1 .. 2
  <1>1. Len(toClient[c]) \in Nat /\ Len(toServer[c]) \in Nat
    BY DEF IInv, TypeOK
  <1>2. Len(toClient[c]) + Len(toServer[c]) + Due(waiting[c]) + Due(clientWaiting[c]) \in 1 .. 2
    BY CreditSum, Zenon DEF InGame
  <1>3. Due(clientWaiting'[c]) = 0 /\ Due(clientWaiting[c]) = 1 /\ Due(waiting'[c]) = Due(waiting[c])
    BY DEF Due
  <1>4. Credit(c)' = Len(toClient[c]) + (Len(toServer[c]) + 1) + Due(waiting[c]) + 0
    BY <1>3, CreditSum
  <1>5. Due(waiting[c]) \in {0, 1} /\ Due(clientWaiting[c]) \in {0, 1} /\ Due(clientWaiting[c]) = 1
    BY <1>3, CreditSum
  <1>6. Len(toClient[c]) + (Len(toServer[c]) + 1) + Due(waiting[c]) + 0 \in 1 .. 2
    BY <1>1, <1>2, <1>5, CreditMoves, Zenon
  <1>7. QED
    BY <1>4, <1>6, Zenon

LEMMA StagesClientFrame ==
    ASSUME IInv, NEW c \in Slots, NEW typed \in Seq(OwnCommand(c)), NEW timerDue \in BOOLEAN,
           ClientFrame(c, typed, timerDue)
    PROVE  JoinStages'
  <1> SUFFICES ASSUME NEW r \in Slots PROVE SlotInv(r)'
    BY DEF JoinStages
  <1> USE DEF IInv
  <1>1. CASE r = c
    <2>1. /\ UNCHANGED <<connVars, gameVars, mode, clientId, toClient>>
          /\ mode[c] = "play" /\ PlayStage(c) /\ RunFrame(c)
          /\ LogicTick(c, clientOut[c] \o typed, timerDue)
      BY DEF ClientFrame, JoinStages, SlotInv
    <2> DEFINE orders == clientOut[c] \o typed
    <2>2. orders \in Seq(OwnCommand(c)) /\ Post(orders) \in OwnPost(c)
      BY <2>1 DEF PlayStage, Post, OwnPost
    <2> HIDE DEF orders
    <2>3. CASE clientWaiting[c] \/ ~timerDue
      <3>1. UNCHANGED <<toServer, clientWaiting>> /\ clientOut'[c] = orders
        BY <2>1, <2>3 DEF LogicTick, TypeOK, orders
      <3>2. ASSUME Confirming(c) PROVE Confirming(c)'
        BY <2>1, <3>1, <3>2 DEF Confirming, RunFrame, connVars, gameVars
      <3>3. ASSUME InGame(c) PROVE InGame(c)'
        BY <2>1, <3>1, <3>3 DEF InGame, Credit, connVars
      <3>4. QED
        BY <1>1, <2>1, <2>2, <3>1, <3>2, <3>3
        DEF SlotInv, OffStage, LoginStage, PlayStage, HungStage, connVars
    <2>4. CASE ~(clientWaiting[c] \/ ~timerDue)
      <3>1. /\ toServer' = Send(toServer, c, Post(orders))
            /\ clientOut' = [clientOut EXCEPT ![c] = <<>>]
            /\ clientWaiting' = [clientWaiting EXCEPT ![c] = TRUE]
        BY <2>1, <2>4, Zenon DEF LogicTick, orders
      <3>2. /\ toServer'[c] = Append(toServer[c], Post(orders))
            /\ clientOut'[c] = <<>> /\ clientWaiting'[c]
        BY <3>1 DEF Send, TypeOK
      <3>3. clientOut'[c] \in Seq(OwnCommand(c))
        BY <3>2
      <3>4. ASSUME Confirming(c) PROVE Confirming(c)'
        <4>1. toServer[c] = <<Confirm>>
          BY <2>4, <3>4 DEF Confirming
        <4>2. toServer'[c] = <<Confirm, Post(orders)>>
          BY <3>2, <4>1, AppendToOne
        <4>3. Len(toServer'[c]) = 2 /\ toServer'[c][1] = Confirm /\ toServer'[c][2] \in OwnPost(c)
          BY <2>2, <4>2
        <4>4. /\ waiting'[c] /\ toClient'[c] = <<>> /\ clientSim'[c] = serverSim'
              /\ clientTicks'[c] = 0 /\ clientIn'[c] = <<>>
          BY <2>1, <3>4 DEF Confirming, RunFrame, connVars, gameVars
        <4>5. QED
          BY <3>2, <4>3, <4>4 DEF Confirming
      <3>5. ASSUME InGame(c) PROVE InGame(c)'
        <4>1. /\ toServer'[c] \in Seq(OwnPost(c))
              /\ Len(toServer'[c]) = Len(toServer[c]) + 1
          BY <2>2, <3>2, <3>5, AppendProperties DEF InGame
        <4>2. Credit(c)' \in 1 .. 2
          BY <2>1, <2>4, <3>2, <3>5, <4>1, CreditAfterPost DEF connVars
        <4>3. QED
          BY <2>1, <3>5, <4>1, <4>2 DEF InGame
      <3>6. QED
        BY <1>1, <2>1, <3>3, <3>4, <3>5
        DEF SlotInv, OffStage, LoginStage, PlayStage, HungStage, connVars
    <2>5. QED
      BY <2>3, <2>4
  <1>2. CASE r # c
    <2>1. /\ clientSim'[r] = clientSim[r] /\ clientTicks'[r] = clientTicks[r]
          /\ clientIn'[r] = clientIn[r]
      BY <1>2, RunFrameElsewhere DEF ClientFrame
    <2>2. /\ toServer'[r] = toServer[r] /\ clientOut'[r] = clientOut[r]
          /\ clientWaiting'[r] = clientWaiting[r]
      <3> DEFINE orders == clientOut[c] \o typed
      <3>1. \/ /\ clientOut' = [clientOut EXCEPT ![c] = orders]
               /\ UNCHANGED <<toServer, clientWaiting>>
            \/ /\ toServer' = Send(toServer, c, Post(orders))
               /\ clientOut' = [clientOut EXCEPT ![c] = <<>>]
               /\ clientWaiting' = [clientWaiting EXCEPT ![c] = TRUE]
        BY Zenon DEF ClientFrame, LogicTick
      <3> HIDE DEF orders
      <3>2. QED
        BY <1>2, <3>1 DEF Send, TypeOK
    <2>3. UNCHANGED <<connVars, gameVars, mode, clientId, toClient>>
      BY DEF ClientFrame
    <2>4. QED
      BY <2>1, <2>2, <2>3, Bystander DEF JoinStages, connVars, gameVars
  <1>3. QED
    BY <1>1, <1>2

LEMMA StagesLeave ==
    ASSUME IInv, NEW c \in Slots, NEW sent, Leave(c, sent)
    PROVE  JoinStages'
  <1> SUFFICES ASSUME NEW r \in Slots PROVE SlotInv(r)'
    BY DEF JoinStages
  <1> USE DEF IInv
  <1>1. CASE r = c
    BY <1>1 DEF Leave, TypeOK, SlotInv, OffStage, LoginStage, PlayStage, HungStage
  <1>2. CASE r # c
    BY <1>2, Bystander DEF Leave, JoinStages, connVars, gameVars, TypeOK
  <1>3. QED
    BY <1>1, <1>2

-----------------------------------------------------------------------------
(* The invariant and its consequences.                                     *)

\* The commands a client in the game gives carry its own id.
LEMMA OwnCommands ==
    ASSUME IInv, NEW c \in Slots, mode[c] = "play"
    PROVE  \A kind \in Orders :
               <<[kind |-> kind, sender |-> clientId[c]]>> \in Seq(OwnCommand(c))
  <1> SUFFICES ASSUME NEW kind \in Orders
               PROVE  <<[kind |-> kind, sender |-> clientId[c]]>> \in Seq(OwnCommand(c))
    OBVIOUS
  <1>1. clientId[c] = c
    BY DEF IInv, JoinStages, SlotInv, PlayStage
  <1>2. [kind |-> kind, sender |-> clientId[c]] \in OwnCommand(c)
    BY <1>1 DEF OwnCommand
  <1> DEFINE own == [kind |-> kind, sender |-> clientId[c]]
  <1>3. \A o \in OwnCommand(c) : <<o>> \in Seq(OwnCommand(c))
    OBVIOUS
  <1>4. QED
    BY <1>2, <1>3

LEMMA OwnIsCommand ==
    ASSUME NEW c \in Slots, NEW cmds \in Seq(OwnCommand(c))
    PROVE  cmds \in Seq(Command)
  <1>1. OwnCommand(c) \subseteq Command
    BY DEF OwnCommand, Command
  <1>2. \A own, all : own \subseteq all => Seq(own) \subseteq Seq(all)
    BY SeqMonotonic
  <1>3. QED
    BY <1>1, <1>2

LEMMA InvFrame ==
    ASSUME IInv, NEW c \in Slots, NEW typed \in Seq(OwnCommand(c)), NEW timerDue \in BOOLEAN,
           ClientFrame(c, typed, timerDue)
    PROVE  IInv'
  BY StagesClientFrame, TypeClientFrame, OwnIsCommand DEF IInv

LEMMA InvStutter ==
    ASSUME IInv, UNCHANGED vars
    PROVE  IInv'
  <1>1. TypeOK'
    BY DEF IInv, TypeOK, vars, connVars, gameVars, clientVars, netVars, boundVars
  <1>2. ASSUME NEW r \in Slots PROVE SlotInv(r)'
    BY Bystander DEF IInv, JoinStages, vars, connVars, gameVars, clientVars, netVars
  <1>3. QED
    BY <1>1, <1>2 DEF IInv, JoinStages

LEMMA InvServerStep ==
    ASSUME IInv, ServerNext
    PROVE  IInv'
  <1>1. ASSUME NEW s \in Slots, Accept(s) PROVE IInv'
    BY <1>1, TypeAccept, StagesAccept DEF IInv
  <1>2. ASSUME NEW s \in Slots, Greet(s) PROVE IInv'
    BY <1>2, TypeGreet, StagesGreet DEF IInv
  <1>3. ASSUME NEW s \in Slots, ReadCmds(s) PROVE IInv'
    BY <1>3, TypeReadCmds, StagesReadCmds DEF IInv
  <1>4. ASSUME NEW s \in Slots, ReadConfirm(s) PROVE IInv'
    BY <1>4, TypeReadConfirm, StagesReadConfirm DEF IInv
  <1>5. ASSUME NEW s \in Slots, ReadLogin(s) PROVE IInv'
    BY <1>5, TypeReadLogin, StagesReadLogin DEF IInv
  <1>6. ASSUME NEW s \in Slots, ReadEof(s) PROVE IInv'
    BY <1>6, TypeReadEof, StagesReadEof DEF IInv
  <1>7. ASSUME NEW n \in FrameCounts, Turn(n) PROVE IInv'
    BY <1>7, TypeTurn, StagesTurn DEF IInv
  <1>8. QED
    BY <1>1, <1>2, <1>3, <1>4, <1>5, <1>6, <1>7 DEF ServerNext

LEMMA InvClientStep ==
    ASSUME IInv, ClientNext
    PROVE  IInv'
  <1>1. PICK c \in Slots :
            \/ RecvCid(c) \/ RecvSnapshot(c) \/ RecvTurn(c) \/ RecvGarbledTurn(c)
            \/ \E timerDue \in BOOLEAN :
                   QuietFrame(c, timerDue) \/ \E kind \in Orders : OrderFrame(c, kind, timerDue)
            \/ \E sent \in 0 .. Len(toServer[c]) : Leave(c, sent)
    BY DEF ClientNext
  <1>2. CASE RecvCid(c)
    BY <1>2, TypeRecvCid, StagesRecvCid DEF IInv
  <1>3. CASE RecvSnapshot(c)
    BY <1>3, TypeRecvSnapshot, StagesRecvSnapshot DEF IInv
  <1>4. CASE RecvTurn(c)
    BY <1>4, TypeRecvTurn, StagesRecvTurn DEF IInv
  <1>5. CASE RecvGarbledTurn(c)
    BY <1>5, TypeRecvGarbledTurn, StagesRecvGarbledTurn DEF IInv
  <1>6. ASSUME NEW timerDue \in BOOLEAN, QuietFrame(c, timerDue) PROVE IInv'
    <2>1. <<>> \in Seq(OwnCommand(c))
      OBVIOUS
    <2>2. QED
      BY <1>6, <2>1, InvFrame DEF QuietFrame
  <1>7. ASSUME NEW timerDue \in BOOLEAN, NEW kind \in Orders, OrderFrame(c, kind, timerDue)
        PROVE  IInv'
    <2>1. mode[c] = "play"
      BY <1>7 DEF OrderFrame, ClientFrame
    <2>2. <<[kind |-> kind, sender |-> clientId[c]]>> \in Seq(OwnCommand(c))
      BY <2>1, OwnCommands
    <2>3. ClientFrame(c, <<[kind |-> kind, sender |-> clientId[c]]>>, timerDue)
      BY <1>7 DEF OrderFrame
    <2>4. QED
      BY <2>2, <2>3, InvFrame
  <1>8. ASSUME NEW sent \in 0 .. Len(toServer[c]), Leave(c, sent) PROVE IInv'
    BY <1>8, TypeLeave, StagesLeave DEF IInv
  <1>9. QED
    BY <1>1, <1>2, <1>3, <1>4, <1>5, <1>6, <1>7, <1>8

\* In every reachable state every slot is in one of the stages of joining and
\* playing (the handshake of tcp_client_state.c with tcp_server_state.c).
THEOREM StagesHold == Spec => []IInv
  <1>1. Init => IInv
    BY TypeInit, StagesInit DEF IInv
  <1>2. IInv /\ [Next]_vars => IInv'
    BY InvServerStep, InvClientStep, InvStutter DEF Next
  <1>3. QED
    BY <1>1, <1>2, PTL DEF Spec

\* The variables of client and server keep their types; no command ever carries
\* the id -1 of a client that has not been greeted.
THEOREM TypeCorrect == Spec => []TypeOK
  <1>1. IInv => TypeOK
    BY DEF IInv
  <1>2. QED
    BY <1>1, StagesHold, PTL

\* No turn is run between a snapshot and its confirmation.
THEOREM SnapshotsStayFresh == Spec => []SnapshotFresh
  <1>1. IInv => SnapshotFresh
    <2> SUFFICES ASSUME IInv, NEW s \in Slots
                 PROVE  /\ mode[s] = "login" =>
                               \A i \in 1 .. Len(toClient[s]) :
                                   toClient[s][i].type = "SNAPSHOT" => toClient[s][i].sim = serverSim
                        /\ mode[s] = "play" /\ Unconfirmed(s) => clientSim[s] = serverSim
      BY DEF SnapshotFresh
    <2>1. SlotInv(s)
      BY DEF IInv, JoinStages
    <2>2. ASSUME mode[s] = "login", NEW i \in 1 .. Len(toClient[s]),
                 toClient[s][i].type = "SNAPSHOT"
          PROVE  toClient[s][i].sim = serverSim
      <3>1. Accepted(s) \/ LoginUnread(s) \/ SnapshotSent(s)
        BY <2>1, <2>2 DEF SlotInv, LoginStage
      <3>2. \/ toClient[s] = <<>> \/ toClient[s] = <<Cid(s)>>
            \/ toClient[s] = <<Cid(s), Snapshot(serverSim)>>
            \/ toClient[s] = <<Snapshot(serverSim)>>
        BY <3>1 DEF Accepted, LoginUnread, SnapshotSent
      <3>3. Cid(s).type # "SNAPSHOT" /\ Snapshot(serverSim).sim = serverSim
        BY DEF Cid, Snapshot
      <3>4. QED
        BY <2>2, <3>2, <3>3
    <2>3. ASSUME mode[s] = "play", Unconfirmed(s)
          PROVE  clientSim[s] = serverSim
      <3>1. PICK i \in 1 .. Len(toServer[s]) : toServer[s][i] = Confirm
        BY <2>3 DEF Unconfirmed
      <3>2. Confirm \notin OwnPost(s)
        BY DEF Confirm, OwnPost
      <3>3. ~InGame(s)
        BY <3>1, <3>2, ElementOfSeq DEF InGame
      <3>4. QED
        BY <2>1, <2>3, <3>3 DEF SlotInv, PlayStage, Confirming
    <2>4. QED
      BY <2>2, <2>3
  <1>2. QED
    BY <1>1, StagesHold, PTL

\* The right to speak of a client in the game is never lost and never more than
\* doubled: there is always a turn, an answer or a party that need not wait.
THEOREM CreditIsKept == Spec => []TurnCredit
  <1>1. IInv => TurnCredit
    <2> SUFFICES ASSUME IInv, NEW s \in Slots, mode[s] = "play"
                 PROVE  Credit(s) \in 1 .. 2
      BY DEF TurnCredit
    <2>1. Confirming(s) \/ InGame(s)
      BY DEF IInv, JoinStages, SlotInv, PlayStage
    <2>2. CASE Confirming(s)
      <3>1. Len(toClient[s]) = 0 /\ Due(waiting[s]) = 0
        <4>1. toClient[s] = <<>> /\ waiting[s]
          BY <2>2 DEF Confirming
        <4>2. QED
          BY <4>1 DEF Due
      <3>2. Len(toServer[s]) + Due(clientWaiting[s]) \in 1 .. 2
        <4>1. CASE toServer[s] = <<Confirm>> /\ ~clientWaiting[s]
          BY <4>1 DEF Due
        <4>2. CASE Len(toServer[s]) = 2 /\ clientWaiting[s]
          BY <4>2 DEF Due
        <4>3. QED
          BY <2>2, <4>1, <4>2 DEF Confirming
      <3>3. \A n \in Nat : \A d \in {0, 1} : n + d \in 1 .. 2 => 0 + n + 0 + d \in 1 .. 2
        OBVIOUS
      <3>4. Len(toServer[s]) \in Nat /\ Due(clientWaiting[s]) \in {0, 1}
        BY CreditSum, LenProperties DEF IInv, TypeOK
      <3>5. 0 + Len(toServer[s]) + 0 + Due(clientWaiting[s]) \in 1 .. 2
        BY <3>2, <3>3, <3>4, Zenon
      <3>6. QED
        BY <3>1, <3>5, CreditSum, Zenon
    <2>3. QED
      BY <2>1, <2>2 DEF InGame
  <1>2. QED
    BY <1>1, StagesHold, PTL

\* Every slot is in one of the stages of the handshake, whatever the players, the
\* network and the server's turns do.
THEOREM StagesAreKept == Spec => []JoinStages
  <1>1. IInv => JoinStages
    BY DEF IInv
  <1>2. QED
    BY <1>1, StagesHold, PTL

\* A client gives and posts orders of its own critter only, since it knows its id
\* before the first one.
THEOREM OrdersAreOwn == Spec => []OwnOrders
  <1>1. IInv => OwnOrders
    <2> SUFFICES ASSUME IInv, NEW s \in Slots, mode[s] \in {"play", "hung"}
                 PROVE  /\ \A i \in 1 .. Len(clientOut[s]) : clientOut[s][i].sender = s
                        /\ \A i \in 1 .. Len(toServer[s]) :
                               toServer[s][i].type = "CMDS" =>
                                   \A j \in 1 .. Len(toServer[s][i].cmds) :
                                       toServer[s][i].cmds[j].sender = s
      BY DEF OwnOrders
    <2>1. PlayStage(s) /\ HungStage(s)
      BY DEF IInv, JoinStages, SlotInv
    <2>2. \A cmds \in Seq(OwnCommand(s)) : \A j \in 1 .. Len(cmds) : cmds[j].sender = s
      <3>1. \A own : \A cmds \in Seq(own) : \A j \in 1 .. Len(cmds) : cmds[j] \in own
        BY ElementOfSeq
      <3>2. \A o \in OwnCommand(s) : o.sender = s
        BY DEF OwnCommand
      <3>3. QED
        BY <3>1, <3>2
    <2>3. clientOut[s] \in Seq(OwnCommand(s))
      BY <2>1 DEF PlayStage, HungStage
    <2>4. ASSUME NEW i \in 1 .. Len(toServer[s]), toServer[s][i].type = "CMDS"
          PROVE  toServer[s][i] \in OwnPost(s)
      <3>1. CASE toServer[s] \in Seq(OwnPost(s))
        BY <3>1, <2>4, ElementOfSeq
      <3>2. CASE toServer[s] = <<Confirm>>
        BY <3>2, <2>4 DEF Confirm
      <3>3. CASE /\ Len(toServer[s]) = 2 /\ toServer[s][1] = Confirm
                 /\ toServer[s][2] \in OwnPost(s)
        BY <3>3, <2>4 DEF Confirm
      <3>4. QED
        BY <2>1, <3>1, <3>2, <3>3
           DEF PlayStage, HungStage, Confirming, InGame
    <2>5. \A m \in OwnPost(s) : m.cmds \in Seq(OwnCommand(s))
      BY DEF OwnPost
    <2>6. QED
      BY <2>2, <2>3, <2>4, <2>5
  <1>2. QED
    BY <1>1, StagesHold, PTL

-----------------------------------------------------------------------------
(* Prefixes.                                                               *)

LEMMA PrefixByElements ==
    ASSUME NEW S, NEW s \in Seq(S), NEW t \in Seq(S)
    PROVE  IsPrefix(s, t) <=> Len(s) <= Len(t) /\ \A i \in 1 .. Len(s) : s[i] = t[i]
  <1>1. ASSUME Len(s) <= Len(t)
        PROVE  SubSeq(s, 1, Len(s)) = SubSeq(t, 1, Len(s)) <=> \A i \in 1 .. Len(s) : s[i] = t[i]
    <2>1. \A i \in 1 .. Len(s) : s[i] \in S /\ t[i] \in S
      BY <1>1, ElementOfSeq
    <2>2. Len(s) \in Nat
      OBVIOUS
    <2> DEFINE n == Len(s)
    <2> HIDE DEF n
    <2>3. n \in Int /\ \A i \in 1 .. n : s[i] \in S /\ t[i] \in S
      BY <2>1, <2>2 DEF n
    <2>4. /\ SubSeq(s, 1, n) \in Seq(S) /\ Len(SubSeq(s, 1, n)) = IF 1 <= n THEN n - 1 + 1 ELSE 0
          /\ \A i \in 1 .. n - 1 + 1 : SubSeq(s, 1, n)[i] = s[1 + i - 1]
      BY <2>3, SubSeqProperties
    <2>5. /\ SubSeq(t, 1, n) \in Seq(S) /\ Len(SubSeq(t, 1, n)) = IF 1 <= n THEN n - 1 + 1 ELSE 0
          /\ \A i \in 1 .. n - 1 + 1 : SubSeq(t, 1, n)[i] = t[1 + i - 1]
      BY <2>3, SubSeqProperties
    <2>6. n \in Nat
      BY <2>2 DEF n
    <2>7. /\ Len(SubSeq(s, 1, n)) = n /\ Len(SubSeq(t, 1, n)) = n
          /\ \A i \in 1 .. n : SubSeq(s, 1, n)[i] = s[i] /\ SubSeq(t, 1, n)[i] = t[i]
      BY <2>4, <2>5, <2>6
    <2>8. SubSeq(s, 1, n) = SubSeq(t, 1, n) <=> \A i \in 1 .. n : s[i] = t[i]
      BY <2>4, <2>5, <2>7, SeqEqual
    <2> QED
      BY <2>8 DEF n
  <1> QED
    BY <1>1 DEF IsPrefix

LEMMA PrefixOfItself ==
    ASSUME NEW S, NEW s \in Seq(S)
    PROVE  IsPrefix(s, s)
  BY PrefixByElements

LEMMA PrefixOfConcat ==
    ASSUME NEW S, NEW s \in Seq(S), NEW t \in Seq(S)
    PROVE  IsPrefix(s, s \o t)
  <1>1. /\ s \o t \in Seq(S) /\ Len(s \o t) = Len(s) + Len(t)
        /\ \A i \in 1 .. Len(s) + Len(t) : (s \o t)[i] =
                IF i <= Len(s) THEN s[i] ELSE t[i - Len(s)]
    BY ConcatProperties
  <1>2. Len(s) \in Nat /\ Len(t) \in Nat
    OBVIOUS
  <1>3. Len(s) <= Len(s \o t) /\ \A i \in 1 .. Len(s) : s[i] = (s \o t)[i]
    BY <1>1, <1>2
  <1> QED
    BY <1>1, <1>3, PrefixByElements

LEMMA PrefixTransitive ==
    ASSUME NEW S, NEW s \in Seq(S), NEW t \in Seq(S), NEW u \in Seq(S),
           IsPrefix(s, t), IsPrefix(t, u)
    PROVE  IsPrefix(s, u)
  <1>1. Len(s) \in Nat /\ Len(t) \in Nat /\ Len(u) \in Nat
    OBVIOUS
  <1>2. Len(s) <= Len(t) /\ \A i \in 1 .. Len(s) : s[i] = t[i]
    BY PrefixByElements
  <1>3. Len(t) <= Len(u) /\ \A i \in 1 .. Len(t) : t[i] = u[i]
    BY PrefixByElements
  <1>4. Len(s) <= Len(u) /\ \A i \in 1 .. Len(s) : s[i] = u[i]
    BY <1>1, <1>2, <1>3
  <1> QED
    BY <1>4, PrefixByElements

-----------------------------------------------------------------------------
(* Frames of a simulation.                                                 *)

Frames(n) == [i \in 1 .. n |-> Frame]

\* To run a simulation is to continue it.
LEMMA ExecuteContinues ==
    ASSUME NEW sim \in Seq(Event), NEW queue \in Seq(Command), NEW n \in Nat,
           NEW gated \in BOOLEAN
    PROVE  IsPrefix(sim, Execute(sim, queue, n, gated))
  <1>1. queue \in Seq(Event) /\ <<>> \in Seq(Event)
    BY SeqMonotonic, Command \subseteq Event DEF Event
  <1>2. [i \in 1 .. n |-> Frame] \in Seq(Event)
    BY FramesType
  <1>3. CASE n = 0
    BY <1>3, PrefixOfItself DEF Execute
  <1>4. CASE n # 0
    <2> DEFINE rest == IF gated THEN <<>> ELSE queue
               frames == [i \in 1 .. n |-> Frame]
    <2>1. rest \in Seq(Event) /\ frames \in Seq(Event)
      BY <1>1, <1>2
    <2>2. Execute(sim, queue, n, gated) = sim \o rest \o frames
      BY <1>4 DEF Execute
    <2> HIDE DEF rest, frames
    <2>3. sim \o rest \in Seq(Event)
      BY <2>1, ConcatProperties
    <2>4. IsPrefix(sim, sim \o rest) /\ IsPrefix(sim \o rest, (sim \o rest) \o frames)
      BY <2>1, <2>3, PrefixOfConcat
    <2>5. (sim \o rest) \o frames \in Seq(Event)
      BY <2>1, <2>3, ConcatProperties
    <2> QED
      BY <2>2, <2>3, <2>4, <2>5, PrefixTransitive
  <1> QED
    BY <1>3, <1>4

LEMMA ConcatIs ==
    ASSUME NEW S, NEW s \in Seq(S), NEW t \in Seq(S), NEW u \in Seq(S),
           Len(u) = Len(s) + Len(t),
           \A i \in 1 .. Len(u) : u[i] = IF i <= Len(s) THEN s[i] ELSE t[i - Len(s)]
    PROVE  s \o t = u
  <1>1. /\ s \o t \in Seq(S) /\ Len(s \o t) = Len(s) + Len(t)
        /\ \A i \in 1 .. Len(s) + Len(t) : (s \o t)[i] =
                IF i <= Len(s) THEN s[i] ELSE t[i - Len(s)]
    BY ConcatProperties
  <1> QED
    BY <1>1, SeqEqual

\* One frame and then the others are all of them.
LEMMA OneFrameFirst ==
    ASSUME NEW sim \in Seq(Event), NEW n \in Nat \ {0}
    PROVE  (sim \o Frames(1)) \o Frames(n - 1) = sim \o Frames(n)
  <1>1. n - 1 \in Nat /\ n \in Nat /\ 1 \in Nat
    OBVIOUS
  <1>2. Frames(1) \in Seq(Event) /\ Frames(n) \in Seq(Event) /\ Frames(n - 1) \in Seq(Event)
    BY <1>1, FramesType DEF Frames
  <1>3. Len(Frames(1)) = 1 /\ Len(Frames(n)) = n /\ Len(Frames(n - 1)) = n - 1
    BY <1>1 DEF Frames
  <1>4. /\ \A i \in 1 .. 1 : Frames(1)[i] = Frame
        /\ \A i \in 1 .. n : Frames(n)[i] = Frame
        /\ \A i \in 1 .. n - 1 : Frames(n - 1)[i] = Frame
    BY DEF Frames
  <1>5. Frames(1) \o Frames(n - 1) = Frames(n)
    <2>1. Len(Frames(n)) = Len(Frames(1)) + Len(Frames(n - 1))
      <3>1. n = 1 + (n - 1)
        BY <1>1
      <3> QED
        BY <1>3, <3>1, Zenon
    <2>2. ASSUME NEW i \in 1 .. n
          PROVE  Frames(n)[i] = IF i <= Len(Frames(1)) THEN Frames(1)[i]
                                ELSE Frames(n - 1)[i - Len(Frames(1))]
      <3>1. Frames(n)[i] = Frame
        BY <1>4, Zenon
      <3>2. CASE i <= 1
        <4>1. i = 1
          BY <3>2
        <4>2. Frames(1)[i] = Frame
          BY <1>4, <4>1
        <4> QED
          BY <1>3, <3>1, <3>2, <4>2, Zenon
      <3>3. CASE ~(i <= 1)
        <4>1. i - 1 \in 1 .. n - 1
          BY <1>1, <3>3
        <4>2. Frames(n - 1)[i - 1] = Frame
          BY <1>4, <4>1, Zenon
        <4> QED
          BY <1>3, <3>1, <3>3, <4>2, Zenon
      <3> QED
        BY <3>2, <3>3, Zenon
    <2>3. \A i \in 1 .. Len(Frames(n)) :
              Frames(n)[i] = IF i <= Len(Frames(1)) THEN Frames(1)[i]
                             ELSE Frames(n - 1)[i - Len(Frames(1))]
      BY <1>3, <2>2, Zenon
    <2> QED
      BY <1>2, <2>1, <2>3, ConcatIs, Zenon
  <1>6. \A one, rest \in Seq(Event) : (sim \o one) \o rest = sim \o (one \o rest)
    BY ConcatAssociative
  <1>7. (sim \o Frames(1)) \o Frames(n - 1) = sim \o (Frames(1) \o Frames(n - 1))
    BY <1>2, <1>6, Zenon
  <1> QED
    BY <1>5, <1>7, Zenon

-----------------------------------------------------------------------------
(* How a simulation and its queue go through frames and turns.             *)

LEMMA SequenceTypes ==
    ASSUME TypeOK, NEW s \in Slots
    PROVE  /\ clientSim[s] \in Seq(Event) /\ clientIn[s] \in Seq(Command)
           /\ clientTicks[s] \in Nat /\ clientWaiting[s] \in BOOLEAN
           /\ SimDue(s) \in Seq(Event) /\ QueueDue(s) \in Seq(Command)
           /\ serverSim \in Seq(Event) /\ serverIn \in Seq(Command)
  BY ExecuteType, LeftQueuedType DEF TypeOK, SimDue, QueueDue

\* What a turn makes of a simulation is a simulation that continues it.
LEMMA TurnContinues ==
    ASSUME NEW sim \in Seq(Event), NEW queue \in Seq(Command), NEW m, m.frames \in Nat,
           m.cmds \in Seq(Command)
    PROVE  /\ SimAfter(sim, queue, m) \in Seq(Event)
           /\ QueueAfter(queue, m) \in Seq(Command)
           /\ IsPrefix(sim, SimAfter(sim, queue, m))
  <1>1. queue \o m.cmds \in Seq(Command)
    BY ConcatProperties
  <1> QED
    BY <1>1, ExecuteType, ExecuteContinues, LeftQueuedType DEF SimAfter, QueueAfter

\* To run a frame now and the others of the turn later is to run them all, also
\* when the client posts its orders in between.
LEMMA FrameKeepsDue ==
    ASSUME TypeOK, NEW c \in Slots, RunsOrdersFirst(c), RunFrame(c),
           clientWaiting' \in [Slots -> BOOLEAN], clientWaiting[c] => clientWaiting'[c]
    PROVE  /\ SimDue(c)' = SimDue(c) /\ QueueDue(c)' = QueueDue(c)
           /\ RunsOrdersFirst(c)'
  <1> DEFINE sim == clientSim[c]
             queue == clientIn[c]
             n == clientTicks[c]
  <1>1. /\ sim \in Seq(Event) /\ queue \in Seq(Command) /\ n \in Nat
        /\ clientWaiting[c] \in BOOLEAN /\ clientWaiting'[c] \in BOOLEAN
    BY SequenceTypes
  <1>2. queue \in Seq(Event) /\ <<>> \in Seq(Event) /\ <<>> \in Seq(Command)
    BY <1>1, SeqMonotonic, Command \subseteq Event DEF Event
  <1>3. CASE n = 0
    <2>1. clientSim'[c] = sim /\ clientIn'[c] = queue /\ clientTicks'[c] = 0
      BY <1>3 DEF RunFrame
    <2> QED
      BY <1>3, <2>1 DEF SimDue, QueueDue, Execute, LeftQueued, RunsOrdersFirst
  <1>4. CASE n # 0
    <2> DEFINE taken == IF clientWaiting[c] THEN <<>> ELSE queue
    <2>1. /\ clientSim'[c] = (sim \o taken) \o Frames(1)
          /\ clientIn'[c] = <<>> /\ clientTicks'[c] = n - 1
      <3>1. /\ clientSim'[c] = Execute(sim, queue, 1, clientWaiting[c])
            /\ clientIn'[c] = LeftQueued(queue, 1, clientWaiting[c])
            /\ clientTicks'[c] = n - 1
        BY <1>4 DEF RunFrame, TypeOK
      <3>2. clientWaiting[c] => queue = <<>>
        BY <1>1, <1>4 DEF RunsOrdersFirst
      <3> QED
        BY <3>1, <3>2 DEF Execute, LeftQueued, Frames
    <2>2. SimDue(c) = (sim \o taken) \o Frames(n) /\ QueueDue(c) = <<>>
      <3>1. clientWaiting[c] => queue = <<>>
        BY <1>1, <1>4 DEF RunsOrdersFirst
      <3> QED
        BY <1>4, <3>1 DEF SimDue, QueueDue, Execute, LeftQueued, Frames
    <2>3. sim \o taken \in Seq(Event)
      BY <1>1, <1>2, ConcatProperties
    <2>4. QueueDue(c)' = <<>> /\ RunsOrdersFirst(c)'
      BY <2>1 DEF QueueDue, LeftQueued, RunsOrdersFirst
    <2>5. CASE n = 1
      <3>1. SimDue(c)' = clientSim'[c]
        BY <2>1, <2>5 DEF SimDue, Execute
      <3> QED
        BY <2>1, <2>2, <2>4, <2>5, <3>1
    <2>6. CASE n # 1
      <3> DEFINE now == (sim \o taken) \o Frames(1)
      <3>1. now \in Seq(Event)
        BY <2>3, FramesType, ConcatProperties DEF Frames
      <3>2. SimDue(c)' = now \o Frames(n - 1)
        <4>1. clientTicks'[c] # 0
          BY <1>1, <1>4, <2>1, <2>6
        <4>2. SimDue(c)' = now \o (IF clientWaiting'[c] THEN <<>> ELSE <<>>) \o Frames(n - 1)
          BY <2>1, <4>1 DEF SimDue, Execute, Frames
        <4>3. now \o <<>> = now
          BY <3>1, ConcatEmptySeq
        <4> HIDE DEF now
        <4> QED
          BY <4>2, <4>3
      <3>3. now \o Frames(n - 1) = (sim \o taken) \o Frames(n)
        BY <1>1, <1>4, <2>3, OneFrameFirst
      <3>4. SimDue(c)' = SimDue(c)
        <4> HIDE DEF now, taken
        <4>1. SimDue(c)' = (sim \o taken) \o Frames(n)
          BY <3>2, <3>3, Zenon
        <4> QED
          BY <2>2, <4>1, Zenon
      <3>5. QueueDue(c)' = QueueDue(c)
        BY <2>2, <2>4
      <3> QED
        BY <2>4, <3>4, <3>5
    <2> QED
      BY <2>5, <2>6
  <1> QED
    BY <1>3, <1>4

-----------------------------------------------------------------------------
(* What the server does to the distance of a client.                       *)

\* Orders that reach the server wait in its queue and in the broadcast.
LEMMA LevelAfterOrders ==
    ASSUME TypeOK, NEW sim, NEW queue \in Seq(Command), NEW cmds \in Seq(Command),
           Level(sim, queue), serverSim' = serverSim,
           bulk' = bulk \o cmds, serverIn' = serverIn \o cmds
    PROVE  Level(sim, queue)'
  <1> SUFFICES ASSUME Readable(bulk') PROVE serverIn' = queue \o bulk'
    BY DEF Level
  <1>1. Readable(bulk) /\ bulk \in Seq(Command)
    <2>1. bulk \in Seq(Command \union {Garbage}) /\ cmds \in Seq(Command \union {Garbage})
      BY DEF TypeOK
    <2>2. Readable(bulk)
      <3>1. /\ Len(bulk \o cmds) = Len(bulk) + Len(cmds)
            /\ \A i \in 1 .. Len(bulk) + Len(cmds) :
                  (bulk \o cmds)[i] = IF i <= Len(bulk) THEN bulk[i] ELSE cmds[i - Len(bulk)]
        BY <2>1, ConcatProperties
      <3>2. Len(bulk) \in Nat /\ Len(cmds) \in Nat
        BY <2>1
      <3> QED
        BY <3>1, <3>2 DEF Readable
    <2> QED
      BY <2>1, <2>2, ReadableType
  <1>2. serverIn = queue \o bulk
    BY <1>1 DEF Level
  <1>3. (queue \o bulk) \o cmds = queue \o (bulk \o cmds)
    BY <1>1, ConcatAssociative
  <1> QED
    BY <1>2, <1>3

\* A login leaves a broadcast that nobody can read, or none.
LEMMA LevelAfterLogin ==
    ASSUME TypeOK, NEW sim, NEW queue, Level(sim, queue), UNCHANGED <<serverSim, serverIn>>,
           bulk' = Overwritten(bulk)
    PROVE  Level(sim, queue)'
  <1>1. ASSUME Readable(bulk') PROVE bulk' = bulk
    <2>1. bulk \in Seq(Command \union {Garbage}) /\ Len(bulk) \in Nat
      BY DEF TypeOK
    <2>2. Len(Overwritten(bulk)) = Len(bulk) /\ \A i \in 1 .. Len(bulk) : Overwritten(bulk)[i] = Garbage
      BY <2>1 DEF Overwritten
    <2>3. Len(bulk) = 0
      BY <1>1, <2>1, <2>2 DEF Readable
    <2>4. bulk = <<>> /\ Overwritten(bulk) = <<>>
      BY <2>1, <2>3, EmptySeq DEF Overwritten
    <2> QED
      BY <2>4
  <1> QED
    BY <1>1 DEF Level

\* Who was level with the server is one turn behind after the broadcast, and the
\* turn brings it where the server is.
LEMMA BehindAfterTurn ==
    ASSUME TypeOK, NEW n \in FrameCounts, Turn(n),
           NEW sim \in Seq(Event), NEW queue \in Seq(Command), Level(sim, queue),
           NEW m, m = TurnMsg(n, bulk)
    PROVE  OneBehind(sim, queue, m)'
  <1>1. m.cmds = bulk /\ m.frames = n /\ n \in Nat
    BY ConstantsAssumption DEF TurnMsg
  <1>2. /\ serverSim' = Execute(serverSim, serverIn, n, FALSE)
        /\ serverIn' = LeftQueued(serverIn, n, FALSE) /\ bulk' = <<>>
    BY DEF Turn
  <1>3. serverSim \in Seq(Event) /\ serverIn \in Seq(Command) /\ sim = serverSim
    BY DEF TypeOK, Level
  <1>4. IsPrefix(sim, serverSim')
    BY <1>1, <1>2, <1>3, ExecuteContinues
  <1>5. ASSUME Readable(bulk)
        PROVE  SimAfter(sim, queue, m) = serverSim' /\ serverIn' = QueueAfter(queue, m) \o bulk'
    <2>1. serverIn = queue \o m.cmds
      BY <1>1, <1>5 DEF Level
    <2>2. LeftQueued(serverIn, n, FALSE) \o <<>> = LeftQueued(serverIn, n, FALSE)
      BY <1>1, <1>3, LeftQueuedType, ConcatEmptySeq
    <2> QED
      BY <1>1, <1>2, <1>3, <2>1, <2>2 DEF SimAfter, QueueAfter
  <1> QED
    BY <1>1, <1>4, <1>5 DEF OneBehind, Level

-----------------------------------------------------------------------------
(* OnTrack, action by action.                                              *)

\* Whoever is level now is level after the step.
LevelKept == \A sim : \A queue \in Seq(Command) : Level(sim, queue) => Level(sim, queue)'

LEMMA TurnContents ==
    ASSUME NEW m \in Turns
    PROVE  /\ m.frames \in Nat /\ m.cmds \in Seq(Command \union {Garbage})
           /\ Readable(m.cmds) => m.cmds \in Seq(Command)
           /\ m.type = "CMDS"
  <1>1. m.frames \in Nat /\ m.cmds \in Seq(Command \union {Garbage}) /\ m.type = "CMDS"
    BY ConstantsAssumption DEF Turns
  <1> QED
    BY <1>1, ReadableType

LEMMA BehindKept ==
    ASSUME LevelKept, serverSim' = serverSim,
           NEW sim \in Seq(Event), NEW queue \in Seq(Command), NEW m \in Turns,
           OneBehind(sim, queue, m)
    PROVE  OneBehind(sim, queue, m)'
  <1>1. Readable(m.cmds) => QueueAfter(queue, m) \in Seq(Command)
    BY TurnContents, TurnContinues
  <1>2. Readable(m.cmds) => Level(SimAfter(sim, queue, m), QueueAfter(queue, m))'
    BY <1>1 DEF OneBehind, LevelKept
  <1> QED
    BY <1>2 DEF OneBehind

LEMMA TwoBehindKept ==
    ASSUME LevelKept, serverSim' = serverSim,
           NEW sim \in Seq(Event), NEW queue \in Seq(Command), NEW m \in Turns, NEW n \in Turns,
           TwoBehind(sim, queue, m, n)
    PROVE  TwoBehind(sim, queue, m, n)'
  <1>1. Readable(m.cmds) => /\ SimAfter(sim, queue, m) \in Seq(Event)
                            /\ QueueAfter(queue, m) \in Seq(Command)
    BY TurnContents, TurnContinues
  <1>2. Readable(m.cmds) => OneBehind(SimAfter(sim, queue, m), QueueAfter(queue, m), n)'
    BY <1>1, BehindKept DEF TwoBehind
  <1> QED
    BY <1>2 DEF TwoBehind

\* Of a client in the game only turns are under way, at most two.
LEMMA TurnsUnderWay ==
    ASSUME IInv, NEW s \in Slots, mode[s] = "play"
    PROVE  /\ toClient[s] \in Seq(Turns) /\ Len(toClient[s]) \in 0 .. 2
           /\ ~waiting[s] => Len(toClient[s]) \in 0 .. 1
  <1>1. Confirming(s) \/ InGame(s)
    BY DEF IInv, JoinStages, SlotInv, PlayStage
  <1>2. ASSUME Confirming(s)
        PROVE  toClient[s] = <<>> /\ waiting[s]
    BY <1>2 DEF Confirming
  <1>3. ASSUME InGame(s)
        PROVE  /\ toClient[s] \in Seq(Turns) /\ Len(toClient[s]) \in 0 .. 2
               /\ ~waiting[s] => Len(toClient[s]) \in 0 .. 1
    <2>1. Credit(s) \in 1 .. 2 /\ toClient[s] \in Seq(Turns) /\ toServer[s] \in Seq(OwnPost(s))
      BY <1>3 DEF InGame
    <2>2. Len(toClient[s]) \in Nat /\ Len(toServer[s]) \in Nat
      BY <2>1
    <2>3. Len(toClient[s]) + Len(toServer[s]) + Due(waiting[s]) + Due(clientWaiting[s]) \in 1 .. 2
      BY <2>1, CreditSum, Zenon
    <2>4. \A a, b \in Nat : \A w, c \in {0, 1} :
              a + b + w + c \in 1 .. 2 => a \in 0 .. 2 /\ (w = 1 => a \in 0 .. 1)
      OBVIOUS
    <2>5. Len(toClient[s]) \in 0 .. 2 /\ (Due(waiting[s]) = 1 => Len(toClient[s]) \in 0 .. 1)
      BY <2>2, <2>3, <2>4, CreditSum, Zenon
    <2> QED
      BY <2>1, <2>5 DEF Due
  <1>4. <<>> \in Seq(Turns) /\ Len(<<>>) \in 0 .. 2
    BY EmptySeq
  <1> QED
    BY <1>1, <1>2, <1>3, <1>4, Zenon

LEMMA FollowsKept ==
    ASSUME IInv, NEW r \in Slots, mode[r] = "play", Follows(r), LevelKept, serverSim' = serverSim,
           toClient'[r] = toClient[r], SimDue(r)' = SimDue(r), QueueDue(r)' = QueueDue(r),
           RunsOrdersFirst(r)'
    PROVE  Follows(r)'
  <1>1. /\ toClient[r] \in Seq(Turns)
        /\ SimDue(r) \in Seq(Event) /\ QueueDue(r) \in Seq(Command)
    BY TurnsUnderWay, SequenceTypes DEF IInv
  <1>2. ASSUME toClient[r] = <<>> PROVE Level(SimDue(r), QueueDue(r))'
    <2>1. Level(SimDue(r), QueueDue(r))
      BY <1>2 DEF Follows
    <2> QED
      BY <1>1, <2>1 DEF LevelKept, Level
  <1>3. ASSUME Len(toClient[r]) = 1 PROVE OneBehind(SimDue(r), QueueDue(r), toClient[r][1])'
    <2>1. OneBehind(SimDue(r), QueueDue(r), toClient[r][1]) /\ toClient[r][1] \in Turns
      BY <1>1, <1>3 DEF Follows
    <2> DEFINE sim == SimDue(r)
               queue == QueueDue(r)
               m == toClient[r][1]
    <2>2. \A x \in Seq(Event), q \in Seq(Command), t \in Turns :
              OneBehind(x, q, t) => OneBehind(x, q, t)'
      BY BehindKept
    <2> QED
      BY <1>1, <2>1, <2>2 DEF OneBehind, Level
  <1>4. ASSUME Len(toClient[r]) = 2
        PROVE  TwoBehind(SimDue(r), QueueDue(r), toClient[r][1], toClient[r][2])'
    <2>1. /\ TwoBehind(SimDue(r), QueueDue(r), toClient[r][1], toClient[r][2])
          /\ toClient[r][1] \in Turns /\ toClient[r][2] \in Turns
      BY <1>1, <1>4 DEF Follows
    <2>2. \A x \in Seq(Event), q \in Seq(Command), t, u \in Turns :
              TwoBehind(x, q, t, u) => TwoBehind(x, q, t, u)'
      BY TwoBehindKept
    <2> QED
      BY <1>1, <2>1, <2>2
  <1> QED
    BY <1>2, <1>3, <1>4 DEF Follows

\* A slot whose client the step does not concern.
LEMMA TrackBystander ==
    ASSUME IInv, NEW r \in Slots, TrackInv(r), LevelKept, serverSim' = serverSim,
           exact'[r] = exact[r], mode'[r] = mode[r], toClient'[r] = toClient[r],
           mode[r] = "login" /\ toServer'[r] = <<>> => toServer[r] = <<>>,
           clientSim'[r] = clientSim[r], clientIn'[r] = clientIn[r],
           clientTicks'[r] = clientTicks[r], clientWaiting'[r] = clientWaiting[r]
    PROVE  TrackInv(r)'
  <1>1. SimDue(r)' = SimDue(r) /\ QueueDue(r)' = QueueDue(r)
    BY DEF SimDue, QueueDue
  <1>2. ASSUME Follows(r) PROVE RunsOrdersFirst(r)'
    BY <1>2 DEF Follows, RunsOrdersFirst
  <1>3. ASSUME mode[r] = "play", Follows(r) PROVE Follows(r)'
    BY <1>1, <1>2, <1>3, FollowsKept
  <1>4. ASSUME Level(serverSim, <<>>) PROVE Level(serverSim, <<>>)'
    <2>1. <<>> \in Seq(Command)
      OBVIOUS
    <2> QED
      BY <1>4, <2>1 DEF LevelKept
  <1> QED
    BY <1>3, <1>4 DEF TrackInv

\* A step that leaves the simulation, the queue and the broadcast of the server.
LEMMA QuietLevel ==
    ASSUME UNCHANGED <<bulk, serverIn, serverSim>>
    PROVE  LevelKept
  BY DEF LevelKept, Level

LEMMA TrackAccept ==
    ASSUME IInv, OnTrack, NEW s \in Slots, Accept(s)
    PROVE  OnTrack'
  <1> SUFFICES ASSUME NEW r \in Slots PROVE TrackInv(r)'
    BY DEF OnTrack
  <1>1. CASE r = s
    <2>1. mode'[r] = "login" /\ toServer'[r] = <<Login>>
      BY <1>1 DEF IInv, TypeOK, Accept
    <2> QED
      BY <2>1 DEF TrackInv
  <1>2. CASE r # s
    <2>1. LevelKept /\ serverSim' = serverSim
      BY QuietLevel DEF Accept, gameVars
    <2>2. /\ exact'[r] = exact[r] /\ mode'[r] = mode[r] /\ toClient'[r] = toClient[r]
          /\ toServer'[r] = toServer[r] /\ clientSim'[r] = clientSim[r]
          /\ clientIn'[r] = clientIn[r] /\ clientTicks'[r] = clientTicks[r]
          /\ clientWaiting'[r] = clientWaiting[r]
      BY <1>2 DEF IInv, TypeOK, Accept
    <2> QED
      BY <2>1, <2>2, TrackBystander DEF OnTrack
  <1> QED
    BY <1>1, <1>2

LEMMA TrackGreet ==
    ASSUME IInv, OnTrack, NEW s \in Slots, Greet(s)
    PROVE  OnTrack'
  <1> SUFFICES ASSUME NEW r \in Slots PROVE TrackInv(r)'
    BY DEF OnTrack
  <1>1. LevelKept /\ serverSim' = serverSim
    BY QuietLevel DEF Greet, gameVars
  <1>2. UNCHANGED <<exact, mode, toServer, clientSim, clientIn, clientTicks, clientWaiting>>
    BY DEF Greet, clientVars
  <1>3. CASE r = s
    <2>1. mode[s] \in {"off", "login"} /\ (mode[s] = "login" => toServer[s] = <<Login>>)
      BY DEF IInv, TypeOK, JoinStages, SlotInv, LoginStage, PlayStage, HungStage, Greet,
             Accepted, LoginUnread, SnapshotSent
    <2>2. mode'[r] \in {"off", "login"} /\ (mode'[r] = "login" => toServer'[r] = <<Login>>)
      BY <1>2, <1>3, <2>1
    <2> QED
      BY <2>2 DEF TrackInv
  <1>4. CASE r # s
    <2>1. toClient'[r] = toClient[r]
      BY <1>4 DEF IInv, TypeOK, Greet, Send
    <2> QED
      BY <1>1, <1>2, <2>1, TrackBystander DEF OnTrack
  <1> QED
    BY <1>3, <1>4

\* The handlers of the server that read.
LEMMA ReadTracks ==
    ASSUME IInv, OnTrack, NEW s \in Slots, NEW type, ServerReads(s, type),
           LevelKept, serverSim' = serverSim,
           UNCHANGED <<exact, clientVars, toClient>>,
           type \in {"CMDS", "CONFIRM", "EOF"}
    PROVE  OnTrack'
  <1> SUFFICES ASSUME NEW r \in Slots PROVE TrackInv(r)'
    BY DEF OnTrack
  <1>1. ASSUME r = s, mode[s] = "login" PROVE FALSE
    <2>1. toServer[s] = <<Login>> \/ toServer[s] = <<>>
      BY <1>1 DEF IInv, JoinStages, SlotInv, LoginStage, Accepted, LoginUnread, SnapshotSent
    <2>2. Head(<<Login>>) = Login /\ Login.type = "LOGIN"
      BY DEF Login
    <2> QED
      BY <1>1, <2>1, <2>2 DEF ServerReads, Arrived
  <1>2. mode[r] = "login" => toServer'[r] = toServer[r]
    BY <1>1 DEF IInv, TypeOK, ServerReads, Receive
  <1> QED
    BY <1>2, TrackBystander DEF OnTrack, clientVars

LEMMA TrackReadCmds ==
    ASSUME IInv, OnTrack, NEW s \in Slots, ReadCmds(s)
    PROVE  OnTrack'
  <1>1. Head(toServer[s]).cmds \in Seq(Command)
    BY TypeReceive, MessageContents DEF IInv, ReadCmds, ServerReads, Arrived
  <1>2. LevelKept
    BY <1>1, LevelAfterOrders DEF IInv, ReadCmds, LevelKept
  <1> QED
    BY <1>2, ReadTracks DEF ReadCmds

LEMMA TrackReadConfirm ==
    ASSUME IInv, OnTrack, NEW s \in Slots, ReadConfirm(s)
    PROVE  OnTrack'
  <1>1. LevelKept /\ serverSim' = serverSim
    BY QuietLevel DEF ReadConfirm, gameVars
  <1> QED
    BY <1>1, ReadTracks DEF ReadConfirm

LEMMA TrackReadEof ==
    ASSUME IInv, OnTrack, NEW s \in Slots, ReadEof(s)
    PROVE  OnTrack'
  <1>1. LevelKept /\ serverSim' = serverSim
    BY QuietLevel DEF ReadEof, gameVars
  <1> QED
    BY <1>1, ReadTracks DEF ReadEof

\* A login is read of a client that is not in the game yet, or not any more.
LEMMA LoginIsNews ==
    ASSUME IInv, NEW s \in Slots, ReadLogin(s)
    PROVE  mode[s] \in {"off", "login"}
  <1>1. ~(toServer[s] \in Seq(OwnPost(s)))
    <2>1. toServer[s] # <<>> /\ Head(toServer[s]).type = "LOGIN"
      BY DEF ReadLogin, ServerReads, Arrived
    <2>2. toServer[s] \in Seq(OwnPost(s)) => Head(toServer[s]) \in OwnPost(s)
      BY <2>1, HeadTailProperties
    <2> QED
      BY <2>1, <2>2 DEF OwnPost
  <1>2. mode[s] # "hung"
    BY <1>1 DEF IInv, JoinStages, SlotInv, HungStage
  <1>3. ~Confirming(s)
    BY DEF ReadLogin, ServerReads, Arrived, Confirming, Confirm, OwnPost
  <1>4. mode[s] # "play"
    BY <1>1, <1>3 DEF IInv, JoinStages, SlotInv, PlayStage, InGame
  <1> QED
    BY <1>2, <1>4 DEF IInv, TypeOK

LEMMA TrackReadLogin ==
    ASSUME IInv, OnTrack, NEW s \in Slots, ReadLogin(s)
    PROVE  OnTrack'
  <1> SUFFICES ASSUME NEW r \in Slots PROVE TrackInv(r)'
    BY DEF OnTrack
  <1>1. UNCHANGED <<serverIn, serverSim, clientVars>> /\ bulk' = Overwritten(bulk)
    BY DEF ReadLogin
  <1>2. LevelKept
    BY <1>1, LevelAfterLogin DEF IInv, LevelKept
  <1>3. CASE r = s
    <2>1. mode[s] \in {"off", "login"}
      BY LoginIsNews
    <2>2. exact'[s] => serverIn = bulk
      BY DEF IInv, TypeOK, ReadLogin
    <2>3. ASSUME exact'[s] PROVE Level(serverSim, <<>>)'
      <3>1. serverIn = <<>> \o bulk
        BY <2>2, <2>3, ConcatEmptySeq DEF IInv, TypeOK
      <3>2. Level(serverSim, <<>>)
        BY <3>1 DEF Level
      <3>3. \A sim : Level(sim, <<>>) => Level(sim, <<>>)'
        <4>1. <<>> \in Seq(Command)
          OBVIOUS
        <4> QED
          BY <1>2, <4>1 DEF LevelKept
      <3> QED
        BY <1>1, <3>2, <3>3
    <2> QED
      BY <1>1, <1>3, <2>1, <2>3 DEF TrackInv, clientVars
  <1>4. CASE r # s
    <2>1. toClient'[r] = toClient[r] /\ toServer'[r] = toServer[r] /\ exact'[r] = exact[r]
      BY <1>4 DEF IInv, TypeOK, ReadLogin, ServerReads, Send, Receive
    <2> QED
      BY <1>1, <1>2, <2>1, TrackBystander DEF OnTrack, clientVars
  <1> QED
    BY <1>3, <1>4

LEMMA TrackTurn ==
    ASSUME IInv, OnTrack, NEW n \in FrameCounts, Turn(n)
    PROVE  OnTrack'
  <1> SUFFICES ASSUME NEW r \in Slots, exact'[r] PROVE TrackInv(r)'
    BY DEF OnTrack, TrackInv
  <1>0. PICK m : m = TurnMsg(n, bulk)
    OBVIOUS
  <1>1. /\ UNCHANGED <<active, needsGreeting, clientVars, toServer, exact>>
        /\ Greeted /\ NoneWaits /\ serverSim' = Execute(serverSim, serverIn, n, FALSE)
    BY DEF Turn
  <1>2. n \in Nat /\ m \in Turns
    <2>1. bulk \in Seq(Command \union {Garbage})
      BY DEF IInv, TypeOK
    <2> QED
      BY <1>0, <2>1, ConstantsAssumption DEF Turns, TurnMsg
  <1>3. serverSim \in Seq(Event) /\ serverSim' \in Seq(Event) /\ IsPrefix(serverSim, serverSim')
    BY <1>1, <1>2, ExecuteType, ExecuteContinues DEF IInv, TypeOK
  <1>4. mode[r] # "login"
    BY <1>1 DEF IInv, JoinStages, SlotInv, LoginStage, Accepted, LoginUnread, SnapshotSent,
                Greeted, NoneWaits
  <1>5. ASSUME mode[r] = "hung" PROVE IsPrefix(clientSim[r], serverSim')
    <2>1. IsPrefix(clientSim[r], serverSim) /\ clientSim[r] \in Seq(Event)
      BY <1>1, <1>5, SequenceTypes DEF OnTrack, TrackInv, IInv
    <2> QED
      BY <1>3, <2>1, PrefixTransitive
  <1>6. ASSUME mode[r] = "play" PROVE Follows(r)'
    <2>1. active[r] /\ ~waiting[r]
      BY <1>1, <1>6 DEF IInv, JoinStages, SlotInv, PlayStage, NoneWaits
    <2>2. toClient[r] \in Seq(Turns) /\ Len(toClient[r]) \in 0 .. 1
      BY <1>6, <2>1, TurnsUnderWay
    <2>3. toClient'[r] = Append(toClient[r], m)
      BY <1>0, <2>1 DEF Turn
    <2>4. /\ SimDue(r)' = SimDue(r) /\ QueueDue(r)' = QueueDue(r) /\ RunsOrdersFirst(r)'
          /\ SimDue(r) \in Seq(Event) /\ QueueDue(r) \in Seq(Command)
          /\ Follows(r)
      BY <1>1, <1>6, SequenceTypes
         DEF SimDue, QueueDue, RunsOrdersFirst, clientVars, OnTrack, TrackInv, Follows, IInv
    <2>5. \A sim \in Seq(Event), queue \in Seq(Command) :
              Level(sim, queue) => OneBehind(sim, queue, m)'
      BY <1>0, BehindAfterTurn DEF IInv
    <2>6. CASE toClient[r] = <<>>
      <3>1. toClient'[r] = <<m>> /\ Len(toClient'[r]) = 1 /\ toClient'[r][1] = m
        BY <1>2, <2>3, <2>6
      <3>2. OneBehind(SimDue(r), QueueDue(r), m)'
        BY <2>4, <2>5, <2>6 DEF Follows
      <3> QED
        BY <2>4, <3>1, <3>2 DEF Follows
    <2>7. CASE Len(toClient[r]) = 1
      <3>1. /\ Len(toClient'[r]) = 2 /\ toClient'[r][1] = toClient[r][1]
            /\ toClient'[r][2] = m /\ toClient'[r] # <<>> /\ toClient[r][1] \in Turns
        BY <1>2, <2>2, <2>3, <2>7
      <3>5. PICK t : t = toClient[r][1]
        OBVIOUS
      <3>2. OneBehind(SimDue(r), QueueDue(r), t)
        BY <2>4, <2>7, <3>5 DEF Follows
      <3>3. ASSUME NEW x \in Seq(Event), NEW q \in Seq(Command), NEW u \in Turns, OneBehind(x, q, u)
            PROVE  TwoBehind(x, q, u, m)'
        <4>1. IsPrefix(x, serverSim')
          BY <1>3, <3>3, PrefixTransitive DEF OneBehind
        <4>2. ASSUME Readable(u.cmds)
              PROVE  OneBehind(SimAfter(x, q, u), QueueAfter(q, u), m)'
          <5>1. SimAfter(x, q, u) \in Seq(Event) /\ QueueAfter(q, u) \in Seq(Command)
            BY <4>2, TurnContents, TurnContinues
          <5>2. Level(SimAfter(x, q, u), QueueAfter(q, u))
            BY <3>3, <4>2 DEF OneBehind
          <5> QED
            BY <2>5, <5>1, <5>2
        <4> QED
          BY <4>1, <4>2 DEF TwoBehind
      <3>4. TwoBehind(SimDue(r), QueueDue(r), t, m)'
        BY <2>4, <3>5, <3>1, <3>2, <3>3
      <3> QED
        BY <2>4, <3>5, <3>1, <3>4 DEF Follows
    <2> QED
      BY <2>2, <2>6, <2>7
  <1> QED
    BY <1>1, <1>4, <1>5, <1>6 DEF TrackInv, clientVars

\* What concerns the client c only.
LEMMA ClientTracks ==
    ASSUME IInv, OnTrack, NEW c \in Slots, UNCHANGED <<gameVars, exact>>, TrackInv(c)',
           \A r \in Slots \ {c} :
               /\ mode'[r] = mode[r] /\ toClient'[r] = toClient[r] /\ toServer'[r] = toServer[r]
               /\ clientSim'[r] = clientSim[r] /\ clientIn'[r] = clientIn[r]
               /\ clientTicks'[r] = clientTicks[r] /\ clientWaiting'[r] = clientWaiting[r]
    PROVE  OnTrack'
  <1> SUFFICES ASSUME NEW r \in Slots \ {c} PROVE TrackInv(r)'
    BY DEF OnTrack
  <1>1. LevelKept /\ serverSim' = serverSim /\ exact'[r] = exact[r]
    BY QuietLevel DEF gameVars
  <1> QED
    BY <1>1, TrackBystander DEF OnTrack

LEMMA TrackRecvCid ==
    ASSUME IInv, OnTrack, NEW c \in Slots, RecvCid(c)
    PROVE  OnTrack'
  <1>1. UNCHANGED <<gameVars, exact, mode, toServer, clientSim, clientIn, clientTicks, clientWaiting>>
    BY DEF RecvCid
  <1>2. mode[c] = "login"
    <2>1. toClient[c] # <<>> /\ Head(toClient[c]).type = "CID" /\ mode[c] \in {"login", "play"}
      BY DEF RecvCid, Reads, Arrived
    <2>2. ASSUME mode[c] = "play" PROVE FALSE
      <3>1. Head(toClient[c]) \in Turns
        BY <2>1, <2>2, TurnsUnderWay, HeadTailProperties
      <3> QED
        BY <2>1, <3>1 DEF Turns
    <2> QED
      BY <2>1, <2>2
  <1>3. TrackInv(c)'
    <2>1. Level(serverSim, <<>>) => Level(serverSim, <<>>)'
      BY <1>1 DEF Level, gameVars
    <2> QED
      BY <1>1, <1>2, <2>1 DEF OnTrack, TrackInv
  <1>4. \A r \in Slots \ {c} : toClient'[r] = toClient[r]
    BY DEF IInv, TypeOK, RecvCid, Receive
  <1> QED
    BY <1>1, <1>3, <1>4, ClientTracks

LEMMA TrackRecvSnapshot ==
    ASSUME IInv, OnTrack, NEW c \in Slots, RecvSnapshot(c)
    PROVE  /\ OnTrack'
           /\ clientSim'[c] = serverSim /\ mode'[c] = "play"
  <1>1. /\ UNCHANGED <<gameVars, exact, clientIn, clientTicks, clientWaiting>>
        /\ mode[c] = "login" /\ mode'[c] = "play"
    BY DEF IInv, TypeOK, RecvSnapshot
  <1>2. /\ toServer[c] = <<>> /\ toClient[c] = <<Snapshot(serverSim)>>
        /\ clientIn[c] = <<>> /\ clientTicks[c] = 0
    <2>1. toClient[c] # <<>> /\ Head(toClient[c]).type = "SNAPSHOT"
      BY DEF RecvSnapshot, Arrived
    <2>2. /\ clientIn[c] = <<>> /\ clientTicks[c] = 0
          /\ Accepted(c) \/ LoginUnread(c) \/ SnapshotSent(c)
      BY <1>1 DEF IInv, JoinStages, SlotInv, LoginStage
    <2>3. ~Accepted(c) /\ ~LoginUnread(c)
      BY <2>1 DEF Accepted, LoginUnread, Cid
    <2>4. toClient[c] # <<Cid(c), Snapshot(serverSim)>>
      BY <2>1 DEF Cid
    <2> QED
      BY <2>2, <2>3, <2>4 DEF SnapshotSent
  <1>3. clientSim'[c] = serverSim /\ toClient'[c] = <<>>
    BY <1>2 DEF IInv, TypeOK, RecvSnapshot, Receive, Snapshot
  <1>4. ASSUME exact[c] PROVE Follows(c)'
    <2>1. Level(serverSim, <<>>)
      BY <1>1, <1>2, <1>4 DEF OnTrack, TrackInv
    <2>2. SimDue(c)' = serverSim /\ QueueDue(c)' = <<>>
      BY <1>1, <1>2, <1>3 DEF SimDue, QueueDue, Execute, LeftQueued
    <2>3. Level(SimDue(c), QueueDue(c))'
      BY <1>1, <2>1, <2>2 DEF Level, gameVars
    <2>4. RunsOrdersFirst(c)'
      BY <1>1, <1>2 DEF RunsOrdersFirst
    <2> QED
      BY <1>3, <2>3, <2>4, EmptySeq DEF Follows
  <1>5. TrackInv(c)'
    BY <1>1, <1>4 DEF TrackInv
  <1>6. \A r \in Slots \ {c} :
            /\ mode'[r] = mode[r] /\ toClient'[r] = toClient[r] /\ toServer'[r] = toServer[r]
            /\ clientSim'[r] = clientSim[r]
    BY DEF IInv, TypeOK, RecvSnapshot, Receive, Send
  <1> QED
    BY <1>1, <1>3, <1>5, <1>6, ClientTracks

\* No turn reaches a client before its snapshot.
LEMMA TurnIsPlayed ==
    ASSUME IInv, NEW c \in Slots, Reads(c, "CMDS")
    PROVE  mode[c] = "play"
  <1>1. toClient[c] # <<>> /\ Head(toClient[c]).type = "CMDS" /\ mode[c] \in {"login", "play"}
    BY DEF Reads, Arrived
  <1>2. ASSUME mode[c] = "login" PROVE FALSE
    <2>1. \/ toClient[c] = <<>> \/ toClient[c] = <<Cid(c)>>
          \/ toClient[c] = <<Cid(c), Snapshot(serverSim)>>
          \/ toClient[c] = <<Snapshot(serverSim)>>
      BY <1>2 DEF IInv, JoinStages, SlotInv, LoginStage, Accepted, LoginUnread, SnapshotSent
    <2>2. Cid(c).type = "CID" /\ Snapshot(serverSim).type = "SNAPSHOT"
      BY DEF Cid, Snapshot
    <2>3. Head(toClient[c]) = Cid(c) \/ Head(toClient[c]) = Snapshot(serverSim)
      BY <1>1, <2>1
    <2> QED
      BY <1>1, <2>2, <2>3
  <1> QED
    BY <1>1, <1>2

\* Of a client in step that receives a turn.
LEMMA NextTurn ==
    ASSUME IInv, OnTrack, NEW c \in Slots, Reads(c, "CMDS")
    PROVE  /\ mode[c] = "play" /\ toClient[c] \in Seq(Turns) /\ toClient[c] # <<>>
           /\ Head(toClient[c]) = toClient[c][1] /\ toClient[c][1] \in Turns
           /\ SimDue(c) \in Seq(Event) /\ QueueDue(c) \in Seq(Command)
           /\ exact[c] =>
                 \/ /\ Len(toClient[c]) = 1
                    /\ OneBehind(SimDue(c), QueueDue(c), toClient[c][1])
                 \/ /\ Len(toClient[c]) = 2
                    /\ TwoBehind(SimDue(c), QueueDue(c), toClient[c][1], toClient[c][2])
  <1>1. toClient[c] # <<>> /\ Head(toClient[c]).type = "CMDS" /\ mode[c] \in {"login", "play"}
    BY DEF Reads, Arrived
  <1>2. mode[c] = "play"
    BY TurnIsPlayed
  <1>3. toClient[c] \in Seq(Turns) /\ Len(toClient[c]) \in 0 .. 2
    BY <1>2, TurnsUnderWay
  <1>4. Len(toClient[c]) \in 1 .. 2
    BY <1>1, <1>3
  <1>5. exact[c] => Follows(c)
    BY <1>2 DEF OnTrack, TrackInv
  <1> QED
    BY <1>1, <1>2, <1>3, <1>4, <1>5, SequenceTypes DEF IInv, Follows

LEMMA TailOf ==
    ASSUME NEW S, NEW s \in Seq(S), Len(s) \in 1 .. 2
    PROVE  /\ Tail(s) \in Seq(S) /\ Len(Tail(s)) = Len(s) - 1
           /\ Len(s) = 2 => Tail(s)[1] = s[2]
  <1>1. s # <<>>
    OBVIOUS
  <1> QED
    BY <1>1, HeadTailProperties

LEMMA TrackRecvTurn ==
    ASSUME IInv, OnTrack, NEW c \in Slots, RecvTurn(c)
    PROVE  OnTrack'
  <1>1. UNCHANGED <<gameVars, exact, mode, toServer>> /\ Reads(c, "CMDS")
    BY DEF RecvTurn
  <1>2. PICK m : m = toClient[c][1]
    OBVIOUS
  <1>3. PICK sim : sim = SimDue(c)
    OBVIOUS
  <1>4. PICK queue : queue = QueueDue(c)
    OBVIOUS
  <1>5. m \in Turns /\ Head(toClient[c]) = m /\ sim \in Seq(Event) /\ queue \in Seq(Command)
    BY <1>1, <1>2, <1>3, <1>4, NextTurn
  <1>6. m.cmds \in Seq(Command) /\ m.frames \in Nat /\ Readable(m.cmds)
    BY <1>5, TurnContents DEF RecvTurn
  <1>7. /\ clientSim'[c] = sim /\ clientIn'[c] = queue \o m.cmds /\ clientTicks'[c] = m.frames
        /\ clientWaiting'[c] = FALSE /\ toClient'[c] = Tail(toClient[c])
    BY <1>3, <1>4, <1>5 DEF IInv, TypeOK, RecvTurn, CatchUp, SimDue, QueueDue, Receive
  <1>8. SimDue(c)' = SimAfter(sim, queue, m) /\ QueueDue(c)' = QueueAfter(queue, m)
    BY <1>7 DEF SimDue, QueueDue, SimAfter, QueueAfter
  <1>9. SimAfter(sim, queue, m) \in Seq(Event) /\ QueueAfter(queue, m) \in Seq(Command)
    BY <1>5, <1>6, TurnContinues
  <1>10. ASSUME exact[c] PROVE Follows(c)'
    <2>1. RunsOrdersFirst(c)'
      BY <1>7 DEF RunsOrdersFirst
    <2>2. toClient[c] \in Seq(Turns)
      BY <1>1, NextTurn
    <2>3. CASE Len(toClient[c]) = 1 /\ OneBehind(SimDue(c), QueueDue(c), toClient[c][1])
      <3>1. Level(SimAfter(sim, queue, m), QueueAfter(queue, m))
        BY <1>2, <1>3, <1>4, <1>6, <2>3 DEF OneBehind
      <3>2. PICK x : x = SimAfter(sim, queue, m)
        OBVIOUS
      <3>3. PICK q : q = QueueAfter(queue, m)
        OBVIOUS
      <3>4. Level(x, q)'
        BY <1>1, <3>1, <3>2, <3>3 DEF Level, gameVars
      <3>5. Level(SimDue(c), QueueDue(c))'
        BY <1>8, <3>2, <3>3, <3>4
      <3>6. toClient'[c] = <<>> /\ Len(toClient'[c]) = 0
        <4>1. toClient'[c] \in Seq(Turns) /\ Len(toClient'[c]) = 0
          BY <1>7, <2>2, <2>3, TailOf
        <4> QED
          BY <4>1, EmptySeq
      <3> QED
        BY <2>1, <3>5, <3>6 DEF Follows
    <2>4. CASE /\ Len(toClient[c]) = 2
               /\ TwoBehind(SimDue(c), QueueDue(c), toClient[c][1], toClient[c][2])
      <3>1. OneBehind(SimAfter(sim, queue, m), QueueAfter(queue, m), toClient[c][2])
        BY <1>2, <1>3, <1>4, <1>6, <2>4 DEF TwoBehind
      <3>2. PICK x : x = SimAfter(sim, queue, m)
        OBVIOUS
      <3>3. PICK q : q = QueueAfter(queue, m)
        OBVIOUS
      <3>4. PICK n : n = toClient[c][2]
        OBVIOUS
      <3>5. n \in Turns
        BY <2>2, <2>4, <3>4
      <3>6. OneBehind(x, q, n)'
        <4>1. LevelKept /\ serverSim' = serverSim
          BY <1>1, QuietLevel DEF gameVars
        <4>2. OneBehind(x, q, n)
          BY <3>1, <3>2, <3>3, <3>4
        <4>3. x \in Seq(Event) /\ q \in Seq(Command)
          BY <1>9, <3>2, <3>3
        <4> QED
          BY <3>5, <4>1, <4>2, <4>3, BehindKept
      <3>7. toClient'[c] # <<>> /\ Len(toClient'[c]) = 1 /\ toClient'[c][1] = n
        <4>1. /\ toClient'[c] \in Seq(Turns) /\ Len(toClient'[c]) = 1
              /\ toClient'[c][1] = toClient[c][2]
          BY <1>7, <2>2, <2>4, TailOf
        <4> QED
          BY <3>4, <4>1, EmptySeq
      <3>8. OneBehind(SimDue(c), QueueDue(c), toClient[c][1])'
        BY <1>8, <3>2, <3>3, <3>6, <3>7
      <3> QED
        BY <2>1, <3>7, <3>8 DEF Follows
    <2> QED
      BY <1>1, <1>10, <2>3, <2>4, NextTurn
  <1>11. TrackInv(c)'
    BY <1>1, <1>10, NextTurn DEF TrackInv
  <1>12. \A r \in Slots \ {c} :
            /\ toClient'[r] = toClient[r] /\ clientSim'[r] = clientSim[r]
            /\ clientIn'[r] = clientIn[r] /\ clientTicks'[r] = clientTicks[r]
            /\ clientWaiting'[r] = clientWaiting[r]
    BY DEF IInv, TypeOK, RecvTurn, CatchUp, Receive
  <1> QED
    BY <1>1, <1>11, <1>12, ClientTracks

LEMMA TrackRecvGarbledTurn ==
    ASSUME IInv, OnTrack, NEW c \in Slots, RecvGarbledTurn(c)
    PROVE  OnTrack'
  <1>1. UNCHANGED <<gameVars, exact, toServer, clientWaiting>> /\ Reads(c, "CMDS")
    BY DEF RecvGarbledTurn
  <1>2. clientSim'[c] = SimDue(c) /\ mode'[c] = "hung"
    BY DEF IInv, TypeOK, RecvGarbledTurn, CatchUp, SimDue
  <1>3. exact[c] => IsPrefix(SimDue(c), serverSim)
    BY <1>1, NextTurn DEF OneBehind, TwoBehind
  <1>4. TrackInv(c)'
    BY <1>1, <1>2, <1>3 DEF TrackInv, gameVars
  <1>5. \A r \in Slots \ {c} :
            /\ toClient'[r] = toClient[r] /\ clientSim'[r] = clientSim[r] /\ mode'[r] = mode[r]
            /\ clientIn'[r] = clientIn[r] /\ clientTicks'[r] = clientTicks[r]
    BY DEF IInv, TypeOK, RecvGarbledTurn, CatchUp, Receive
  <1> QED
    BY <1>1, <1>4, <1>5, ClientTracks

LEMMA TrackClientFrame ==
    ASSUME IInv, OnTrack, NEW c \in Slots, NEW typed \in Seq(OwnCommand(c)), NEW timerDue \in BOOLEAN,
           ClientFrame(c, typed, timerDue)
    PROVE  OnTrack'
  <1>1. UNCHANGED <<gameVars, exact, mode, toClient>> /\ mode[c] = "play" /\ RunFrame(c)
    BY DEF ClientFrame
  <1>2. IInv'
    BY InvFrame
  <1> DEFINE orders == clientOut[c] \o typed
  <1>3. \/ /\ clientOut' = [clientOut EXCEPT ![c] = orders]
           /\ UNCHANGED <<toServer, clientWaiting>>
        \/ /\ toServer' = Send(toServer, c, Post(orders))
           /\ clientOut' = [clientOut EXCEPT ![c] = <<>>]
           /\ clientWaiting' = [clientWaiting EXCEPT ![c] = TRUE]
    BY Zenon DEF ClientFrame, LogicTick
  <1> HIDE DEF orders
  <1>4. clientWaiting[c] => clientWaiting'[c]
    BY <1>3 DEF IInv, TypeOK
  <1>5. ASSUME exact[c] PROVE Follows(c)'
    <2>1. Follows(c) /\ RunsOrdersFirst(c)
      BY <1>1, <1>5 DEF OnTrack, TrackInv, Follows
    <2>2. /\ SimDue(c)' = SimDue(c) /\ QueueDue(c)' = QueueDue(c)
          /\ RunsOrdersFirst(c)'
      BY <1>1, <1>2, <1>4, <2>1, FrameKeepsDue DEF IInv, TypeOK
    <2>3. LevelKept /\ serverSim' = serverSim /\ toClient'[c] = toClient[c]
      BY <1>1, QuietLevel DEF gameVars
    <2> QED
      BY <1>1, <2>1, <2>2, <2>3, FollowsKept
  <1>6. TrackInv(c)'
    BY <1>1, <1>5 DEF TrackInv
  <1>7. \A r \in Slots \ {c} :
            /\ toServer'[r] = toServer[r] /\ clientSim'[r] = clientSim[r]
            /\ clientIn'[r] = clientIn[r] /\ clientTicks'[r] = clientTicks[r]
            /\ clientWaiting'[r] = clientWaiting[r]
    <2> TAKE r \in Slots \ {c}
    <2>1. clientSim'[r] = clientSim[r] /\ clientTicks'[r] = clientTicks[r] /\ clientIn'[r] = clientIn[r]
      BY <1>1, RunFrameElsewhere DEF IInv
    <2>2. toServer'[r] = toServer[r]
      BY <1>3 DEF IInv, TypeOK, Send
    <2>3. clientWaiting'[r] = clientWaiting[r]
      BY <1>3 DEF IInv, TypeOK
    <2> QED
      BY <2>1, <2>2, <2>3
  <1> QED
    BY <1>1, <1>6, <1>7, ClientTracks

LEMMA TrackLeave ==
    ASSUME IInv, OnTrack, NEW c \in Slots, NEW sent, Leave(c, sent)
    PROVE  OnTrack'
  <1>1. UNCHANGED <<gameVars, exact>> /\ mode'[c] = "off"
    BY DEF IInv, TypeOK, Leave
  <1>2. TrackInv(c)'
    BY <1>1 DEF TrackInv
  <1>3. \A r \in Slots \ {c} :
            /\ mode'[r] = mode[r] /\ toClient'[r] = toClient[r] /\ toServer'[r] = toServer[r]
            /\ clientSim'[r] = clientSim[r] /\ clientIn'[r] = clientIn[r]
            /\ clientTicks'[r] = clientTicks[r] /\ clientWaiting'[r] = clientWaiting[r]
    BY DEF IInv, TypeOK, Leave
  <1> QED
    BY <1>1, <1>2, <1>3, ClientTracks

LEMMA TrackInit == Init => OnTrack
  BY DEF Init, OnTrack, TrackInv

LEMMA TrackStutter ==
    ASSUME IInv, OnTrack, UNCHANGED vars
    PROVE  OnTrack'
  <1>1. UNCHANGED <<gameVars, exact>>
    BY DEF vars
  <1>2. \A s \in Slots :
            /\ mode'[s] = mode[s] /\ toClient'[s] = toClient[s] /\ toServer'[s] = toServer[s]
            /\ clientSim'[s] = clientSim[s] /\ clientIn'[s] = clientIn[s]
            /\ clientTicks'[s] = clientTicks[s] /\ clientWaiting'[s] = clientWaiting[s]
    BY DEF vars, netVars, clientVars
  <1>3. ASSUME NEW s \in Slots PROVE TrackInv(s)'
    BY <1>1, <1>2, QuietLevel, TrackBystander DEF gameVars, OnTrack
  <1> QED
    BY <1>3 DEF OnTrack

LEMMA TrackServerStep ==
    ASSUME IInv, OnTrack, ServerNext
    PROVE  OnTrack'
  <1>1. ASSUME NEW s \in Slots, ReadCmds(s) \/ ReadConfirm(s) \/ ReadLogin(s) \/ ReadEof(s)
        PROVE  OnTrack'
    BY <1>1, TrackReadCmds, TrackReadConfirm, TrackReadLogin, TrackReadEof
  <1>2. ASSUME NEW s \in Slots, Accept(s) \/ Greet(s) PROVE OnTrack'
    BY <1>2, TrackAccept, TrackGreet
  <1>3. ASSUME NEW n \in FrameCounts, Turn(n) PROVE OnTrack'
    BY <1>3, TrackTurn
  <1> QED
    BY <1>1, <1>2, <1>3 DEF ServerNext

LEMMA TrackClientStep ==
    ASSUME IInv, OnTrack, ClientNext
    PROVE  OnTrack'
  <1>1. PICK c \in Slots :
            \/ RecvCid(c) \/ RecvSnapshot(c) \/ RecvTurn(c) \/ RecvGarbledTurn(c)
            \/ \E timerDue \in BOOLEAN :
                   QuietFrame(c, timerDue) \/ \E kind \in Orders : OrderFrame(c, kind, timerDue)
            \/ \E sent \in 0 .. Len(toServer[c]) : Leave(c, sent)
    BY DEF ClientNext
  <1>2. CASE RecvCid(c) \/ RecvSnapshot(c) \/ RecvTurn(c) \/ RecvGarbledTurn(c)
    BY <1>2, TrackRecvCid, TrackRecvSnapshot, TrackRecvTurn, TrackRecvGarbledTurn
  <1>3. ASSUME NEW timerDue \in BOOLEAN, QuietFrame(c, timerDue) PROVE OnTrack'
    <2>1. <<>> \in Seq(OwnCommand(c))
      OBVIOUS
    <2> QED
      BY <1>3, <2>1, TrackClientFrame DEF QuietFrame
  <1>4. ASSUME NEW timerDue \in BOOLEAN, NEW kind \in Orders, OrderFrame(c, kind, timerDue)
        PROVE  OnTrack'
    <2>1. mode[c] = "play"
      BY <1>4 DEF OrderFrame, ClientFrame
    <2>2. <<[kind |-> kind, sender |-> clientId[c]]>> \in Seq(OwnCommand(c))
      BY <2>1, OwnCommands
    <2>3. ClientFrame(c, <<[kind |-> kind, sender |-> clientId[c]]>>, timerDue)
      BY <1>4 DEF OrderFrame
    <2> QED
      BY <2>2, <2>3, TrackClientFrame
  <1>5. ASSUME NEW sent \in 0 .. Len(toServer[c]), Leave(c, sent) PROVE OnTrack'
    BY <1>5, TrackLeave
  <1> QED
    BY <1>1, <1>2, <1>3, <1>4, <1>5

\* A client that was given all of the game is at most two turns behind the
\* server, and with what is queued, counted and under way it gets exactly to
\* where the server is (newturn_callback and the frame loop of main.c).
THEOREM ClientsStayOnTrack == Spec => []OnTrack
  <1>1. Init => OnTrack
    BY TrackInit
  <1>2. IInv /\ OnTrack /\ [Next]_vars => OnTrack'
    BY TrackServerStep, TrackClientStep, TrackStutter DEF Next
  <1> QED
    BY <1>1, <1>2, StagesHold, PTL DEF Spec

LEMMA TrackAgrees ==
    ASSUME IInv, OnTrack
    PROVE  Agreement
  <1> SUFFICES ASSUME NEW s \in Slots, InStep(s)
               PROVE  /\ IsPrefix(clientSim[s], serverSim)
                      /\ mode[s] = "play" /\ toClient[s] = <<>> /\ clientTicks[s] = 0
                             => clientSim[s] = serverSim
    BY DEF Agreement
  <1>1. /\ clientSim[s] \in Seq(Event) /\ clientIn[s] \in Seq(Command)
        /\ clientTicks[s] \in Nat /\ clientWaiting[s] \in BOOLEAN /\ serverSim \in Seq(Event)
    BY DEF IInv, TypeOK
  <1>2. CASE mode[s] = "hung"
    BY <1>2 DEF InStep, OnTrack, TrackInv
  <1>3. CASE mode[s] = "play"
    <2>1. Follows(s)
      BY <1>3 DEF InStep, OnTrack, TrackInv
    <2>2. SimDue(s) \in Seq(Event)
      BY SequenceTypes DEF IInv
    <2>3. IsPrefix(clientSim[s], SimDue(s))
      BY <1>1, ExecuteContinues DEF SimDue
    <2>4. toClient[s] \in Seq(Turns) /\ Len(toClient[s]) \in 0 .. 2
      BY <1>3, TurnsUnderWay
    <2>5. toClient[s] = <<>> \/ Len(toClient[s]) = 1 \/ Len(toClient[s]) = 2
      BY <2>4, EmptySeq
    <2>6. IsPrefix(SimDue(s), serverSim)
      BY <1>1, <2>1, <2>5, PrefixOfItself DEF Follows, Level, OneBehind, TwoBehind
    <2>7. IsPrefix(clientSim[s], serverSim)
      BY <1>1, <2>2, <2>3, <2>6, PrefixTransitive
    <2>8. ASSUME toClient[s] = <<>>, clientTicks[s] = 0 PROVE clientSim[s] = serverSim
      BY <2>1, <2>8 DEF Follows, Level, SimDue, Execute
    <2> QED
      BY <2>7, <2>8
  <1> QED
    BY <1>2, <1>3 DEF InStep

\* A client in step has run a prefix of what the server has run, and all of it
\* when it has nothing left to do: the lockstep of main.c never diverges.
THEOREM ClientsAgree == Spec => []Agreement
  <1>1. IInv /\ OnTrack => Agreement
    BY TrackAgrees
  <1> QED
    BY <1>1, ClientsStayOnTrack, StagesHold, PTL

-----------------------------------------------------------------------------
(* Lockstep implements SharedGame: what each step does to the history and  *)
(* to the views.                                                           *)

View == [s \in Slots |-> IF InStep(s) THEN clientSim[s] ELSE Absent]

LEMMA SharedPrefixes ==
    ASSUME NEW s, NEW t
    PROVE  /\ Shared!IsPrefix(s, t) <=> IsPrefix(s, t)
           /\ Shared!IsStrictPrefix(s, t) <=> IsPrefix(s, t) /\ s # t
  BY Zenon DEF IsPrefix, Shared!IsPrefix, Shared!IsStrictPrefix

LEMMA SharedStutter ==
    ASSUME serverSim' = serverSim,
           \A s \in Slots : /\ InStep(s)' = InStep(s)
                            /\ InStep(s) => clientSim'[s] = clientSim[s]
    PROVE  UNCHANGED Shared!vars
  BY DEF Shared!vars

\* The step of one client changes one view.
LEMMA OneView ==
    ASSUME NEW c \in Slots,
           \A r \in Slots \ {c} : /\ InStep(r)' = InStep(r)
                                  /\ InStep(r) => clientSim'[r] = clientSim[r]
    PROVE  View' = [View EXCEPT ![c] = View'[c]]
  BY DEF View

LEMMA PlayerIsThere ==
    ASSUME TypeOK, NEW s \in Slots, InStep(s)
    PROVE  View[s] = clientSim[s] /\ View[s] # Absent
  BY AbsentAssumption DEF TypeOK, View

\* A client that runs some more follows the history.
LEMMA SharedFollow ==
    ASSUME IInv, IInv', Agreement', serverSim' = serverSim, NEW c \in Slots,
           InStep(c)' = InStep(c), IsPrefix(clientSim[c], clientSim'[c]),
           \A r \in Slots \ {c} : /\ InStep(r)' = InStep(r)
                                  /\ InStep(r) => clientSim'[r] = clientSim[r]
    PROVE  [Shared!Next]_Shared!vars
  <1>1. CASE ~InStep(c) \/ clientSim'[c] = clientSim[c]
    BY <1>1, SharedStutter
  <1>2. CASE InStep(c) /\ clientSim'[c] # clientSim[c]
    <2>1. View[c] = clientSim[c] /\ View[c] # Absent
      BY <1>2, PlayerIsThere DEF IInv
    <2>2. View'[c] = clientSim'[c] /\ View'[c] # Absent
      BY <1>2, PlayerIsThere, AbsentAssumption DEF IInv, TypeOK, View
    <2>3. IsPrefix(clientSim'[c], serverSim)
      BY <1>2 DEF Agreement
    <2>4. Shared!IsStrictPrefix(View[c], View'[c]) /\ Shared!IsPrefix(View'[c], serverSim)
      BY <1>2, <2>1, <2>2, <2>3, SharedPrefixes
    <2>5. View' = [View EXCEPT ![c] = View'[c]]
      BY OneView
    <2>6. Shared!Follow(c)
      BY <2>1, <2>2, <2>4, <2>5 DEF Shared!Follow, View
    <2> QED
      BY <2>6 DEF Shared!Next
  <1> QED
    BY <1>1, <1>2

LEMMA SharedTurn ==
    ASSUME IInv, NEW n \in FrameCounts, Turn(n)
    PROVE  [Shared!Next]_Shared!vars
  <1>1. \A s \in Slots : InStep(s)' = InStep(s) /\ clientSim'[s] = clientSim[s]
    BY DEF Turn, clientVars, InStep
  <1>2. CASE serverSim' = serverSim
    BY <1>1, <1>2, SharedStutter
  <1>3. CASE serverSim' # serverSim
    <2>1. IsPrefix(serverSim, serverSim')
      BY ConstantsAssumption, ExecuteContinues DEF IInv, TypeOK, Turn
    <2>2. View' = View
      BY <1>1 DEF View
    <2>3. Shared!IsStrictPrefix(serverSim, serverSim')
      BY <1>3, <2>1, SharedPrefixes
    <2>4. Shared!Advance
      BY <2>2, <2>3 DEF Shared!Advance, View
    <2> QED
      BY <2>4 DEF Shared!Next
  <1> QED
    BY <1>2, <1>3

\* The server's other steps: only a login changes who is in step, and before
\* the client plays.
LEMMA SharedServerStep ==
    ASSUME IInv, ServerNext
    PROVE  [Shared!Next]_Shared!vars
  <1>1. ASSUME NEW s \in Slots, Accept(s) PROVE UNCHANGED Shared!vars
    <2>1. mode[s] = "off" /\ mode'[s] = "login"
      BY <1>1, InactiveIsOff DEF IInv, JoinStages, TypeOK, Accept
    <2>2. \A r \in Slots \ {s} : mode'[r] = mode[r]
      BY <1>1 DEF IInv, TypeOK, Accept
    <2>3. UNCHANGED <<serverSim, exact, clientSim>>
      BY <1>1 DEF Accept, gameVars
    <2> QED
      BY <2>1, <2>2, <2>3, SharedStutter DEF InStep
  <1>2. ASSUME NEW s \in Slots, Greet(s) \/ ReadCmds(s) \/ ReadConfirm(s) \/ ReadEof(s)
        PROVE  UNCHANGED Shared!vars
    <2>1. UNCHANGED <<serverSim, exact, mode, clientSim>>
      BY <1>2 DEF Greet, ReadCmds, ReadConfirm, ReadEof, gameVars, clientVars
    <2> QED
      BY <2>1, SharedStutter DEF InStep
  <1>3. ASSUME NEW s \in Slots, ReadLogin(s) PROVE UNCHANGED Shared!vars
    <2>1. mode[s] \in {"off", "login"}
      BY <1>3, LoginIsNews
    <2>2. UNCHANGED <<serverSim, mode, clientSim>>
      BY <1>3 DEF ReadLogin, clientVars
    <2>3. \A r \in Slots \ {s} : exact'[r] = exact[r]
      BY <1>3 DEF IInv, TypeOK, ReadLogin
    <2> QED
      BY <2>1, <2>2, <2>3, SharedStutter DEF InStep
  <1> QED
    BY <1>1, <1>2, <1>3, SharedTurn DEF ServerNext

\* A client that joins watches from where the server is.
LEMMA SharedJoin ==
    ASSUME IInv, OnTrack, NEW c \in Slots, RecvSnapshot(c)
    PROVE  [Shared!Next]_Shared!vars
  <1>1. mode[c] = "login" /\ UNCHANGED <<serverSim, exact>>
    BY DEF RecvSnapshot, gameVars
  <1>2. clientSim'[c] = serverSim /\ mode'[c] = "play"
    BY TrackRecvSnapshot
  <1>3. \A r \in Slots \ {c} : InStep(r)' = InStep(r) /\ clientSim'[r] = clientSim[r]
    BY <1>1 DEF IInv, TypeOK, RecvSnapshot, InStep
  <1>4. CASE ~exact[c]
    BY <1>1, <1>3, <1>4, SharedStutter DEF InStep
  <1>5. CASE exact[c]
    <2>1. View[c] = Absent /\ View'[c] = serverSim
      BY <1>1, <1>2, <1>5 DEF View, InStep
    <2>2. View' = [View EXCEPT ![c] = serverSim]
      BY <1>3, <2>1, OneView
    <2>3. Shared!Join(c)
      BY <1>1, <2>1, <2>2 DEF Shared!Join, View
    <2> QED
      BY <2>3 DEF Shared!Next
  <1> QED
    BY <1>4, <1>5 DEF IInv, TypeOK

LEMMA SharedQuit ==
    ASSUME IInv, NEW c \in Slots, NEW sent, Leave(c, sent)
    PROVE  [Shared!Next]_Shared!vars
  <1>1. mode'[c] = "off" /\ UNCHANGED <<serverSim, exact>>
    BY DEF IInv, TypeOK, Leave, gameVars
  <1>2. \A r \in Slots \ {c} : InStep(r)' = InStep(r) /\ clientSim'[r] = clientSim[r]
    BY <1>1 DEF IInv, TypeOK, Leave, InStep
  <1>3. CASE ~InStep(c)
    BY <1>1, <1>2, <1>3, SharedStutter DEF InStep
  <1>4. CASE InStep(c)
    <2>1. View[c] # Absent /\ View'[c] = Absent
      BY <1>1, <1>4, PlayerIsThere DEF IInv, View, InStep
    <2>2. View' = [View EXCEPT ![c] = Absent]
      BY <1>2, <2>1, OneView
    <2>3. Shared!Quit(c)
      BY <1>1, <2>1, <2>2 DEF Shared!Quit, View
    <2> QED
      BY <2>3 DEF Shared!Next
  <1> QED
    BY <1>3, <1>4

LEMMA SharedRun ==
    ASSUME IInv, IInv', Agreement', NEW c \in Slots,
           \/ RecvTurn(c) \/ RecvGarbledTurn(c)
           \/ \E typed, timerDue : ClientFrame(c, typed, timerDue)
    PROVE  [Shared!Next]_Shared!vars
  <1>1. UNCHANGED <<serverSim, exact>>
    BY DEF RecvTurn, RecvGarbledTurn, ClientFrame, gameVars
  <1>2. \A r \in Slots \ {c} : mode'[r] = mode[r] /\ clientSim'[r] = clientSim[r]
    <2>1. mode \in [Slots -> {"off", "login", "play", "hung"}] /\ clientSim \in [Slots -> Seq(Event)]
      BY DEF IInv, TypeOK
    <2>2. CASE RecvTurn(c)
      BY <2>1, <2>2 DEF RecvTurn, CatchUp
    <2>3. CASE RecvGarbledTurn(c)
      BY <2>1, <2>3 DEF RecvGarbledTurn, CatchUp
    <2>4. CASE \E typed, timerDue : ClientFrame(c, typed, timerDue)
      <3>1. RunFrame(c) /\ mode' = mode
        BY <2>4 DEF ClientFrame
      <3> QED
        BY <3>1, RunFrameElsewhere DEF IInv
    <2> QED
      BY <2>2, <2>3, <2>4
  <1>3. InStep(c)' = InStep(c)
    <2>1. CASE mode'[c] = mode[c]
      BY <1>1, <2>1 DEF InStep
    <2>2. CASE Reads(c, "CMDS")
      <3>1. mode[c] = "play"
        BY <2>2, TurnIsPlayed
      <3>2. mode'[c] \in {"play", "hung"}
        BY <3>1 DEF IInv, TypeOK, RecvTurn, RecvGarbledTurn, ClientFrame
      <3> QED
        BY <1>1, <3>1, <3>2 DEF InStep
    <2> QED
      BY <2>1, <2>2 DEF RecvTurn, RecvGarbledTurn, ClientFrame
  <1>4. IsPrefix(clientSim[c], clientSim'[c])
    <2>1. /\ clientSim[c] \in Seq(Event) /\ clientIn[c] \in Seq(Command)
          /\ clientTicks[c] \in Nat /\ clientWaiting[c] \in BOOLEAN /\ 1 \in Nat
      BY SequenceTypes DEF IInv
    <2>2. \/ clientSim'[c] = Execute(clientSim[c], clientIn[c], clientTicks[c], clientWaiting[c])
          \/ clientSim'[c] = Execute(clientSim[c], clientIn[c], 1, clientWaiting[c])
          \/ clientSim'[c] = clientSim[c]
      BY DEF IInv, TypeOK, RecvTurn, RecvGarbledTurn, CatchUp, ClientFrame, RunFrame
    <2> QED
      BY <2>1, <2>2, ExecuteContinues, PrefixOfItself
  <1> QED
    BY <1>1, <1>2, <1>3, <1>4, SharedFollow DEF InStep

LEMMA SharedClientStep ==
    ASSUME IInv, OnTrack, IInv', Agreement', ClientNext
    PROVE  [Shared!Next]_Shared!vars
  <1>1. ASSUME NEW c \in Slots, RecvCid(c) PROVE UNCHANGED Shared!vars
    <2>1. UNCHANGED <<serverSim, exact, mode, clientSim>>
      BY <1>1 DEF RecvCid, gameVars
    <2> QED
      BY <2>1, SharedStutter DEF InStep
  <1>2. ASSUME NEW c \in Slots,
               \/ RecvTurn(c) \/ RecvGarbledTurn(c)
               \/ \E timerDue \in BOOLEAN : \/ QuietFrame(c, timerDue)
                                            \/ \E kind \in Orders : OrderFrame(c, kind, timerDue)
        PROVE  [Shared!Next]_Shared!vars
    <2>1. \/ RecvTurn(c) \/ RecvGarbledTurn(c)
          \/ \E typed, timerDue : ClientFrame(c, typed, timerDue)
      BY <1>2 DEF QuietFrame, OrderFrame
    <2> QED
      BY <2>1, SharedRun
  <1> QED
    BY <1>1, <1>2, SharedJoin, SharedQuit DEF ClientNext

\* The network game is one history that everybody in step watches: the server
\* makes it, a client that joins enters at its end, and from there its view only
\* moves forward along it.
THEOREM GameIsShared == Spec => ImplementsSharedGame
  <1>1. Init => Shared!Init
    BY DEF Init, InStep, Shared!Init
  <1>2. IInv /\ OnTrack /\ IInv' /\ Agreement' /\ [Next]_vars => [Shared!Next]_Shared!vars
    <2> SUFFICES ASSUME IInv, OnTrack, IInv', Agreement', [Next]_vars
                 PROVE  [Shared!Next]_Shared!vars
      OBVIOUS
    <2>1. CASE UNCHANGED vars
      <3>1. UNCHANGED <<serverSim, exact, mode, clientSim>>
        BY <2>1 DEF vars, gameVars, clientVars
      <3> QED
        BY <3>1, SharedStutter DEF InStep
    <2> QED
      BY <2>1, SharedServerStep, SharedClientStep DEF Next
  <1> QED
    BY <1>1, <1>2, StagesHold, ClientsStayOnTrack, ClientsAgree, PTL
       DEF Spec, ImplementsSharedGame, Shared!Spec
============================================================================
