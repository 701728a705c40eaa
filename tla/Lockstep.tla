------------------------------ MODULE Lockstep ------------------------------
(***************************************************************************)
(* The lockstep turn protocol of Commander Luke: one server and up to      *)
(* MaxConnections clients that run the same deterministic simulation.      *)
(*                                                                         *)
(*   core/tcp_server_state.c   turns, broadcast buffer, joining            *)
(*   core/tcp_client_state.c   posting orders, receiving turns             *)
(*   main.c                    the simulation step and the three loops     *)
(*                                                                         *)
(* A simulation is represented by the sequence of inputs it has executed:  *)
(* the commands, and Frame for every call of game_logic_tick.  Two         *)
(* simulations that executed the same sequence are in the same state.      *)
(* The connection between a client and the server (write buffer, TCP       *)
(* stream, receive buffer) is one FIFO channel of messages per direction.  *)
(***************************************************************************)
EXTENDS Integers, Sequences, SequencesExt

CONSTANTS
    MaxConnections,  \* MAX_CONNECTIONS: connection slots of the server
    Orders,          \* kinds of command a player can give
    FrameCounts,     \* numbers of frames a turn may last (framesd)
    Frame,           \* one call of game_logic_tick
    Garbage,         \* bytes of a snapshot where a command is expected
    MaxTurns,        \* bound: turns of a behaviour
    MaxOrders,       \* bound: orders given by the players
    MaxJoins         \* bound: connections accepted

Slots == 0 .. MaxConnections - 1

Command == [kind : Orders \union {"SetLogin"}, sender : Slots]

ASSUME ConstantsAssumption ==
    /\ MaxConnections \in Nat \ {0}
    /\ FrameCounts \subseteq Nat
    /\ MaxTurns \in Nat /\ MaxOrders \in Nat /\ MaxJoins \in Nat
    /\ "SetLogin" \notin Orders
    /\ Frame # Garbage /\ Frame \notin Command /\ Garbage \notin Command

VARIABLES
    active,         \* connections[s].active
    waiting,        \* connections[s].waiting: an answer to the turn is due
    needsGreeting,  \* connections[s].needs_greeting
    bulk,           \* bulk_buf from offset 9: commands of the next broadcast
    serverIn,       \* in: commands the server simulation has not run yet
    serverSim,      \* inputs the server simulation has run
    mode,           \* where the client program of a slot is
    clientId,       \* client_id
    clientWaiting,  \* waiting of the client: a turn is due
    clientTicks,    \* ticks: frames the client may still run
    clientIn,       \* in: commands received, not run yet
    clientOut,      \* out: orders given, not posted yet
    clientSim,      \* inputs the client simulation has run
    toClient,       \* messages on their way to the client
    toServer,       \* messages on their way to the server
    turns, issued, joins,  \* counters of the bounds
    exact           \* history: the snapshot held all that was broadcast

netVars    == <<toClient, toServer>>
connVars   == <<active, waiting, needsGreeting>>
gameVars   == <<bulk, serverIn, serverSim>>
clientVars == <<mode, clientId, clientWaiting, clientTicks, clientIn,
                clientOut, clientSim>>
boundVars  == <<turns, issued, joins>>
vars == <<connVars, gameVars, clientVars, netVars, boundVars, exact>>

-----------------------------------------------------------------------------
(* Messages: TCP_MSG_CID, _CMDS (both directions), _SNAPSHOT, _LOGIN and   *)
(* _CONFIRM.  Eof stands for the end of the stream of a client that left.  *)

Login   == [type |-> "LOGIN"]
Confirm == [type |-> "CONFIRM"]
Eof     == [type |-> "EOF"]
Post(cmds)            == [type |-> "CMDS", cmds |-> cmds]
CidOfNext(s)          == [type |-> "CID", id |-> (s + 1) % MaxConnections] \* (off by one)
CidBeforeSet(s)       == [type |-> "CID", id |-> -1]  \* (sent before it is filled in)
Cid(s)                == [type |-> "CID", id |-> s]
Snapshot(sim)         == [type |-> "SNAPSHOT", sim |-> sim]
TurnMsg(frames, cmds) == [type |-> "CMDS", frames |-> frames, cmds |-> cmds]

Event == Command \union {Frame}

ToServerMsg == {Login, Confirm, Eof} \union [type : {"CMDS"}, cmds : Seq(Command)]
ToClientMsg == [type : {"CID"}, id : Slots]
               \union [type : {"SNAPSHOT"}, sim : Seq(Event)]
               \union [type : {"CMDS"}, frames : FrameCounts,
                       cmds : Seq(Command \union {Garbage})]

Send(chan, s, m) == [chan EXCEPT ![s] = Append(@, m)]
Receive(chan, s) == [chan EXCEPT ![s] = Tail(@)]
Arrived(chan, s, type) == chan[s] # <<>> /\ Head(chan[s]).type = type

-----------------------------------------------------------------------------
(* The simulation: n calls of game_logic_tick.  Each call first drains the *)
(* command queue, so only the first call finds commands.  On a client that *)
(* is waiting get_command yields none ("gated").                           *)

Execute(sim, queue, n, gated) ==
    IF n = 0 THEN sim
    ELSE sim \o (IF gated THEN <<>> ELSE queue) \o [i \in 1 .. n |-> Frame]

LeftQueued(queue, n, gated) == IF n = 0 \/ gated THEN queue ELSE <<>>

Init ==
    /\ active = [s \in Slots |-> FALSE]
    /\ waiting = [s \in Slots |-> FALSE]
    /\ needsGreeting = [s \in Slots |-> FALSE]
    /\ bulk = <<>> /\ serverIn = <<>> /\ serverSim = <<>>
    /\ mode = [s \in Slots |-> "off"]
    /\ clientId = [s \in Slots |-> -1]
    /\ clientWaiting = [s \in Slots |-> FALSE]
    /\ clientTicks = [s \in Slots |-> 0]
    /\ clientIn = [s \in Slots |-> <<>>]
    /\ clientOut = [s \in Slots |-> <<>>]
    /\ clientSim = [s \in Slots |-> <<>>]
    /\ toClient = [s \in Slots |-> <<>>]
    /\ toServer = [s \in Slots |-> <<>>]
    /\ turns = 0 /\ issued = 0 /\ joins = 0
    /\ exact = [s \in Slots |-> FALSE]

-----------------------------------------------------------------------------
(* The server.  A server tick is tcpserver_select, the greeting loop and,  *)
(* when no connection waits, a turn.  Accept and the Read actions are the  *)
(* handlers the select calls; Greet and Turn are the two ways the rest of  *)
(* the tick can change anything.  At most one connection is accepted per   *)
(* tick, and before the tick reads anything: see AcceptFirst.              *)

\* (the loop over the connections ends one too early)
NoneWaitsButLast == \A s \in Slots \ {MaxConnections - 1} : ~(active[s] /\ waiting[s])

NoneWaits == \A s \in Slots : ~(active[s] /\ waiting[s])

Greeted == \A s \in Slots : ~needsGreeting[s]

AcceptFirst == Greeted /\ (NoneWaits => \A s \in Slots : ~active[s])

\* A client program starts, connects and sends its login, which it does before
\* it reads anything; the server gives it the lowest free slot.
Accept(s) ==
    /\ joins < MaxJoins /\ joins' = joins + 1
    /\ AcceptFirst
    /\ ~active[s] /\ \A r \in Slots : r < s => active[r]
    /\ active' = [active EXCEPT ![s] = TRUE]
    /\ waiting' = [waiting EXCEPT ![s] = FALSE]
    /\ needsGreeting' = [needsGreeting EXCEPT ![s] = TRUE]
    /\ mode' = [mode EXCEPT ![s] = "login"]
    /\ toServer' = [toServer EXCEPT ![s] = <<Login>>]
    /\ toClient' = [toClient EXCEPT ![s] = <<>>]
    /\ UNCHANGED <<gameVars, clientId, clientWaiting, clientTicks, clientIn,
                   clientOut, clientSim, turns, issued, exact>>

\* (the waiting mark of the greeting is missing)
GreetWithoutWaiting(s) ==
    /\ needsGreeting[s]
    /\ toClient' = Send(toClient, s, Cid(s))
    /\ needsGreeting' = [needsGreeting EXCEPT ![s] = FALSE]
    /\ UNCHANGED <<active, waiting, gameVars, clientVars, toServer, boundVars, exact>>

Greet(s) ==
    /\ needsGreeting[s]
    /\ toClient' = Send(toClient, s, Cid(s))
    /\ needsGreeting' = [needsGreeting EXCEPT ![s] = FALSE]
    /\ waiting' = [waiting EXCEPT ![s] = TRUE]
    /\ UNCHANGED <<active, gameVars, clientVars, toServer, boundVars, exact>>

\* The broadcast of a turn of n frames, and newturn_callback, which runs the
\* n frames of the server simulation at once.
Turn(n) ==
    /\ turns < MaxTurns /\ turns' = turns + 1
    /\ Greeted /\ NoneWaits
    /\ toClient' = [s \in Slots |-> IF active[s] THEN Append(toClient[s], TurnMsg(n, bulk))
                                    ELSE toClient[s]]
    /\ waiting' = [s \in Slots |-> active[s] \/ waiting[s]]
    /\ bulk' = <<>>
    /\ serverSim' = Execute(serverSim, serverIn, n, FALSE)
    /\ serverIn' = LeftQueued(serverIn, n, FALSE)
    /\ UNCHANGED <<active, needsGreeting, clientVars, toServer, issued, joins, exact>>

\* (a connection is read only when it need not answer)
ServerReadsIfIdle(s, type) ==
    /\ active[s] /\ ~needsGreeting[s] /\ ~waiting[s] /\ Arrived(toServer, s, type)
    /\ toServer' = Receive(toServer, s)

\* tcpserver_select passes over the connection it has just accepted.
ServerReads(s, type) ==
    /\ active[s] /\ ~needsGreeting[s] /\ Arrived(toServer, s, type)
    /\ toServer' = Receive(toServer, s)

ReadCmds(s) ==
    /\ ServerReads(s, "CMDS")
    /\ bulk' = bulk \o Head(toServer[s]).cmds
    /\ serverIn' = serverIn \o Head(toServer[s]).cmds
    /\ waiting' = [waiting EXCEPT ![s] = FALSE]
    /\ UNCHANGED <<active, needsGreeting, serverSim, clientVars, toClient,
                   boundVars, exact>>

ReadConfirm(s) ==
    /\ ServerReads(s, "CONFIRM")
    /\ waiting' = [waiting EXCEPT ![s] = FALSE]
    /\ UNCHANGED <<active, needsGreeting, gameVars, clientVars, toClient,
                   boundVars, exact>>

\* send_snapshot composes the message in bulk_buf, over the commands that are
\* there already: the snapshot, of some kilobytes, covers all of them.
Overwritten(cmds) == [i \in 1 .. Len(cmds) |-> Garbage]

ReadLogin(s) ==
    /\ ServerReads(s, "LOGIN")
    /\ toClient' = Send(toClient, s, Snapshot(serverSim))
    /\ exact' = [exact EXCEPT ![s] = (serverIn = bulk)]
    /\ bulk' = Overwritten(bulk)
    /\ UNCHANGED <<connVars, serverIn, serverSim, clientVars, boundVars>>

ReadEof(s) ==
    /\ ServerReads(s, "EOF")
    /\ active' = [active EXCEPT ![s] = FALSE]
    /\ UNCHANGED <<waiting, needsGreeting, gameVars, clientVars, toClient,
                   boundVars, exact>>

-----------------------------------------------------------------------------
(* The client.                                                             *)

Reads(c, type) == mode[c] \in {"login", "play"} /\ Arrived(toClient, c, type)

RecvCid(c) ==
    /\ Reads(c, "CID")
    /\ toClient' = Receive(toClient, c)
    /\ clientId' = [clientId EXCEPT ![c] = Head(toClient[c]).id]
    /\ UNCHANGED <<connVars, gameVars, mode, clientWaiting, clientTicks, clientIn,
                   clientOut, clientSim, toServer, boundVars, exact>>

\* client_snapshot_callback and send_confirmation; client_loop then starts and
\* gives the player's first command, SetLogin.
RecvSnapshot(c) ==
    /\ mode[c] = "login" /\ Arrived(toClient, c, "SNAPSHOT")
    /\ toClient' = Receive(toClient, c)
    /\ clientSim' = [clientSim EXCEPT ![c] = Head(toClient[c]).sim]
    /\ toServer' = Send(toServer, c, Confirm)
    /\ mode' = [mode EXCEPT ![c] = "play"]
    /\ clientOut' = [clientOut EXCEPT
                        ![c] = Append(@, [kind |-> "SetLogin", sender |-> clientId[c]])]
    /\ UNCHANGED <<connVars, gameVars, clientId, clientWaiting, clientTicks,
                   clientIn, boundVars, exact>>

\* newturn_callback first runs the frames that are left of the turns before;
\* then the commands received are queued.
\* (newturn_callback is not called: frames and commands of two turns mix)
CatchUpMissing(c, received) ==
    /\ clientTicks' = [clientTicks EXCEPT ![c] = @ + Head(toClient[c]).frames]
    /\ clientIn' = [clientIn EXCEPT ![c] = @ \o received]
    /\ UNCHANGED clientSim

CatchUp(c, received) ==
    /\ clientSim' = [clientSim EXCEPT
                        ![c] = Execute(@, clientIn[c], clientTicks[c], clientWaiting[c])]
    /\ clientTicks' = [clientTicks EXCEPT ![c] = Head(toClient[c]).frames]
    /\ clientIn' = [clientIn EXCEPT
                       ![c] = LeftQueued(@, clientTicks[c], clientWaiting[c]) \o received]

Readable(cmds) == \A i \in 1 .. Len(cmds) : cmds[i] # Garbage

RecvTurn(c) ==
    /\ Reads(c, "CMDS")
    /\ toClient' = Receive(toClient, c)
    /\ Readable(Head(toClient[c]).cmds)
    /\ CatchUp(c, Head(toClient[c]).cmds)
    /\ clientWaiting' = [clientWaiting EXCEPT ![c] = FALSE]
    /\ UNCHANGED <<connVars, gameVars, mode, clientId, clientOut, toServer,
                   boundVars, exact>>

\* Bytes of a snapshot have, as a command, the size 0: the loop that splits the
\* message into commands never ends.
RecvGarbledTurn(c) ==
    /\ Reads(c, "CMDS")
    /\ toClient' = Receive(toClient, c)
    /\ ~Readable(Head(toClient[c]).cmds)
    /\ CatchUp(c, <<>>)
    /\ mode' = [mode EXCEPT ![c] = "hung"]
    /\ UNCHANGED <<connVars, gameVars, clientId, clientWaiting, clientOut, toServer,
                   boundVars, exact>>

\* One round of the inner loop of client_loop: the player may give an order, a
\* frame is run if the turn has one left, and logic_tick posts the orders when
\* the client is not waiting and post_delay has passed since its last post.
\* (no frame is run while the client waits for the next turn)
RunFrameUnlessWaiting(c) ==
    IF clientTicks[c] = 0 \/ clientWaiting[c]
    THEN UNCHANGED <<clientSim, clientTicks, clientIn>>
    ELSE /\ clientSim' = [clientSim EXCEPT ![c] = Execute(@, clientIn[c], 1, FALSE)]
         /\ clientIn' = [clientIn EXCEPT ![c] = <<>>]
         /\ clientTicks' = [clientTicks EXCEPT ![c] = @ - 1]

RunFrame(c) ==
    IF clientTicks[c] = 0 THEN UNCHANGED <<clientSim, clientTicks, clientIn>>
    ELSE /\ clientSim' = [clientSim EXCEPT
                             ![c] = Execute(@, clientIn[c], 1, clientWaiting[c])]
         /\ clientIn' = [clientIn EXCEPT ![c] = LeftQueued(@, 1, clientWaiting[c])]
         /\ clientTicks' = [clientTicks EXCEPT ![c] = @ - 1]

\* (nothing is posted when the player has given no order)
LogicTickOrdersOnly(c, orders, timerDue) ==
    IF clientWaiting[c] \/ ~timerDue \/ orders = <<>>
    THEN /\ clientOut' = [clientOut EXCEPT ![c] = orders]
         /\ UNCHANGED <<toServer, clientWaiting>>
    ELSE /\ toServer' = Send(toServer, c, Post(orders))
         /\ clientOut' = [clientOut EXCEPT ![c] = <<>>]
         /\ clientWaiting' = [clientWaiting EXCEPT ![c] = TRUE]

LogicTick(c, orders, timerDue) ==
    IF clientWaiting[c] \/ ~timerDue
    THEN /\ clientOut' = [clientOut EXCEPT ![c] = orders]
         /\ UNCHANGED <<toServer, clientWaiting>>
    ELSE /\ toServer' = Send(toServer, c, Post(orders))
         /\ clientOut' = [clientOut EXCEPT ![c] = <<>>]
         /\ clientWaiting' = [clientWaiting EXCEPT ![c] = TRUE]

ClientFrame(c, typed, timerDue) ==
    /\ mode[c] = "play"
    /\ RunFrame(c)
    /\ LogicTick(c, clientOut[c] \o typed, timerDue)
    /\ issued' = issued + Len(typed)
    /\ UNCHANGED <<connVars, gameVars, mode, clientId, toClient, turns, joins, exact>>

\* The player gives one order.
OrderFrame(c, kind, timerDue) ==
    /\ issued < MaxOrders
    /\ ClientFrame(c, <<[kind |-> kind, sender |-> clientId[c]]>>, timerDue)

QuietFrame(c, timerDue) == ClientFrame(c, <<>>, timerDue)

\* The player leaves, or the program ends in any other way: what was written
\* last may never be sent, and the server will read the end of the stream.
Leave(c, sent) ==
    /\ mode[c] # "off"
    /\ toServer' = [toServer EXCEPT ![c] = Append(SubSeq(@, 1, sent), Eof)]
    /\ toClient' = [toClient EXCEPT ![c] = <<>>]
    /\ mode' = [mode EXCEPT ![c] = "off"]
    /\ clientId' = [clientId EXCEPT ![c] = -1]
    /\ clientWaiting' = [clientWaiting EXCEPT ![c] = FALSE]
    /\ clientTicks' = [clientTicks EXCEPT ![c] = 0]
    /\ clientIn' = [clientIn EXCEPT ![c] = <<>>]
    /\ clientOut' = [clientOut EXCEPT ![c] = <<>>]
    /\ clientSim' = [clientSim EXCEPT ![c] = <<>>]
    /\ UNCHANGED <<connVars, gameVars, boundVars, exact>>

-----------------------------------------------------------------------------
ServerNext ==
    \/ \E s \in Slots : \/ Accept(s) \/ Greet(s)
                        \/ ReadCmds(s) \/ ReadConfirm(s) \/ ReadLogin(s) \/ ReadEof(s)
    \/ \E n \in FrameCounts : Turn(n)

ClientNext ==
    \E c \in Slots :
        \/ RecvCid(c) \/ RecvSnapshot(c) \/ RecvTurn(c) \/ RecvGarbledTurn(c)
        \/ \E timerDue \in BOOLEAN :
               QuietFrame(c, timerDue) \/ \E kind \in Orders : OrderFrame(c, kind, timerDue)
        \/ \E sent \in 0 .. Len(toServer[c]) : Leave(c, sent)

Next == ServerNext \/ ClientNext

Spec == Init /\ [][Next]_vars

\* The server loops over tcpserver_select and serves every readable connection
\* in each round; a client loops over tcpclient_select and its 30 Hz frames,
\* and post_delay is a fixed time.  Nobody has to join, to leave or to play.
Fairness ==
    /\ \A s \in Slots :
          /\ WF_vars(Greet(s))
          /\ WF_vars(ReadCmds(s)) /\ WF_vars(ReadConfirm(s))
          /\ WF_vars(ReadLogin(s)) /\ WF_vars(ReadEof(s))
          /\ WF_vars(RecvCid(s)) /\ WF_vars(RecvSnapshot(s))
          /\ WF_vars(RecvTurn(s)) /\ WF_vars(RecvGarbledTurn(s))
          /\ WF_vars(QuietFrame(s, TRUE))
    /\ WF_vars(\E n \in FrameCounts : Turn(n))

FairSpec == Spec /\ Fairness

-----------------------------------------------------------------------------
(* Properties.                                                             *)

\* Every variable keeps the type its C declaration and use give it; commands
\* always carry the id of a slot, never the -1 of a client without an id.
TypeOK ==
    /\ active \in [Slots -> BOOLEAN]
    /\ waiting \in [Slots -> BOOLEAN]
    /\ needsGreeting \in [Slots -> BOOLEAN]
    /\ bulk \in Seq(Command \union {Garbage})
    /\ serverIn \in Seq(Command)
    /\ serverSim \in Seq(Event)
    /\ mode \in [Slots -> {"off", "login", "play", "hung"}]
    /\ clientId \in [Slots -> Slots \union {-1}]
    /\ clientWaiting \in [Slots -> BOOLEAN]
    /\ clientTicks \in [Slots -> Nat]
    /\ clientIn \in [Slots -> Seq(Command)]
    /\ clientOut \in [Slots -> Seq(Command)]
    /\ clientSim \in [Slots -> Seq(Event)]
    /\ toClient \in [Slots -> Seq(ToClientMsg)]
    /\ toServer \in [Slots -> Seq(ToServerMsg)]
    /\ turns \in Nat /\ issued \in Nat /\ joins \in Nat
    /\ exact \in [Slots -> BOOLEAN]

Unconfirmed(s) == \E i \in 1 .. Len(toServer[s]) : toServer[s][i] = Confirm

\* No turn is run between the moment a joining client's snapshot is taken and
\* the moment its confirmation is read: until then the snapshot is the state of
\* the server (connections[i].waiting = 1 in the greeting loop of tick()).
SnapshotFresh ==
    \A s \in Slots :
        /\ mode[s] = "login" =>
               \A i \in 1 .. Len(toClient[s]) :
                   toClient[s][i].type = "SNAPSHOT" => toClient[s][i].sim = serverSim
        /\ mode[s] = "play" /\ Unconfirmed(s) => clientSim[s] = serverSim

\* The right to speak is never lost and never multiplies: turns under way,
\* answers under way, a server that need not wait and a client that need not
\* wait add up to one, or to two from the confirmation until the first answer
\* that arrives early.  At zero everyone would wait for everyone.
Credit(s) ==
    Len(toClient[s]) + Len(toServer[s])
        + (IF waiting[s] THEN 0 ELSE 1) + (IF clientWaiting[s] THEN 0 ELSE 1)

TurnCredit == \A s \in Slots : mode[s] = "play" => Credit(s) \in 1 .. 2

\* A client whose snapshot was complete has run a prefix of what the server has
\* run, the same commands before the same frames, whatever it still has to
\* receive; when nothing is left for it to do it has run all of it.
InStep(s) == exact[s] /\ mode[s] \in {"play", "hung"}

Agreement ==
    \A s \in Slots :
        InStep(s) =>
            /\ IsPrefix(clientSim[s], serverSim)
            /\ mode[s] = "play" /\ toClient[s] = <<>> /\ clientTicks[s] = 0
                   => clientSim[s] = serverSim

\* What a client gives or posts are orders of its own critter: it knows its id
\* before it can give the first one.  It says nothing of the orders of a player
\* that has left: those that were read stay with the server, and the next turn
\* runs them although the slot may have another player by then.
OwnOrders ==
    \A s \in Slots :
        mode[s] \in {"play", "hung"} =>
            /\ \A i \in 1 .. Len(clientOut[s]) : clientOut[s][i].sender = s
            /\ \A i \in 1 .. Len(toServer[s]) :
                   toServer[s][i].type = "CMDS" =>
                       \A j \in 1 .. Len(toServer[s][i].cmds) :
                           toServer[s][i].cmds[j].sender = s

\* The comments of process_message: CMDS are copied to the broadcast buffer
\* and parsed for the server simulation, so both end with the same commands.
BroadcastIntact == Readable(bulk)

\* A client the server waits for answers, unless it leaves or its turn was
\* garbled.
EveryTurnAnswered ==
    \A s \in Slots : mode[s] = "play" /\ waiting[s]
                        ~> ~waiting[s] \/ mode[s] \in {"off", "hung"}

\* A client that connected gets into the game, or leaves.
JoinCompletes == \A s \in Slots : mode[s] = "login" ~> mode[s] \in {"play", "off"}

\* The first k inputs the server has run are run in the end by every client
\* that is in step.
InputsRun(k) ==
    \A s \in Slots :
        InStep(s) /\ Len(serverSim) >= k
            ~> Len(clientSim[s]) >= k \/ mode[s] \in {"off", "hung"}

-----------------------------------------------------------------------------
(* Lockstep implements the game the players are promised: one history that *)
(* everybody watches.  A view is that of a client in step.                 *)

CONSTANT Absent

ASSUME AbsentAssumption == Absent \notin Seq(Event)

Shared == INSTANCE SharedGame WITH
    Players <- Slots,
    history <- serverSim,
    view <- [s \in Slots |-> IF InStep(s) THEN clientSim[s] ELSE Absent]

ImplementsSharedGame == Shared!Spec
=============================================================================
