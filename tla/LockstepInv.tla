---------------------------- MODULE LockstepInv ----------------------------
(***************************************************************************)
(* The inductive invariant of Lockstep.  It follows a client from the      *)
(* accept to the game: which messages may be under way in each stage, and  *)
(* what the server and the client then are.                                *)
(***************************************************************************)
EXTENDS Lockstep

OwnCommand(s) == [kind : Orders \union {"SetLogin"}, sender : {s}]
OwnPost(s)    == [type : {"CMDS"}, cmds : Seq(OwnCommand(s))]
Turns         == [type : {"CMDS"}, frames : FrameCounts,
                  cmds : Seq(Command \union {Garbage})]

\* Nothing of a game is left in a client program that does not run.
OffStage(s) ==
    mode[s] = "off" =>
        /\ clientId[s] = -1 /\ ~clientWaiting[s] /\ clientTicks[s] = 0
        /\ clientIn[s] = <<>> /\ clientOut[s] = <<>>

\* Accepted; then greeted, from where on the server waits for the slot; then
\* the login is read and the snapshot sent, which is the state of the server.
Accepted(s) ==
    /\ needsGreeting[s]
    /\ toServer[s] = <<Login>> /\ toClient[s] = <<>>

LoginUnread(s) ==
    /\ ~needsGreeting[s] /\ waiting[s]
    /\ toServer[s] = <<Login>>
    /\ \/ toClient[s] = <<Cid(s)>>
       \/ toClient[s] = <<>> /\ clientId[s] = s

SnapshotSent(s) ==
    /\ ~needsGreeting[s] /\ waiting[s]
    /\ toServer[s] = <<>>
    /\ \/ toClient[s] = <<Cid(s), Snapshot(serverSim)>>
       \/ toClient[s] = <<Snapshot(serverSim)>> /\ clientId[s] = s

LoginStage(s) ==
    mode[s] = "login" =>
        /\ active[s] /\ ~clientWaiting[s] /\ clientTicks[s] = 0
        /\ clientIn[s] = <<>> /\ clientOut[s] = <<>>
        /\ Accepted(s) \/ LoginUnread(s) \/ SnapshotSent(s)

\* In the game, the confirmation not read yet, the first orders posted or not.
Confirming(s) ==
    /\ waiting[s] /\ toClient[s] = <<>> /\ clientSim[s] = serverSim
    /\ clientTicks[s] = 0 /\ clientIn[s] = <<>>
    /\ \/ toServer[s] = <<Confirm>> /\ ~clientWaiting[s]
       \/ /\ clientWaiting[s]
          /\ Len(toServer[s]) = 2 /\ toServer[s][1] = Confirm
          /\ toServer[s][2] \in OwnPost(s)

\* In the game: turns come, orders go, and the credit is one or two.
InGame(s) ==
    /\ toClient[s] \in Seq(Turns)
    /\ toServer[s] \in Seq(OwnPost(s))
    /\ Credit(s) \in 1 .. 2

PlayStage(s) ==
    mode[s] = "play" =>
        /\ active[s] /\ ~needsGreeting[s] /\ clientId[s] = s
        /\ clientOut[s] \in Seq(OwnCommand(s))
        /\ Confirming(s) \/ InGame(s)

HungStage(s) ==
    mode[s] = "hung" =>
        /\ active[s] /\ ~needsGreeting[s] /\ clientId[s] = s
        /\ clientOut[s] \in Seq(OwnCommand(s))
        /\ toServer[s] \in Seq(OwnPost(s))

SlotInv(s) == OffStage(s) /\ LoginStage(s) /\ PlayStage(s) /\ HungStage(s)

\* Every slot is in one of the stages: the handshake of tcpclientstate_login,
\* the greeting loop and process_message, then the exchange of turns and orders.
JoinStages == \A s \in Slots : SlotInv(s)

IInv == TypeOK /\ JoinStages

-----------------------------------------------------------------------------
(* What a client in step still has to run leads to where the server is.    *)

\* A simulation that has run all the server has, and whose queue holds what the
\* server's holds but for the orders of the next broadcast.
Level(sim, queue) ==
    /\ sim = serverSim
    /\ Readable(bulk) => serverIn = queue \o bulk

\* The simulation and its queue after the turn m.
SimAfter(sim, queue, m)   == Execute(sim, queue \o m.cmds, m.frames, FALSE)
QueueAfter(queue, m)      == LeftQueued(queue \o m.cmds, m.frames, FALSE)

\* One turn behind, and two turns, which is as many as can be under way.
OneBehind(sim, queue, m) ==
    /\ IsPrefix(sim, serverSim)
    /\ Readable(m.cmds) => Level(SimAfter(sim, queue, m), QueueAfter(queue, m))

TwoBehind(sim, queue, m, n) ==
    /\ IsPrefix(sim, serverSim)
    /\ Readable(m.cmds) => OneBehind(SimAfter(sim, queue, m), QueueAfter(queue, m), n)

\* A client that has run the frames of the turn it is in.
SimDue(s)   == Execute(clientSim[s], clientIn[s], clientTicks[s], clientWaiting[s])
QueueDue(s) == LeftQueued(clientIn[s], clientTicks[s], clientWaiting[s])

\* Orders do not wait behind frames while the client waits: the first frame of a
\* turn takes them all, and the client answers only after that.
RunsOrdersFirst(s) == clientWaiting[s] /\ clientTicks[s] > 0 => clientIn[s] = <<>>

Follows(s) ==
    /\ RunsOrdersFirst(s)
    /\ toClient[s] = <<>> => Level(SimDue(s), QueueDue(s))
    /\ Len(toClient[s]) = 1 => OneBehind(SimDue(s), QueueDue(s), toClient[s][1])
    /\ Len(toClient[s]) = 2 =>
           TwoBehind(SimDue(s), QueueDue(s), toClient[s][1], toClient[s][2])

TrackInv(s) ==
    exact[s] =>
        /\ mode[s] = "login" /\ toServer[s] = <<>> => Level(serverSim, <<>>)
        /\ mode[s] = "play" => Follows(s)
        /\ mode[s] = "hung" => IsPrefix(clientSim[s], serverSim)

\* A client that was given all of the game is at most two turns behind it, and
\* these turns are all that it lacks.
OnTrack == \A s \in Slots : TrackInv(s)
=============================================================================
