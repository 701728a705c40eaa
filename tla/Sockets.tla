------------------------------ MODULE Sockets ------------------------------
(***************************************************************************)
(* core/socket.c under the two states of the game: a server with its table *)
(* of clients and their write buffers, clients that connect and leave, and *)
(* the two loops (server_read, client_read) that cut the stream of bytes   *)
(* into messages again.  A message has a header of HeaderLen bytes, which  *)
(* holds its size, and as many bytes as that.  TCP keeps the bytes in      *)
(* order; a recv returns any number of those that have arrived.            *)
(*                                                                         *)
(* A handler of a select round is an action.  The sets of a round are made *)
(* before it: they hold a client of the server for reading when its write  *)
(* buffer is empty and for writing otherwise, and no handler touches the   *)
(* write buffer of another client, so that the handlers can be taken one   *)
(* by one.  The exception sets are left out: urgent data is never sent.    *)
(***************************************************************************)
EXTENDS Naturals, Sequences, SequencesExt, FiniteSets

CONSTANTS
    MaxClients,     \* MAX_CLIENTS
    SockBufferLen,  \* SOCK_BUFFER_LEN
    HeaderLen,      \* 5: the type and the size
    Sizes,          \* sizes of the messages
    None,           \* no connection
    MaxConns,       \* bound: connections that are made
    MaxMessages     \* bound: messages that are written

ASSUME SocketsAssumption ==
    /\ MaxClients \in Nat \ {0} /\ SockBufferLen \in Nat \ {0} /\ HeaderLen \in Nat \ {0}
    /\ Sizes \subseteq Nat /\ MaxConns \in Nat /\ MaxMessages \in Nat
    /\ None \notin 1 .. MaxConns

Slots == 0 .. MaxClients - 1
Conns == 1 .. MaxConns
Ways  == {"up", "down"}   \* to the server, to the client

VARIABLES
    running,    \* the server runs
    clients,    \* clients[s]: the connection in the slot s
    buffers,    \* write_buffers[s]: the chunks to be sent
    begun,      \* begun[s]: what server_read has of a message that is not complete
    backlog,    \* connections to be accepted
    peer,       \* peer[c]: the client: its stage, its write buffer and what it has begun
    wire,       \* wire[w][c]: bytes on the way w
    written,    \* history: written[w][c], the messages written
    received,   \* history: received[w][c], the messages processed
    torn        \* history: ways on which a send took only a part of a chunk

vars == <<running, clients, buffers, begun, backlog, peer, wire, written, received, torn>>

-----------------------------------------------------------------------------
(* Messages, chunks and the loop that reads messages.                      *)

\* The bytes of a message: which message it is, its size, and their number.
Message(id, size) ==
    [k \in 1 .. HeaderLen + size |-> [id |-> id, size |-> size, at |-> k]]

Joined(seqs) ==
    LET upto[i \in 0 .. Len(seqs)] == IF i = 0 THEN <<>> ELSE upto[i - 1] \o seqs[i]
    IN  upto[Len(seqs)]

\* (everything goes into one chunk)
LoadDataWhole(chunks, data) == Append(chunks, data)

\* (what is left for the last chunk is forgotten)
LoadDataShort(chunks, data) ==
    chunks \o [i \in 1 .. Len(data) \div SockBufferLen |->
                  SubSeq(data, (i - 1) * SockBufferLen + 1, i * SockBufferLen)]

LoadData(chunks, data) ==
    LET Least(a, b) == IF a < b THEN a ELSE b
    IN  chunks \o [i \in 1 .. (Len(data) + SockBufferLen - 1) \div SockBufferLen |->
                      SubSeq(data, (i - 1) * SockBufferLen + 1,
                             Least(i * SockBufferLen, Len(data)))]

\* One byte more.  A header that is none has a size nobody wrote.
Feed(p, byte) ==
    LET got == Append(p.got, byte)
    IN  IF Len(got) < HeaderLen \/ p.lost THEN [p EXCEPT !.got = got]
        ELSE IF got[1].at # 1 THEN [p EXCEPT !.lost = TRUE]
        ELSE IF Len(got) = HeaderLen + got[1].size
             THEN [p EXCEPT !.got = <<>>, !.messages = Append(@, got)]
        ELSE [p EXCEPT !.got = got]

\* The loop over what a recv has returned.  When that ends inside a header the
\* loop runs past its end: the number of bytes it then copies is negative, and
\* the process does not survive it.
Parsed(got, buf) ==
    LET upto[i \in 0 .. Len(buf)] ==
            IF i = 0 THEN [got |-> got, messages |-> <<>>, lost |-> FALSE]
            ELSE Feed(upto[i - 1], buf[i])
        p == upto[Len(buf)]
    IN  [p EXCEPT !.lost = @ \/ Len(p.got) \in 1 .. HeaderLen - 1]

\* What recv can return.
Recv(bytes) == {n \in 1 .. SockBufferLen : n <= Len(bytes)}

-----------------------------------------------------------------------------
Init ==
    /\ running = TRUE
    /\ clients = [s \in Slots |-> None]
    /\ buffers = [s \in Slots |-> <<>>]
    /\ begun = [s \in Slots |-> <<>>]
    /\ backlog = <<>>
    /\ peer = [c \in Conns |-> [stage |-> "out", buffer |-> <<>>, begun |-> <<>>]]
    /\ wire = [w \in Ways |-> [c \in Conns |-> <<>>]]
    /\ written = [w \in Ways |-> [c \in Conns |-> <<>>]]
    /\ received = [w \in Ways |-> [c \in Conns |-> <<>>]]
    /\ torn = {}

In(c) == peer[c].stage = "in"

\* Number of the next message.
NextId == 1 + Cardinality({m \in Ways \X Conns \X (1 .. MaxMessages) :
                               m[3] <= Len(written[m[1]][m[2]])})

Connect(c) ==
    /\ running /\ peer[c].stage = "out" /\ \A d \in 1 .. c - 1 : peer[d].stage # "out"
    /\ peer' = [peer EXCEPT ![c].stage = "in"]
    /\ backlog' = Append(backlog, c)
    /\ UNCHANGED <<running, clients, buffers, begun, wire, written, received, torn>>

FreeSlots == {s \in Slots : clients[s] = None}

\* (what the last client of the slot has begun is kept)
AcceptKeeping(s) ==
    /\ clients' = [clients EXCEPT ![s] = Head(backlog)]
    /\ UNCHANGED begun

\* The accept handler forgets what the last client of the slot has begun.
AcceptInto(s) ==
    /\ clients' = [clients EXCEPT ![s] = Head(backlog)]
    /\ begun' = [begun EXCEPT ![s] = <<>>]

\* Without a free slot nothing becomes of the connection: it is not closed.
Accept ==
    /\ running /\ backlog # <<>> /\ backlog' = Tail(backlog)
    /\ IF FreeSlots = {} THEN UNCHANGED <<clients, begun>>
       ELSE AcceptInto(CHOOSE s \in FreeSlots : \A t \in FreeSlots : s <= t)
    /\ UNCHANGED <<running, buffers, peer, wire, written, received, torn>>

FreeConnection(s) ==
    /\ clients' = [clients EXCEPT ![s] = None]
    /\ buffers' = [buffers EXCEPT ![s] = <<>>]

ServerWrite(s, size) ==
    /\ running /\ clients[s] # None /\ NextId <= MaxMessages
    /\ LET m == Message(NextId, size)
       IN  /\ buffers' = [buffers EXCEPT ![s] = LoadData(@, m)]
           /\ written' = [written EXCEPT !["down"][clients[s]] = Append(@, m)]
    /\ UNCHANGED <<running, clients, begun, backlog, peer, wire, received, torn>>

ServerRead(s) ==
    /\ running /\ clients[s] # None /\ buffers[s] = <<>>
    /\ \E n \in Recv(wire["up"][clients[s]]) :
           LET c == clients[s]
               p == Parsed(begun[s], SubSeq(wire["up"][c], 1, n))
           IN  /\ wire' = [wire EXCEPT !["up"][c] = SubSeq(@, n + 1, Len(@))]
               /\ begun' = [begun EXCEPT ![s] = p.got]
               /\ received' = [received EXCEPT !["up"][c] = @ \o p.messages]
               /\ running' = ~p.lost
    /\ UNCHANGED <<clients, buffers, backlog, peer, written, torn>>

ServerEof(s) ==
    /\ running /\ clients[s] # None /\ buffers[s] = <<>>
    /\ peer[clients[s]].stage = "left" /\ wire["up"][clients[s]] = <<>>
    /\ FreeConnection(s)
    /\ UNCHANGED <<running, begun, backlog, peer, wire, written, received, torn>>

\* (the last chunk is kept until there is another one)
MaySendNotLast(chunks) == Len(chunks) > 1

MaySend(chunks) == chunks # <<>>

\* A chunk is gone, whatever part of it send takes.
ServerSend(s) ==
    /\ running /\ clients[s] # None /\ MaySend(buffers[s]) /\ In(clients[s])
    /\ \E n \in 0 .. Len(Head(buffers[s])) :
           LET c == clients[s]
           IN  /\ wire' = [wire EXCEPT !["down"][c] = @ \o SubSeq(Head(buffers[s]), 1, n)]
               /\ torn' = IF n = Len(Head(buffers[s])) THEN torn
                          ELSE torn \union {<<"down", c>>}
    /\ buffers' = [buffers EXCEPT ![s] = Tail(@)]
    /\ UNCHANGED <<running, clients, begun, backlog, peer, written, received>>

\* To a client that has left a first send succeeds; a later one raises SIGPIPE,
\* which nobody catches.
ServerSendInVain(s) ==
    /\ running /\ clients[s] # None /\ MaySend(buffers[s]) /\ ~In(clients[s])
    /\ running' \in BOOLEAN
    /\ buffers' = [buffers EXCEPT ![s] = Tail(@)]
    /\ UNCHANGED <<clients, begun, backlog, peer, wire, written, received, torn>>

-----------------------------------------------------------------------------
ClientWrite(c, size) ==
    /\ In(c) /\ NextId <= MaxMessages
    /\ LET m == Message(NextId, size)
       IN  /\ peer' = [peer EXCEPT ![c].buffer = LoadData(@, m)]
           /\ written' = [written EXCEPT !["up"][c] = Append(@, m)]
    /\ UNCHANGED <<running, clients, buffers, begun, backlog, wire, received, torn>>

\* The end of the client: its write buffer is gone, and of what is on the way
\* to the server the end may be lost.
Gone(c, kept) ==
    /\ peer' = [peer EXCEPT ![c] = [stage |-> "left", buffer |-> <<>>, begun |-> <<>>]]
    /\ wire' = [wire EXCEPT !["up"][c] = SubSeq(@, 1, kept), !["down"][c] = <<>>]

ClientRead(c) ==
    /\ In(c)
    /\ \E n \in Recv(wire["down"][c]) :
           LET p == Parsed(peer[c].begun, SubSeq(wire["down"][c], 1, n))
           IN  /\ received' = [received EXCEPT !["down"][c] = @ \o p.messages]
               /\ \/ /\ ~p.lost
                     /\ peer' = [peer EXCEPT ![c].begun = p.got]
                     /\ wire' = [wire EXCEPT !["down"][c] = SubSeq(@, n + 1, Len(@))]
                  \/ p.lost /\ Gone(c, Len(wire["up"][c]))
    /\ UNCHANGED <<running, clients, buffers, begun, backlog, written, torn>>

ClientSend(c) ==
    /\ In(c) /\ MaySend(peer[c].buffer) /\ running
    /\ \E n \in 0 .. Len(Head(peer[c].buffer)) :
           /\ wire' = [wire EXCEPT !["up"][c] = @ \o SubSeq(Head(peer[c].buffer), 1, n)]
           /\ torn' = IF n = Len(Head(peer[c].buffer)) THEN torn
                      ELSE torn \union {<<"up", c>>}
    /\ peer' = [peer EXCEPT ![c].buffer = Tail(@)]
    /\ UNCHANGED <<running, clients, buffers, begun, backlog, written, received>>

\* The disconnect handler ends the process.
ClientEof(c) ==
    /\ In(c) /\ ~running /\ wire["down"][c] = <<>>
    /\ Gone(c, 0)
    /\ UNCHANGED <<running, clients, buffers, begun, backlog, written, received, torn>>

Leave(c) ==
    /\ In(c)
    /\ \E kept \in 0 .. Len(wire["up"][c]) : Gone(c, kept)
    /\ UNCHANGED <<running, clients, buffers, begun, backlog, written, received, torn>>

ServerSelect(s) ==
    ServerRead(s) \/ ServerEof(s) \/ ServerSend(s) \/ ServerSendInVain(s)

Next ==
    \/ Accept
    \/ \E s \in Slots : ServerSelect(s) \/ \E size \in Sizes : ServerWrite(s, size)
    \/ \E c \in Conns : \/ Connect(c) \/ ClientRead(c) \/ ClientSend(c)
                        \/ ClientEof(c) \/ Leave(c)
                        \/ \E size \in Sizes : ClientWrite(c, size)

Spec == Init /\ [][Next]_vars

\* Both programs call select again and again, and a round of it serves every
\* socket that is ready.
FairSpec ==
    /\ Spec /\ WF_vars(Accept)
    /\ \A s \in Slots : WF_vars(ServerSelect(s))
    /\ \A c \in Conns : WF_vars(ClientRead(c)) /\ WF_vars(ClientSend(c)) /\ WF_vars(ClientEof(c))

-----------------------------------------------------------------------------
(* Properties.                                                             *)

Bytes == [id : 1 .. MaxMessages, size : Sizes, at : Nat \ {0}]

\* A chunk is neither empty nor longer than the buffer of select.
Chunks == {chunk \in Seq(Bytes) : Len(chunk) \in 1 .. SockBufferLen}

\* Of a message that is not complete there is at least the header: server_read
\* goes on with it by its size.
IsBegun(got) ==
    /\ got \in Seq(Bytes)
    /\ got # <<>> => Len(got) >= HeaderLen /\ Len(got) < HeaderLen + got[1].size

\* Tables and buffers hold connections, chunks and the beginnings of messages.
TypeOK ==
    /\ running \in BOOLEAN
    /\ clients \in [Slots -> Conns \union {None}] /\ Range(backlog) \subseteq Conns
    /\ \A s \in Slots : buffers[s] \in Seq(Chunks)
    /\ \A c \in Conns : /\ peer[c].stage \in {"out", "in", "left"}
                        /\ peer[c].buffer \in Seq(Chunks)
                        /\ IsBegun(peer[c].begun)
                        /\ \A w \in Ways : wire[w][c] \in Seq(Bytes)
    /\ running => \A s \in Slots : IsBegun(begun[s])
    /\ torn \subseteq Ways \X Conns

HasSlot(c) == \E s \in Slots : clients[s] = c
SlotOf(c)  == CHOOSE s \in Slots : clients[s] = c

\* The bytes of a connection that have been written and not processed yet: begun,
\* on the way and in the write buffer.
BegunOf(w, c) ==
    IF w = "down" THEN peer[c].begun
    ELSE IF HasSlot(c) THEN begun[SlotOf(c)] ELSE <<>>

QueuedOf(w, c) ==
    IF w = "up" THEN Joined(peer[c].buffer)
    ELSE IF HasSlot(c) /\ In(c) THEN Joined(buffers[SlotOf(c)]) ELSE <<>>

Unread(w, c) == BegunOf(w, c) \o wire[w][c] \o QueuedOf(w, c)

\* The whole messages among them, and what is left of another one.
Ends(byte) == byte.at = HeaderLen + byte.size

Group(p, byte) ==
    IF Ends(byte) THEN [open |-> <<>>, whole |-> Append(p.whole, Append(p.open, byte))]
    ELSE [open |-> Append(p.open, byte), whole |-> p.whole]

Grouped(bytes) ==
    LET upto[i \in 0 .. Len(bytes)] ==
            IF i = 0 THEN [open |-> <<>>, whole |-> <<>>] ELSE Group(upto[i - 1], bytes[i])
    IN  upto[Len(bytes)]

WholeMessages(bytes) == Grouped(bytes).whole

\* A way on which a send was cut short.
Broken == [broken |-> TRUE]

Way(w, c) ==
    IF <<w, c>> \in torn THEN Broken
    ELSE [transit |-> WholeMessages(Unread(w, c)), delivered |-> received[w][c]]

Messages == {Message(id, size) : id \in 1 .. MaxMessages, size \in Sizes}
Channels == [w \in Ways |-> [c \in Conns |-> Way(w, c)]]
Left     == {c \in Conns : peer[c].stage = "left"}

Under == INSTANCE Channel WITH channel <- Channels, left <- Left

\* As long as no send was cut short a connection is a pair of queues of whole
\* messages: each end processes them as they were written, once and in order,
\* however recv divides the bytes and whoever had the slot before; none is lost
\* but at the end of what a client that leaves has written.
ImplementsChannel == Under!Spec

\* Every message arrives as long as both ends run, although the server does not
\* read from a client that it has something to send to.  It need not when the
\* client was refused or a send was cut short.
Over(w, c) ==
    ~running \/ ~In(c) \/ <<w, c>> \in torn \/ ~(HasSlot(c) \/ c \in Range(backlog))

EveryMessageArrives ==
    \A w \in Ways, c \in Conns : \A n \in 1 .. MaxMessages :
        Len(written[w][c]) >= n ~> (Len(received[w][c]) >= n \/ Over(w, c))

\* tcpserver_select, socket.c:471: "else refuse connection".  A client that was
\* refused learns of it, so that it need not wait for its snapshot for ever.
Refused(c) == running /\ In(c) /\ c \notin Range(backlog) /\ ~HasSlot(c)

RefusedIsTold == \A c \in Conns : Refused(c) ~> ~Refused(c)
=============================================================================
