------------------------------ MODULE Network ------------------------------
(***************************************************************************)
(* The TCP network layer of the server, the reassembly of messages from    *)
(* the byte streams, and the main loop that takes jobs from the layer and  *)
(* processes them, in the single-threaded build.  The peers connect, send  *)
(* their streams in arbitrary pieces and close at any time, and a signal   *)
(* handler may stop the server between any two steps.                      *)
(*                                                                         *)
(* A stream is a sequence of messages, each with a type and a length.  On  *)
(* the wire a message is a sequence of cells, of which only the first      *)
(* looks like the beginning of a message.  A cell stands for some bytes,   *)
(* but a buffer of one cell is a buffer of one byte and HeaderSize cells   *)
(* are the 16 bytes that completeMessages inspects.  The services behind a *)
(* message, and the channels, are those of ChannelSession; here a message  *)
(* is answered or makes the server close the connection.  Of an answer     *)
(* only its length is kept; it goes through a send buffer of the operating *)
(* system that the peer empties, or not.  Failing allocations are left     *)
(* out.                                                                    *)
(***************************************************************************)
EXTENDS Integers, SequencesExt

CONSTANTS
    Peers,           \* clients, each of which connects at most once
    Fds,             \* the descriptors the operating system can hand out
    Scenarios,       \* what the peers will send: functions from peers to streams
    HeaderSize,      \* cells completeMessages needs to see, 16 bytes in the code
    MaxMessageSize,  \* localConf.maxMessageSize
    RecvBufferSize,  \* localConf.recvBufferSize
    AnswerSizes,     \* cells of the answers
    SendBufferSize   \* cells the operating system keeps for a peer that does not read

MessageTypes == {"HEL", "OPN", "MSG", "CLO", "ACK", "BAD"}

ASSUME NetworkAssumption ==
    /\ Fds \subseteq Nat
    /\ HeaderSize \in Nat \ {0, 1}
    /\ MaxMessageSize \in Nat
    /\ RecvBufferSize \in Nat \ {0}
    /\ AnswerSizes \subseteq Nat \ {0}
    /\ SendBufferSize \in Nat \ {0}
    /\ \A sc \in Scenarios : \A p \in Peers : \A i \in DOMAIN sc[p] :
          sc[p][i].type \in MessageTypes /\ sc[p][i].len \in Nat \ {0}

VARIABLES
    streams,     \* what each peer sends in this behaviour
    peers,       \* state of each peer and the number of cells it has sent
    sockets,     \* the open descriptors: peer, received cells, cells to send, eof, shutdown
    connections, \* UA_Connection of each peer whose socket was accepted
    handled,     \* history: the cells of the messages processed per peer
    single,      \* history: peers of which one byte was read on its own
    mappings,    \* layer->mappings
    fdset,       \* the descriptors select reported
    resultsize,  \* its result without the listening socket
    index,       \* the mapping getJobs looks at
    jobs,        \* the jobs of this iteration
    sending,     \* the answer socket_write is sending: its peer, length and nWritten
    running,     \* *running, cleared by a signal handler
    stops,       \* history: how often the layer was stopped
    pc           \* where the main thread is

vars == <<streams, peers, sockets, connections, handled, single, mappings,
          fdset, resultsize, index, jobs, sending, running, stops, pc>>

server == <<connections, handled, single, mappings, fdset, resultsize, index,
            jobs, sending, stops, pc>>

NoSocket == [open |-> FALSE]
NoSend == [to |-> {}, size |-> 0, written |-> 0]
NoConnection == [state |-> "none", sockfd |-> 0, incomplete |-> <<>>, freed |-> FALSE]

Init ==
    /\ streams \in Scenarios
    /\ peers = [p \in Peers |-> [state |-> "new", sent |-> 0]]
    /\ sockets = [fd \in Fds |-> NoSocket]
    /\ connections = [p \in Peers |-> NoConnection]
    /\ handled = [p \in Peers |-> <<>>]
    /\ single = {}
    /\ mappings = <<>>
    /\ fdset = {}
    /\ resultsize = 0
    /\ index = 1
    /\ jobs = <<>>
    /\ sending = NoSend
    /\ running = TRUE
    /\ stops = 0
    /\ pc = "top"

-----------------------------------------------------------------------------
(* Streams and their reassembly *)

\* The cells of message i of a peer
MessageCells(p, i) == [k \in 1..streams[p][i].len |-> [message |-> i, at |-> k]]

\* All the cells of a peer's stream
Cells(p) == FlattenSeq([i \in DOMAIN streams[p] |-> MessageCells(p, i)])

\* A cell begins a message of a known type with an allowed length
ValidHeader(p, cell) ==
    /\ cell.at = 1
    /\ streams[p][cell.message].type # "BAD"
    /\ streams[p][cell.message].len \in HeaderSize..MaxMessageSize

\* The loop of UA_Connection_completeMessages: the position after the last
\* complete message and the point after which everything is thrown away
Complete(p, buf) ==
    LET n == Len(buf)
        from[pos \in 0..n] ==
            IF n - pos < HeaderSize THEN [pos |-> pos, deleteAt |-> n - 1]
            ELSE IF ~ValidHeader(p, buf[pos + 1]) THEN [pos |-> pos, deleteAt |-> pos]
            ELSE LET length == streams[p][buf[pos + 1].message].len
                 IN  IF pos + length > n THEN [pos |-> pos, deleteAt |-> n - 1]
                     ELSE from[pos + length]
    IN  from[0]

\* Mutant: what follows the last complete message is not kept
completeMessagesOnly(p, incomplete, received) ==
    LET buf == incomplete \o received
        c   == Complete(p, buf)
    IN  IF c.deleteAt = 0 THEN [message |-> <<>>, incomplete |-> <<>>]
        ELSE [message    |-> SubSeq(buf, 1, c.pos),
              incomplete |-> IF c.pos = 0 THEN buf ELSE <<>>]

\* UA_Connection_completeMessages: the cells handed to the server and those
\* that wait in incompleteMessage for more
completeMessages(p, incomplete, received) ==
    LET buf == incomplete \o received
        c   == Complete(p, buf)
    IN  IF c.deleteAt = 0 THEN [message |-> <<>>, incomplete |-> <<>>]
        ELSE [message    |-> SubSeq(buf, 1, c.pos),
              incomplete |-> SubSeq(buf, c.pos + 1, Len(buf))]

\* The messages in a buffer of complete ones
MessagesIn(cells) ==
    LET first == SelectSeq(cells, LAMBDA cell : cell.at = 1)
    IN  [i \in DOMAIN first |-> first[i].message]

-----------------------------------------------------------------------------
(* The peers and the sockets *)

Open(fd) == sockets[fd].open

\* The server has not closed the socket of p
SocketOpen(p) == \E fd \in Fds : Open(fd) /\ sockets[fd].peer = p

\* A peer's connection request waits in the backlog of the listening socket
PeerConnects(p) ==
    /\ peers[p].state = "new"
    /\ running
    /\ peers' = [peers EXCEPT ![p].state = "backlog"]
    /\ UNCHANGED <<streams, sockets, running>> /\ UNCHANGED server

\* The next n cells of a peer's stream arrive at its socket
PeerSends(p, n) ==
    /\ peers[p].state = "connected" /\ SocketOpen(p)
    /\ n \in 1..(Len(Cells(p)) - peers[p].sent)
    /\ peers' = [peers EXCEPT ![p].sent = @ + n]
    /\ sockets' = [fd \in Fds |->
                     IF Open(fd) /\ sockets[fd].peer = p
                     THEN [sockets[fd] EXCEPT !.in =
                             @ \o SubSeq(Cells(p), peers[p].sent + 1, peers[p].sent + n)]
                     ELSE sockets[fd]]
    /\ UNCHANGED <<streams, running>> /\ UNCHANGED server

\* A peer closes its end, or resets the connection and what was not read is lost
PeerCloses(p, how) ==
    /\ peers[p].state = "connected" /\ SocketOpen(p)
    /\ peers' = [peers EXCEPT ![p].state = how]
    /\ sockets' = [fd \in Fds |->
                     IF Open(fd) /\ sockets[fd].peer = p
                     THEN [sockets[fd] EXCEPT !.eof = TRUE,
                                              !.in = IF how = "reset" THEN <<>> ELSE @]
                     ELSE sockets[fd]]
    /\ UNCHANGED <<streams, running>> /\ UNCHANGED server

\* A peer reads what was sent to it
PeerReads(p) ==
    /\ peers[p].state = "connected"
    /\ \E fd \in Fds :
         /\ Open(fd) /\ sockets[fd].peer = p /\ sockets[fd].out > 0
         /\ sockets' = [sockets EXCEPT ![fd].out = 0]
    /\ UNCHANGED <<streams, peers, running>> /\ UNCHANGED server

\* The signal handler of the application
Signal ==
    /\ running
    /\ running' = FALSE
    /\ UNCHANGED <<streams, peers, sockets>> /\ UNCHANGED server

Peer == \E p \in Peers : \/ PeerConnects(p)
                         \/ \E n \in 1..Len(Cells(p)) : PeerSends(p, n)
                         \/ \E how \in {"closed", "reset"} : PeerCloses(p, how)
                         \/ PeerReads(p)

\* socket_close on the socket of a connection.  When the descriptor has been
\* closed before the calls fail and nothing happens.
socket_close(p, cs, ss) ==
    [connections |-> [cs EXCEPT ![p].state = "CLOSED"],
     sockets     |-> [ss EXCEPT ![cs[p].sockfd] = NoSocket]]

\* ServerNetworkLayerTCP_closeConnection only shuts the socket down
closeConnection(p, cs, ss) ==
    IF cs[p].state = "CLOSED" THEN [connections |-> cs, sockets |-> ss]
    ELSE [connections |-> [cs EXCEPT ![p].state = "CLOSED"],
          sockets     |-> IF ss[cs[p].sockfd].open
                          THEN [ss EXCEPT ![cs[p].sockfd].shut = TRUE]
                          ELSE ss]

\* send on the socket of p may fail: it is shut down, or the peer has closed it
SendMayFail(p) ==
    LET fd == connections[p].sockfd
    IN  ~Open(fd) \/ sockets[fd].shut \/ sockets[fd].eof

\* The cells that send takes at most: what is left of the send buffer
SendRoom(p) ==
    LET fd == connections[p].sockfd
    IN  IF ~Open(fd) \/ sockets[fd].shut THEN 0
        ELSE Min({sending.size, SendBufferSize - sockets[fd].out})

\* The failure of socket_write: the connection is closed and, in addition, the
\* descriptor
WriteFailed(p) ==
    LET c == closeConnection(p, connections, sockets)
    IN  socket_close(p, c.connections, c.sockets)

-----------------------------------------------------------------------------
(* ServerNetworkLayerTCP_getJobs *)

\* select reports a socket with data, at its end or shut down
Ready(fd) == sockets[fd].in # <<>> \/ sockets[fd].eof \/ sockets[fd].shut

MappedFds == {mappings[i].sockfd : i \in DOMAIN mappings}

\* Some descriptor of the mappings is not open: select fails with EBADF
SelectFails == \E fd \in MappedFds : ~Open(fd)

Backlog == {p \in Peers : peers[p].state = "backlog"}

\* accept gets the lowest free descriptor
FreeFd == CHOOSE fd \in Fds : ~Open(fd) /\ \A other \in Fds : ~Open(other) => fd <= other

\* A fresh UA_Connection
NewConnection(fd) ==
    [state |-> "OPENING", sockfd |-> fd, incomplete |-> <<>>, freed |-> FALSE]

\* ServerNetworkLayerTCP_add and the accept before it
AcceptConnection(p) ==
    /\ sockets' = [sockets EXCEPT ![FreeFd] =
                     [open |-> TRUE, peer |-> p, in |-> <<>>, out |-> 0, eof |-> FALSE, shut |-> FALSE]]
    /\ connections' = [connections EXCEPT ![p] = NewConnection(FreeFd)]
    /\ mappings' = Append(mappings, [connection |-> p, sockfd |-> FreeFd])
    /\ peers' = [peers EXCEPT ![p].state = "connected"]

\* The head of the main loop: running was read, the repeated jobs are next
LoopTest ==
    /\ pc = "top"
    /\ pc' = IF running THEN "loop" ELSE "shutdown"
    /\ UNCHANGED <<streams, peers, sockets, connections, handled, single,
                   mappings, fdset, resultsize, index, jobs, sending, running, stops>>

\* setFDSet, select and the acceptance of one new connection, whose socket is
\* not part of the set yet.  FD_SETs are by descriptor.
Select ==
    /\ pc = "loop" /\ running /\ ~SelectFails
    /\ fdset' = {fd \in MappedFds : Ready(fd)}
    /\ resultsize' = Cardinality(fdset')
    /\ \/ /\ Backlog = {}
          /\ UNCHANGED <<peers, sockets, connections, mappings>>
       \/ \E p \in Backlog : AcceptConnection(p)
    /\ index' = 1
    /\ jobs' = <<>>
    /\ pc' = IF resultsize' = 0 THEN "top" ELSE "scan"
    /\ UNCHANGED <<streams, handled, single, sending, running, stops>>

\* select fails: getJobs returns nothing
SelectError ==
    /\ pc = "loop" /\ running /\ SelectFails
    /\ pc' = "top"
    /\ UNCHANGED <<streams, peers, sockets, connections, handled, single,
                   mappings, fdset, resultsize, index, jobs, sending, running, stops>>

\* Mutant: the last mapping is left out
ScanningBeforeLast == index < Len(mappings) /\ Len(jobs) < resultsize

\* The loop of getJobs goes on while there are mappings and, by its own count,
\* room for jobs
Scanning == index <= Len(mappings) /\ Len(jobs) < resultsize

\* Mutant: the mappings are cut short and the last one is not moved
CutShort == SubSeq(mappings, 1, Len(mappings) - 1)

\* The mappings after the one at index was replaced by the last
SwappedWithLast ==
    LET last == Len(mappings)
    IN  [i \in 1..(last - 1) |-> IF i = index THEN mappings[last] ELSE mappings[i]]

\* Mutant: the connection is freed before it is detached
CleanupJobsSwapped(p) == <<[type |-> "FREE", connection |-> p],
                           [type |-> "DETACH", connection |-> p]>>

\* Mutant: the connection is never freed
CleanupJobsDetachOnly(p) == <<[type |-> "DETACH", connection |-> p]>>

\* The jobs that clean up after a connection and free it
CleanupJobs(p) == <<[type |-> "DETACH", connection |-> p],
                    [type |-> "FREE", connection |-> p]>>

\* The job for the complete messages of a buffer, if it has any
MessageJobs(p, cells) ==
    IF cells = <<>> THEN <<>>
    ELSE <<[type |-> "MESSAGE", connection |-> p, messages |-> MessagesIn(cells)]>>

\* The socket of this mapping has not been reported
ScanOther ==
    /\ pc = "scan" /\ Scanning
    /\ mappings[index].sockfd \notin fdset
    /\ index' = index + 1
    /\ UNCHANGED <<streams, peers, sockets, connections, handled, single,
                   mappings, fdset, resultsize, jobs, sending, running, stops, pc>>

\* socket_recv returns data.  The job has all complete messages of the buffer.
ScanData ==
    /\ pc = "scan" /\ Scanning
    /\ LET p        == mappings[index].connection
           fd       == connections[p].sockfd
           in       == sockets[fd].in
           n        == IF Len(in) < RecvBufferSize THEN Len(in) ELSE RecvBufferSize
           received == SubSeq(in, 1, n)
           complete == completeMessages(p, connections[p].incomplete, received)
       IN  /\ mappings[index].sockfd \in fdset
           /\ in # <<>>
           /\ sockets' = [sockets EXCEPT ![fd].in = SubSeq(@, n + 1, Len(@))]
           /\ connections' = [connections EXCEPT ![p].incomplete = complete.incomplete]
           /\ jobs' = jobs \o MessageJobs(p, complete.message)
           /\ single' = IF n = 1 /\ connections[p].incomplete = <<>>
                        THEN single \cup {p} ELSE single
    /\ index' = index + 1
    /\ UNCHANGED <<streams, peers, handled, mappings, fdset, resultsize, sending,
                   running, stops, pc>>

\* socket_recv finds the end of the stream and closes the socket.  The last
\* mapping takes the place of this one and is not looked at any more.
ScanClosed ==
    /\ pc = "scan" /\ Scanning
    /\ LET p      == mappings[index].connection
           fd     == connections[p].sockfd
           closed == socket_close(p, connections, sockets)
       IN  /\ mappings[index].sockfd \in fdset
           /\ sockets[fd].in = <<>> /\ (sockets[fd].eof \/ sockets[fd].shut)
           /\ connections' = closed.connections
           /\ sockets' = closed.sockets
           /\ jobs' = jobs \o CleanupJobs(p)
    /\ mappings' = SwappedWithLast
    /\ index' = index + 1
    /\ UNCHANGED <<streams, peers, handled, single, fdset, resultsize, sending,
                   running, stops, pc>>

\* getJobs returns, and its local variables are gone
ScanEnds ==
    /\ pc = "scan" /\ ~Scanning
    /\ pc' = "process"
    /\ fdset' = {} /\ resultsize' = 0 /\ index' = 1
    /\ UNCHANGED <<streams, peers, sockets, connections, handled, single,
                   mappings, jobs, sending, running, stops>>

-----------------------------------------------------------------------------
(* UA_Server_processBinaryMessage, one message at a time *)

\* What a message does to the connection, whether it is answered, and whether the
\* rest of the buffer is processed.  An OPN the server refuses, or an MSG with the
\* wrong token, makes it close the connection.
Effects(p, type) ==
    LET established == connections[p].state = "ESTABLISHED"
        nothing     == [connections |-> connections, sockets |-> sockets]
        opened      == [nothing EXCEPT !.connections[p].state = "ESTABLISHED"]
        effect(result, answered, returns) ==
            [result |-> result, answered |-> answered, returns |-> returns]
        close(returns) == effect(closeConnection(p, connections, sockets), FALSE, returns)
        answer(result) == effect(result, TRUE, FALSE)
    IN  CASE type = "HEL" -> {answer(opened)}
          [] type = "OPN" -> {close(FALSE)} \cup {e \in {answer(nothing)} : established}
          [] type = "MSG" -> IF established THEN {answer(nothing), close(FALSE)} ELSE {close(TRUE)}
          [] type = "CLO" -> {close(TRUE)}
          [] OTHER -> {effect(nothing, FALSE, FALSE)}

Job == Head(jobs)

\* The main thread is in processJobs, outside of socket_write
Processing == pc \in {"process", "finish"} /\ sending = NoSend

\* The next message of the job at the head, up to the call of socket_write
ProcessMessage ==
    /\ Processing /\ jobs # <<>>
    /\ Job.type = "MESSAGE"
    /\ LET p == Job.connection
           m == Head(Job.messages)
       IN  \E e \in Effects(p, streams[p][m].type) :
             /\ connections' = e.result.connections
             /\ sockets' = e.result.sockets
             /\ IF e.answered
                THEN \E size \in AnswerSizes : sending' = [to |-> {p}, size |-> size, written |-> 0]
                ELSE UNCHANGED sending
             /\ handled' = [handled EXCEPT ![p] = @ \o MessageCells(p, m)]
             /\ jobs' = IF e.returns \/ Len(Job.messages) = 1 THEN Tail(jobs)
                        ELSE [jobs EXCEPT ![1].messages = Tail(@)]
    /\ UNCHANGED <<streams, peers, single, mappings, fdset, resultsize, index,
                   running, stops, pc>>

\* One call of send in socket_write that takes n cells.  Every call is given the
\* answer from its beginning.  While the send buffer is full send fails with EAGAIN
\* and the loop goes round without a change: there is no step.
SendSome(n) ==
    \E p \in sending.to :
      /\ n \in 1..SendRoom(p)
      /\ sockets' = [sockets EXCEPT ![connections[p].sockfd].out = @ + n]
      /\ sending' = IF sending.written + n >= sending.size THEN NoSend
                    ELSE [sending EXCEPT !.written = @ + n]
      /\ UNCHANGED <<streams, peers, connections, handled, single, mappings, fdset,
                     resultsize, index, jobs, running, stops, pc>>

\* send fails in socket_write
SendFails ==
    \E p \in sending.to :
      /\ SendMayFail(p)
      /\ connections' = WriteFailed(p).connections
      /\ sockets' = WriteFailed(p).sockets
      /\ sending' = NoSend
      /\ UNCHANGED <<streams, peers, handled, single, mappings, fdset, resultsize,
                     index, jobs, running, stops, pc>>

\* UA_Connection_detachSecureChannel touches the connection; FreeConnectionCallback
\* frees it
ProcessCleanup ==
    /\ Processing /\ jobs # <<>>
    /\ Job.type \in {"DETACH", "FREE"}
    /\ connections' = IF Job.type = "DETACH" THEN connections
                      ELSE [connections EXCEPT ![Job.connection].freed = TRUE,
                                               ![Job.connection].incomplete = <<>>]
    /\ jobs' = Tail(jobs)
    /\ UNCHANGED <<streams, peers, sockets, handled, single, mappings, fdset,
                   resultsize, index, sending, running, stops, pc>>

\* All jobs of this iteration, or of the shutdown, are processed
ProcessEnds ==
    /\ Processing /\ jobs = <<>>
    /\ pc' = IF pc = "process" THEN "top" ELSE "done"
    /\ UNCHANGED <<streams, peers, sockets, connections, handled, single,
                   mappings, fdset, resultsize, index, jobs, sending, running, stops>>

-----------------------------------------------------------------------------
(* ServerNetworkLayerTCP_stop and the specification *)

\* The sockets of all mapped connections are closed, and jobs clean up after
\* them.  The mappings stay.
StopLayer ==
    /\ connections' = [p \in Peers |->
                         IF \E i \in DOMAIN mappings : mappings[i].connection = p
                         THEN [connections[p] EXCEPT !.state = "CLOSED"]
                         ELSE connections[p]]
    /\ sockets' = [fd \in Fds |->
                     IF \E i \in DOMAIN mappings : connections[mappings[i].connection].sockfd = fd
                     THEN NoSocket ELSE sockets[fd]]
    /\ jobs' = FlattenSeq([i \in DOMAIN mappings |-> CleanupJobs(mappings[i].connection)])

\* A connection the mappings still point to has been freed
DanglingMapping == \E i \in DOMAIN mappings : connections[mappings[i].connection].freed

\* stop is called by the main loop when running was cleared after the loop's
\* test, and always by UA_Server_run_shutdown.  What happens when it uses
\* connections that were freed is undefined.
Stop ==
    /\ \/ pc = "loop" /\ ~running
       \/ pc = "shutdown"
    /\ stops' = stops + 1
    /\ IF DanglingMapping
       THEN /\ pc' = "undefined"
            /\ UNCHANGED <<connections, sockets, jobs>>
       ELSE /\ StopLayer
            /\ pc' = IF pc = "loop" THEN "process" ELSE "finish"
    /\ UNCHANGED <<streams, peers, handled, single, mappings, fdset,
                   resultsize, index, sending, running>>

Server ==
    \/ LoopTest
    \/ Select
    \/ SelectError
    \/ ScanOther
    \/ ScanData
    \/ ScanClosed
    \/ ScanEnds
    \/ ProcessMessage
    \/ \E n \in 1..sending.size : SendSome(n)
    \/ SendFails
    \/ ProcessCleanup
    \/ ProcessEnds
    \/ Stop

Next == Server \/ Peer \/ Signal

\* The main thread keeps running, select returns after its timeout at the
\* latest.  Of the operating system, a backlog is served in some fair order.
Spec == Init /\ [][Next]_vars /\ WF_vars(Server)

-----------------------------------------------------------------------------
(* Properties *)

States == {"none", "OPENING", "ESTABLISHED", "CLOSED"}

\* Every variable has its type, and the counters of getJobs stay in range
TypeOK ==
    /\ \A p \in Peers :
         /\ connections[p].state \in States
         /\ peers[p].state \in {"new", "backlog", "connected", "closed", "reset"}
         /\ peers[p].sent \in 0..Len(Cells(p))
    /\ \A i \in DOMAIN mappings : /\ mappings[i].connection \in Peers
                                  /\ mappings[i].sockfd \in Fds
    /\ \A i \in DOMAIN jobs : /\ jobs[i].type \in {"MESSAGE", "DETACH", "FREE"}
                              /\ jobs[i].type = "MESSAGE" => jobs[i].messages # <<>>
    /\ single \subseteq Peers
    /\ fdset \subseteq Fds
    /\ resultsize \in 0..Cardinality(Fds)
    /\ index \in 1..(Cardinality(Peers) + 1)
    /\ sending.to \subseteq Peers /\ sending.written \in 0..sending.size
    /\ sending # NoSend => pc \in {"process", "finish"}
    /\ \A fd \in Fds : Open(fd) => sockets[fd].out \in 0..SendBufferSize
    /\ stops \in 0..2
    /\ pc \in {"top", "loop", "scan", "process", "shutdown", "finish", "done", "undefined"}

\* The messages of p waiting in jobs, as cells
Queued(p) ==
    FlattenSeq([i \in DOMAIN jobs |->
        IF jobs[i].type = "MESSAGE" /\ jobs[i].connection = p
        THEN FlattenSeq([k \in DOMAIN jobs[i].messages |-> MessageCells(p, jobs[i].messages[k])])
        ELSE <<>>])

\* A stream of messages that completeMessages accepts
WellFormed(p) ==
    \A i \in DOMAIN streams[p] : ValidHeader(p, MessageCells(p, i)[1])

\* However TCP cuts up a stream of well-formed messages, nothing of it is lost,
\* duplicated or reordered on the way through the socket, the incompleteMessage
\* of the connection and the jobs, as long as the connection is open.  The
\* exception is a piece of one byte, which completeMessages throws away when
\* nothing waits in the connection.
StreamPreserved ==
    \A p \in Peers :
      ( /\ connections[p].state \in {"OPENING", "ESTABLISHED"}
        /\ Open(connections[p].sockfd)
        /\ peers[p].state # "reset"
        /\ p \notin single
        /\ WellFormed(p) )
      => handled[p] \o Queued(p) \o connections[p].incomplete
            \o sockets[connections[p].sockfd].in = SubSeq(Cells(p), 1, peers[p].sent)

\* What waits in incompleteMessage of an open connection is always shorter than
\* the longest message, so that the memory a connection takes is bounded
BufferBounded ==
    \A p \in Peers : connections[p].state # "none"
                        => Len(connections[p].incomplete) < MaxMessageSize

\* Only stop uses a connection that has been freed, and only a stop that follows another
\* one: no job refers to a freed connection, a mapping does so only after the layer was
\* stopped, and a connection is queued to be freed once, behind every job that uses it.
\* The exception is real: when running is cleared after the loop's test, UA_Server_run_mainloop
\* stops the layer and frees its connections, and UA_Server_run_shutdown stops it again
\* (ua_server_worker.c:606 and 635), with the mappings that stop leaves behind.
FreedOnlyUsedByStop ==
    /\ \A i \in DOMAIN jobs : ~connections[jobs[i].connection].freed
    /\ \A p \in sending.to : ~connections[p].freed
    /\ DanglingMapping => stops > 0
    /\ pc = "undefined" => stops = 2
    /\ \A i, k \in DOMAIN jobs :
         jobs[i].type = "FREE" /\ k > i => jobs[k].connection # jobs[i].connection
    /\ \A i, k \in DOMAIN mappings :
         i # k => mappings[i].connection # mappings[k].connection

\* Nobody uses a connection that has been freed, stop included.
NoUseAfterFree == pc # "undefined"

\* Every descriptor belongs to at most one mapping, and an open socket to one:
\* no connection can take the bytes of another
OneSocketPerMapping ==
    /\ \A i, k \in DOMAIN mappings : i # k => mappings[i].sockfd # mappings[k].sockfd
    /\ stops = 0 => \A fd \in Fds : Open(fd) => fd \in MappedFds

\* The mappings are sound while getJobs adds to them, replaces entries by the last
\* one and is stopped: distinct connections, distinct descriptors, none forgotten, and
\* bounded memory for each
MappingInv == TypeOK /\ OneSocketPerMapping /\ BufferBounded

\* The connection or the server has gone, or a failed send has closed a socket
\* select still waits for
Over(p) == \/ connections[p].state = "CLOSED"
           \/ SelectFails
           \/ ~running

\* Some message of p has arrived in full and was not processed yet
Waiting(p) ==
    \E i \in DOMAIN streams[p] :
      /\ WellFormed(p)
      /\ peers[p].state \in {"connected", "closed"}
      /\ LET cells == FoldSeq(LAMBDA m, n : m.len + n, 0, SubSeq(streams[p], 1, i))
         IN  peers[p].sent >= cells /\ Len(handled[p]) < cells

\* The main thread goes round in socket_write: the peer is there and does not read
Spinning ==
    \E p \in sending.to : ~SendMayFail(p) /\ SendRoom(p) = 0

\* Every message of a well-formed stream that arrived in full is processed, with
\* several ready sockets, jobs that run out and mappings that change places,
\* unless the connection is closed, a send fails or the server is stopped - and
\* unless some peer leaves its answers unread for ever, for then socket_write does
\* not return and nobody's messages are processed
MessagesServed ==
    []<>~Spinning =>
        \A p \in Peers : Waiting(p) ~> (~Waiting(p) \/ Over(p) \/ p \in single)

\* When a peer closes its end, the server ends up with no socket and no memory
\* for it, unless a send fails, or does not return because another peer leaves its
\* answers unread for ever
ClosedReclaimed ==
    []<>~Spinning =>
        \A p \in Peers :
          (peers[p].state \in {"closed", "reset"})
             ~> (connections[p].freed \/ SelectFails)

\* No call of send takes an answer in part: the next one would send its beginning again
AnswersWhole == sending.written = 0

\* What the comments in the code say: a socket is closed in the main loop, where
\* the connection is removed from the mappings, so that select never waits for
\* a descriptor that is closed
MappedSocketsOpen == stops = 0 => ~SelectFails
=============================================================================
