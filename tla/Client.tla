------------------------------- MODULE Client -------------------------------
(***************************************************************************)
(* The client: connecting, the services over an established connection,    *)
(* the renewal of the secure channel, disconnecting and resetting.  All    *)
(* calls block; the one in progress is the list of the steps it still has  *)
(* to take, each of which may send a request and wait for the reply.       *)
(*                                                                         *)
(* The server is what ChannelSession promises of one connection: it        *)
(* answers requests in order, with a result or a ServiceFault, and may     *)
(* close the connection or let the session time out at any time.  A        *)
(* publish response may come at any time as well.  Times are what remains  *)
(* of a lifetime, in ticks.  The client computes them in 32 bits, here     *)
(* they fit: 429 seconds at most, and the defaults are 2 and 30 seconds.   *)
(* A receive that times out is repeated and thus not visible here.         *)
(***************************************************************************)
EXTENDS Integers, Sequences

CONSTANTS
    LifeTime,      \* revisedLifetime of a token
    TimeToRenew,   \* config.timeToRenewSecureChannel
    MaxDelay,      \* bound: ticks a message may be under way or being served
    MaxCalls,      \* bound: how often the application calls the client
    MaxStray       \* bound: publish responses that were not waited for

ASSUME ClientAssumption ==
    /\ LifeTime \in Nat /\ TimeToRenew \in Nat /\ MaxDelay \in Nat
    /\ 2 * MaxDelay < TimeToRenew /\ TimeToRenew < LifeTime
    /\ MaxCalls \in Nat /\ MaxStray \in Nat

VARIABLES
    client,    \* UA_Client: state, connection state, ids, expiry, tokens
    todo,      \* the steps of the call in progress
    waiting,   \* the request whose reply is awaited, or NoRequest
    result,    \* what the last call returned
    taken,     \* history: the last request of which a service returned the answer
    carried,   \* history: the requests the server has carried out since the last
               \* initialisation of the client
    calls,     \* calls made
    sockets,   \* history: sockets that are open, those lost for ever, and
               \* whether a descriptor was closed that was closed before
    gone,      \* history: the session was closed by the application, or timed out
    toServer,  \* requests under way
    toClient,  \* replies under way
    age,       \* how long the oldest of them has been under way
    server,    \* the server's end of the connection
    stray      \* publish responses sent without a request

vars == <<client, todo, waiting, result, taken, carried, calls, sockets, gone, toServer, toClient,
          age, server, stray>>

NoRequest == [type |-> "none"]
NoToken == 0

\* UA_Client_init
FreshClient ==
    [state |-> "READY", connection |-> "CLOSED", requestId |-> 0, expires |-> 0,
     token |-> NoToken, auth |-> 0]

\* The server before a connection is opened, or after it was closed
NoConnection ==
    [open |-> FALSE, hello |-> FALSE, token |-> NoToken, next |-> NoToken,
     life |-> 0, nextLife |-> 0, again |-> FALSE, session |-> "none", auth |-> 0]

Init ==
    /\ client = FreshClient
    /\ todo = <<>>
    /\ waiting = NoRequest
    /\ result = "none"
    /\ taken = 0
    /\ carried = {}
    /\ calls = 0
    /\ sockets = [open |-> 0, lost |-> 0, twice |-> FALSE]
    /\ gone = FALSE
    /\ toServer = <<>> /\ toClient = <<>> /\ age = 0
    /\ server = NoConnection
    /\ stray = 0

-----------------------------------------------------------------------------
(* Calls and their steps *)

Handshake == {"OPN", "RENEW"}
ServiceTypes == {"GetEndpoints", "CreateSession", "ActivateSession", "Read", "CloseSession"}

\* __UA_Client_Service first renews the channel
Service(type) == <<"RENEW", type>>

\* Mutant: the session is not activated
ConnectStepsNotActivated ==
    <<"socket", "HEL", "OPN">> \o Service("GetEndpoints") \o Service("CreateSession")
       \o <<"connected">>

\* UA_Client_connect after the possible reset
ConnectSteps ==
    <<"socket", "HEL", "OPN">> \o Service("GetEndpoints") \o Service("CreateSession")
       \o Service("ActivateSession") \o <<"connected">>

\* UA_Client_reset: UA_Client_disconnect, then the members are deleted and
\* initialised
ResetSteps == <<"disconnect", "init">>

\* UA_Client_disconnect
DisconnectSteps ==
    IF client.connection = "ESTABLISHED" THEN Service("CloseSession") \o <<"CLO">> ELSE <<>>

\* The operator of SequencesExt; the module as a whole is a burden to the provers.
Contains(s, e) == \E i \in 1..Len(s) : s[i] = e

\* The rest of a call after a step has failed.  A failure while disconnecting
\* does not keep a reset from being finished; a failed connect resets.
StepsAfterFailure ==
    IF Contains(todo, "init")
    THEN SubSeq(todo, CHOOSE i \in DOMAIN todo :
                        todo[i] = "init" /\ \A k \in 1..(i - 1) : todo[k] # "init", Len(todo))
    ELSE IF Contains(todo, "connected") THEN ResetSteps
    ELSE <<>>

\* The application calls a function of the client
Begin(steps) ==
    /\ todo = <<>>
    /\ calls < MaxCalls
    /\ calls' = calls + 1
    /\ todo' = steps
    /\ result' = "GOOD"
    /\ UNCHANGED <<waiting, taken, carried, sockets, toServer, toClient, age, server, stray>>

\* UA_Client_connect returns at once when the client believes to be connected,
\* and resets it first when it is in an error state
Connect ==
    /\ Begin(CASE client.state = "CONNECTED" -> <<>>
               [] client.state = "ERRORED" -> ResetSteps \o ConnectSteps
               [] OTHER -> ConnectSteps)
    /\ UNCHANGED <<client, gone>>

\* A service, here Read
CallService == Begin(Service("Read")) /\ UNCHANGED <<client, gone>>

\* UA_Client_manuallyRenewSecureChannel
ManuallyRenew == Begin(<<"RENEW">>) /\ UNCHANGED <<client, gone>>

\* UA_Client_disconnect
Disconnect == Begin(<<"disconnect">>) /\ UNCHANGED <<client, gone>>

\* UA_Client_reset and, for a client that was used, UA_Client_delete
Reset == Begin(ResetSteps) /\ UNCHANGED <<client, gone>>

-----------------------------------------------------------------------------
(* Steps *)

Step == IF todo = <<>> THEN "none" ELSE todo[1]

\* A failure of this step leaves the client in the error state: it does in
\* __UA_Client_Service, the renewal before the request included
FailsService ==
    \/ Step \in ServiceTypes
    \/ Step = "RENEW" /\ Len(todo) > 1

\* The call goes on after a failure with the given status.  A connect that fails
\* is an error as well.
Refused(c, status) ==
    /\ client' = IF Contains(todo, "connected") THEN [c EXCEPT !.state = "ERRORED"] ELSE c
    /\ todo' = StepsAfterFailure
    /\ result' = IF Contains(todo, "init") THEN result ELSE status
    /\ waiting' = NoRequest
    /\ UNCHANGED taken

\* The step fails for the connection
Failed(c, status) ==
    Refused(IF FailsService THEN [c EXCEPT !.state = "ERRORED"] ELSE c, status)

\* The step succeeds
Succeeded(c) ==
    /\ client' = c
    /\ todo' = Tail(todo)
    /\ waiting' = NoRequest
    /\ UNCHANGED result

\* connectFunc opens a socket, or fails.  When the name of the server cannot be
\* resolved, the socket made before stays open.
OpenSocket ==
    /\ Step = "socket"
    /\ \/ /\ Succeeded([client EXCEPT !.connection = "OPENING"])
          /\ sockets' = [sockets EXCEPT !.open = @ + 1]
          /\ server' = [NoConnection EXCEPT !.open = TRUE]
          /\ toServer' = <<>> /\ toClient' = <<>> /\ age' = 0
          /\ UNCHANGED taken
       \/ /\ Failed([client EXCEPT !.connection = "CLOSED"], "BADCONNECTIONCLOSED")
          /\ \/ sockets' = sockets
             \/ sockets' = [sockets EXCEPT !.lost = @ + 1]
          /\ UNCHANGED <<server, toServer, toClient, age>>
    /\ UNCHANGED <<carried, calls, gone, stray>>

\* Mutant: the channel is renewed only after it has expired
NoRenewalUntilExpired == client.expires > 0

\* The channel is still valid for long enough
NoRenewal == client.expires > TimeToRenew

\* SecureChannelHandshake with nothing to renew
SkipRenewal ==
    /\ Step = "RENEW" /\ waiting = NoRequest /\ NoRenewal
    /\ Succeeded(client)
    /\ UNCHANGED <<taken, carried, calls, sockets, gone, toServer, toClient, age, server, stray>>

\* What has to hold for a step to send its message
CanSend ==
    CASE Step = "HEL"       -> client.connection # "CLOSED"
      [] Step \in Handshake -> client.connection = "ESTABLISHED"
      [] OTHER              -> client.connection # "CLOSED"

\* The message a step sends
Request ==
    [type |-> Step, token |-> client.token,
     auth |-> client.auth,
     id |-> IF Step = "HEL" THEN client.requestId ELSE client.requestId + 1]

SendingStep ==
    /\ waiting = NoRequest
    /\ Step \in {"HEL", "OPN", "RENEW", "CLO"} \cup ServiceTypes
    /\ Step = "RENEW" => ~NoRenewal

\* The message is on its way, unless the server has closed the connection
Sent ==
    /\ SendingStep /\ CanSend
    /\ toServer' = IF server.open THEN Append(toServer, Request) ELSE toServer
    /\ age' = IF toServer = <<>> THEN 0 ELSE age
    /\ UNCHANGED <<taken, carried, calls, sockets, gone, toClient, server, stray>>

\* A request is sent, and its answer awaited
Send ==
    /\ Sent
    /\ Step # "CLO"
    /\ client' = [client EXCEPT !.requestId = Request.id]
    /\ waiting' = Request
    /\ UNCHANGED <<todo, result>>

\* CloseSecureChannel does not wait for an answer
CloseSecureChannel ==
    /\ Sent
    /\ Step = "CLO"
    /\ Succeeded([client EXCEPT !.requestId = Request.id])

\* Sending is impossible, or fails because the server has closed the connection.
\* socket_write then closes the socket, by connection->close and once more itself.
SendFailed ==
    /\ SendingStep
    /\ \/ /\ ~CanSend
          /\ Failed(client, "BADSERVERNOTCONNECTED")
          /\ UNCHANGED sockets
       \/ /\ CanSend /\ ~server.open
          /\ Failed([client EXCEPT !.connection = "CLOSED"], "BADCONNECTIONCLOSED")
          /\ sockets' = [sockets EXCEPT !.open = @ - 1, !.twice = TRUE]
    /\ UNCHANGED <<carried, calls, gone, toServer, toClient, age, server, stray>>

\* Mutant: the id of the request is not compared
AnswersType(reply) == reply.type = waiting.type

\* The reply answers the request in its type and id
Answers(reply) == reply.type = waiting.type /\ reply.id = waiting.id

\* HelAckHandshake: the connection is established
TakeAck == Succeeded([client EXCEPT !.connection = "ESTABLISHED"]) /\ UNCHANGED taken

\* SecureChannelHandshake: the answer is compared by its type only
TakeOpen(reply) ==
    IF reply.type # "OPN" THEN Failed(client, "BADINTERNALERROR")
    ELSE IF ~reply.good THEN Failed([client EXCEPT !.expires = 0], "BADRESULT")
    ELSE Succeeded([client EXCEPT !.expires = LifeTime, !.token = reply.token]) /\ UNCHANGED taken

\* SessionHandshake takes the authentication token from the response of
\* CreateSession, even if that is none
SessionHandshake(reply, good) ==
    [client EXCEPT !.auth = IF good THEN reply.auth ELSE 0]

\* The end of __UA_Client_Service
TakeResponse(reply) ==
    LET good == Answers(reply) /\ reply.good
        c    == IF Step = "CreateSession" THEN SessionHandshake(reply, good) ELSE client
    IN  IF good THEN /\ client' = c
                     /\ todo' = Tail(todo)
                     /\ waiting' = NoRequest
                     /\ taken' = waiting.id
                     /\ UNCHANGED result
        ELSE Refused(c, IF reply.type = "Fault" \/ Answers(reply) THEN "BADRESULT"
                        ELSE "BADINTERNALERROR")

\* The socket has n replies.  The first is decoded, the others are thrown away
\* with the buffer.
Receive(n) ==
    /\ waiting # NoRequest
    /\ n \in 1..Len(toClient)
    /\ toClient' = SubSeq(toClient, n + 1, Len(toClient))
    /\ age' = IF toServer = <<>> THEN 0 ELSE age
    /\ CASE Step = "HEL"       -> TakeAck
         [] Step \in Handshake -> TakeOpen(toClient[1])
         [] OTHER              -> TakeResponse(toClient[1])
    /\ UNCHANGED <<carried, calls, sockets, gone, toServer, server, stray>>

\* Mutant: a receive from a closed connection is repeated as after a timeout
ReceiveRepeated ==
    /\ waiting # NoRequest
    /\ toClient = <<>> /\ ~server.open
    /\ UNCHANGED vars

\* The server has closed the connection: the receive fails and the socket is closed
ReceiveFailed ==
    /\ waiting # NoRequest
    /\ toClient = <<>> /\ ~server.open
    /\ Failed([client EXCEPT !.connection = "CLOSED"], "BADCONNECTIONCLOSED")
    /\ sockets' = [sockets EXCEPT !.open = @ - 1]
    /\ UNCHANGED <<carried, calls, gone, toServer, toClient, age, server, stray>>

\* UA_Client_disconnect looks at the connection
BeginDisconnect ==
    /\ Step = "disconnect"
    /\ todo' = DisconnectSteps \o Tail(todo)
    /\ gone' = (gone \/ client.connection = "ESTABLISHED")
    /\ UNCHANGED <<client, waiting, result, taken, carried, calls, sockets, toServer,
                   toClient, age, server, stray>>

\* ClientNetworkLayerClose closes the socket unless it is closed already
SocketsClosed ==
    IF client.connection = "CLOSED" THEN sockets ELSE [sockets EXCEPT !.open = @ - 1]

\* UA_Client_deleteMembers closes the connection with the channel, and
\* UA_Client_init starts again
Initialise ==
    /\ Step = "init"
    /\ Succeeded(FreshClient)
    /\ sockets' = SocketsClosed
    /\ server' = NoConnection
    /\ toServer' = <<>> /\ toClient' = <<>>
    /\ gone' = FALSE
    /\ taken' = 0 /\ carried' = {}
    /\ UNCHANGED <<calls, age, stray>>

\* The end of a successful UA_Client_connect
Connected ==
    /\ Step = "connected"
    /\ Succeeded([client EXCEPT !.connection = "ESTABLISHED", !.state = "CONNECTED"])
    /\ UNCHANGED <<taken, carried, calls, sockets, gone, toServer, toClient, age, server, stray>>

ClientStep ==
    \/ OpenSocket
    \/ SkipRenewal
    \/ Send
    \/ CloseSecureChannel
    \/ SendFailed
    \/ \E n \in 1..Len(toClient) : Receive(n)
    \/ ReceiveFailed
    \/ BeginDisconnect
    \/ Initialise
    \/ Connected

Application == Connect \/ CallService \/ ManuallyRenew \/ Disconnect \/ Reset

-----------------------------------------------------------------------------
(* The server and the clock *)

\* The server handles the request at the head with this outcome
Serve(s, replies) ==
    /\ server' = s
    /\ toClient' = toClient \o replies
    /\ toServer' = IF s.open THEN Tail(toServer) ELSE <<>>
    /\ age' = 0
    /\ UNCHANGED <<client, todo, waiting, result, taken, calls, sockets, gone, stray>>

Reply(m, type, good) ==
    [type |-> type, id |-> m.id, good |-> good, token |-> m.id, auth |-> m.id]

\* UA_SecureChannelManager_renew: a next token that was not used yet is given out
\* again, as old as it is
Renewed(m) ==
    IF server.next = NoToken THEN [server EXCEPT !.next = m.id, !.nextLife = LifeTime]
    ELSE [server EXCEPT !.again = TRUE]

\* processHEL and processOPN.  The new token is named after the request.  A
\* request to open a channel may be refused, and the connection is closed.
ServeHandshake ==
    /\ server.open /\ toServer # <<>>
    /\ UNCHANGED carried
    /\ LET m == Head(toServer)
       IN  CASE m.type = "HEL" -> Serve([server EXCEPT !.hello = TRUE], <<Reply(m, "ACK", TRUE)>>)
             [] m.type = "OPN" ->
                  \/ Serve([server EXCEPT !.token = m.id, !.life = LifeTime],
                           <<Reply(m, "OPN", TRUE)>>)
                  \/ Serve(NoConnection, <<>>)
             [] m.type = "RENEW" ->
                  IF server.token = NoToken THEN Serve(NoConnection, <<>>)
                  ELSE Serve(Renewed(m), <<[Reply(m, "OPN", TRUE) EXCEPT !.token = Renewed(m).next]>>)
             [] m.type = "CLO" -> Serve(NoConnection, <<>>)
             [] OTHER -> FALSE

\* The channel's tokens after a request with a token, see
\* UA_SecureChannel_revolveTokens
Revolved(m) ==
    IF m.token = server.token THEN server
    ELSE [server EXCEPT !.token = server.next, !.life = server.nextLife,
                        !.next = NoToken, !.nextLife = 0]

\* What a service does to the session
SessionAfter(m, s) ==
    CASE m.type = "CreateSession" -> [s EXCEPT !.session = "created", !.auth = m.id]
      [] m.type = "ActivateSession" -> [s EXCEPT !.session = "activated"]
      [] m.type = "CloseSession" -> [s EXCEPT !.session = "none", !.auth = 0]
      [] OTHER -> s

\* A service finds the session it needs
SessionFits(m) ==
    \/ m.type \in {"GetEndpoints", "CreateSession"}
    \/ m.type = "ActivateSession" /\ server.session # "none" /\ m.auth = server.auth
    \/ m.type \in {"Read", "CloseSession"}
         /\ server.session = "activated" /\ m.auth = server.auth

\* processMSG.  A request with a token the channel does not know closes it and
\* the connection; any service may answer with a ServiceFault, also after it has
\* been carried out, when the response is too large.
ServeMessage ==
    /\ server.open /\ toServer # <<>>
    /\ LET m == Head(toServer)
       IN  /\ m.type \in ServiceTypes
           /\ \/ /\ m.token \notin {server.token, server.next} \ {NoToken}
                 /\ Serve(NoConnection, <<>>)
                 /\ UNCHANGED carried
              \/ /\ m.token \in {server.token, server.next} \ {NoToken}
                 /\ \/ /\ SessionFits(m)
                       /\ \E type \in {m.type, "Fault"} :
                            Serve(SessionAfter(m, Revolved(m)), <<Reply(m, type, type # "Fault")>>)
                       /\ carried' = carried \cup {m.id}
                    \/ /\ Serve(Revolved(m), <<Reply(m, "Fault", FALSE)>>)
                       /\ UNCHANGED carried

\* The cleanup of the channels puts a pending token into use
Cleanup ==
    /\ server.open /\ server.next # NoToken
    /\ server' = [server EXCEPT !.token = server.next, !.life = server.nextLife,
                                !.next = NoToken, !.nextLife = 0]
    /\ UNCHANGED <<client, todo, waiting, result, taken, carried, calls, sockets, gone,
                   toServer, toClient, age, stray>>

\* The server removes a channel that has expired, or closes the connection for
\* another reason
ServerCloses ==
    /\ server.open
    /\ server' = NoConnection
    /\ toServer' = <<>>
    /\ UNCHANGED <<client, todo, waiting, result, taken, carried, calls, sockets, gone,
                   toClient, age, stray>>

\* The session times out and is removed, with the channel still open.  How long
\* it lives is decided by the server.
SessionExpires ==
    /\ server.open /\ server.session # "none"
    /\ server' = [server EXCEPT !.session = "none", !.auth = 0]
    /\ gone' = TRUE
    /\ UNCHANGED <<client, todo, waiting, result, taken, carried, calls, sockets,
                   toServer, toClient, age, stray>>

\* A publish response nobody waits for
PublishResponse ==
    /\ server.open /\ server.session = "activated"
    /\ stray < MaxStray
    /\ stray' = stray + 1
    /\ toClient' = Append(toClient, [type |-> "Publish", id |-> 0, good |-> TRUE,
                                     token |-> NoToken, auth |-> 0])
    /\ UNCHANGED <<client, todo, waiting, result, taken, carried, calls, sockets, gone,
                   toServer, age, server>>

OneLess(n) == IF n = 0 THEN 0 ELSE n - 1

UnderWay == toServer # <<>> \/ waiting # NoRequest

\* Time passes between calls and while a reply is awaited, for no longer than
\* MaxDelay on the way to the server and on the way back
Tick ==
    /\ todo # <<>> => waiting # NoRequest
    /\ UnderWay => age < MaxDelay
    /\ client' = [client EXCEPT !.expires = OneLess(@)]
    /\ server' = [server EXCEPT !.life = OneLess(@), !.nextLife = OneLess(@)]
    /\ age' = IF UnderWay THEN age + 1 ELSE 0
    /\ UNCHANGED <<todo, waiting, result, taken, carried, calls, sockets, gone, toServer,
                   toClient, stray>>

Serving == ServeHandshake \/ ServeMessage

Next ==
    \/ Application \/ ClientStep \/ Serving
    \/ Cleanup \/ ServerCloses \/ SessionExpires \/ PublishResponse \/ Tick

\* The client runs, and the server answers what it receives
Spec == Init /\ [][Next]_vars /\ WF_vars(ClientStep) /\ WF_vars(Serving)

-----------------------------------------------------------------------------
(* Properties *)

Steps == {"socket", "HEL", "OPN", "RENEW", "CLO", "connected", "disconnect", "init"}
            \cup ServiceTypes

\* Every variable has its type, and a reply is awaited only during a call
TypeOK ==
    /\ client.state \in {"READY", "CONNECTED", "ERRORED"}
    /\ client.connection \in {"CLOSED", "OPENING", "ESTABLISHED"}
    /\ client.expires \in 0..LifeTime
    /\ server.life \in 0..LifeTime /\ server.nextLife \in 0..LifeTime
    /\ server.session \in {"none", "created", "activated"}
    /\ \A i \in DOMAIN todo : todo[i] \in Steps
    /\ waiting # NoRequest => waiting.type = Step
    /\ calls \in 0..MaxCalls /\ stray \in 0..MaxStray
    /\ age \in 0..MaxDelay
    /\ sockets.open \in Nat /\ sockets.lost \in Nat /\ sockets.twice \in BOOLEAN

\* A client that believes to be connected has an activated session at the
\* server under the token it sends, whatever failed on the way there, unless the
\* server has closed the connection, the session has timed out there, or the
\* application has disconnected
ConnectedHasSession ==
    client.state = "CONNECTED" /\ ~gone /\ server.open
       => server.session = "activated" /\ server.auth = client.auth

\* Every service request reaches the server with a token the server knows, and
\* before that token expires, as long as messages take no longer than the time
\* the client keeps in reserve: the expiry the client computes is later than the
\* server's, and a renewal replaces the token between two requests.  A publish
\* response that is taken for the answer to a renewal puts an end to this, and so
\* does a second renewal before the token of the first was used: it is answered
\* with that token, which the client then believes to be new.
TokenValidOnArrival ==
    stray = 0 /\ ~server.again =>
      \A i \in DOMAIN toServer :
        toServer[i].type \in ServiceTypes =>
          \/ toServer[i].token = server.token /\ server.life > 0
          \/ toServer[i].token = server.next /\ server.nextLife > 0

\* A socket belongs to the connection of the client as long as it is open: no
\* failure, reset or new connect leaves one behind.  The exception is a failed
\* lookup of the server's name, whose socket nobody closes.  That every socket is
\* closed only once is not claimed, see ClosedOnce.
SocketsReleased ==
    sockets.open = IF client.connection = "CLOSED" THEN 0 ELSE 1

\* The client and its connection are in a state the next call can start from,
\* whichever step of a call failed: no socket is left behind, and a session the
\* client believes in exists
ConnectionInv == TypeOK /\ SocketsReleased /\ ConnectedHasSession

\* A service that returns GOOD was carried out by the server: the answer it took
\* is the one to its own request, even after publish responses were mistaken for
\* answers and the answers that came late are read one call after the other
GoodMeansServed == taken \in carried \cup {0}

\* Every call returns, if the server answers or closes the connection
CallsReturn == todo # <<>> ~> todo = <<>>

\* Not met by the code: a descriptor is closed once.  After a send that failed it
\* is closed a second time, when it may be that of another file of the application.
ClosedOnce == ~sockets.twice

\* Not met by the code: a client that is connected after a call has a session.
\* UA_Client_disconnect leaves the state at CONNECTED, so the next
\* UA_Client_connect succeeds without connecting.
ConnectedAfterConnect ==
    todo = <<>> /\ client.state = "CONNECTED" /\ server.open => server.session = "activated"
=============================================================================
