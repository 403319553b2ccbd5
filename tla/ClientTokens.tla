---------------------------- MODULE ClientTokens ----------------------------
(***************************************************************************)
(* Proof that the requests of the client reach the server with a valid     *)
(* token, on top of what ClientProofs establishes about calls and replies. *)
(***************************************************************************)
EXTENDS ClientProofs

-----------------------------------------------------------------------------
(* The inductive invariant *)

\* The token the server gave out last
Newest == IF server.next # NoToken THEN server.next ELSE server.token
NewestLife == IF server.next # NoToken THEN server.nextLife ELSE server.life

\* The answer to OpenSecureChannel is under way.
OpenUnderWay == toClient # <<>> /\ toClient[1].type = "OPN"

\* A service comes after a renewal.
Ready ==
    todo # <<>> /\ todo[1] \in ServiceTypes /\ waiting = NoRequest => client.expires > TimeToRenew

\* The client has no token until its channel is open.
Unopened == Left(todo, 9) \/ Left(todo, 8) => client.token = NoToken

\* The request that was sent last has the client's token, and names a token if
\* it asks for one.
Named ==
    waiting # NoRequest =>
      /\ waiting.token = client.token
      /\ waiting.type \in Handshake => waiting.id # 0

Single == stray = 0 => OneMessage /\ Len(toClient) <= 1

\* The time a request is under way and what remains of the token until the
\* client renews it
InTime ==
    stray = 0 =>
      \A i \in 1 .. Len(toServer) :
         toServer[i].type \in ServiceTypes => client.expires + age > TimeToRenew

\* Client and server agree on the token to use and, up to the time a message may
\* take, on how long it lives.
Agreed ==
    stray = 0 /\ server.open /\ ~server.again =>
      /\ server.token = NoToken => server.next = NoToken
      /\ ~OpenUnderWay => client.token = Newest /\ client.expires <= NewestLife + MaxDelay
      /\ OpenUnderWay => /\ toClient[1].good /\ toClient[1].token = Newest
                         /\ LifeTime <= NewestLife + age

TokenInv == Ready /\ Unopened /\ Named /\ Single /\ InTime /\ Agreed

-----------------------------------------------------------------------------
(* The steps of the client *)

\* After a step nothing is awaited and, without stray publish responses, at most
\* the closing of a channel is under way.
LEMMA DoneToken ==
    ASSUME waiting' = NoRequest, UNCHANGED stray, Ready', Unopened', Agreed',
           stray = 0 => OnlyClosing' /\ toClient' = <<>>
    PROVE  TokenInv'
<1>1. Named'
  BY Zenon DEF Named
<1>2. Single'
  BY DEF Single, OneMessage, OnlyClosing
<1>3. InTime'
  BY DEF InTime, OnlyClosing, ServiceTypes
<1>. QED
  BY <1>1, <1>2, <1>3 DEF TokenInv

LEMMA KeptAgreed ==
    ASSUME CallInv, Agreed, UNCHANGED <<server, stray>>, client' \in ClientType,
           client'.token = client.token, client'.expires \in {client.expires, 0},
           stray = 0 /\ server.open /\ ~server.again =>
             \/ ~OpenUnderWay /\ ~OpenUnderWay'
             \/ UNCHANGED <<toClient, age>>
    PROVE  Agreed'
<1>. SUFFICES ASSUME stray = 0, server.open, ~server.again
              PROVE  /\ server.token = NoToken => server.next = NoToken
                     /\ ~OpenUnderWay' => client.token = Newest /\ client'.expires <= NewestLife + MaxDelay
                     /\ OpenUnderWay' => /\ toClient'[1].good /\ toClient'[1].token = Newest
                                         /\ LifeTime <= NewestLife + age'
  BY DEF Agreed, Newest, NewestLife
<1>1. /\ server.token = NoToken => server.next = NoToken
      /\ ~OpenUnderWay => client.token = Newest /\ client.expires <= NewestLife + MaxDelay
      /\ OpenUnderWay => /\ toClient[1].good /\ toClient[1].token = Newest
                         /\ LifeTime <= NewestLife + age
  BY DEF Agreed
<1>2. NewestLife \in Nat /\ MaxDelay \in Nat /\ client.expires \in Nat /\ client'.expires \in Nat
  <2>1. client \in ClientType /\ server \in ServerType
    BY DEF CallInv, Types
  <2>2. server.life \in 0 .. LifeTime /\ server.nextLife \in 0 .. LifeTime
    BY <2>1 DEF ServerType
  <2>. QED
    BY <2>1, <2>2, ClientAssumption DEF ClientType, NewestLife
<1>3. client'.expires <= client.expires
  BY <1>2
<1>4. CASE ~OpenUnderWay /\ ~OpenUnderWay'
  <2>. HIDE DEF NewestLife, Newest, OpenUnderWay
  <2>. QED
    BY <1>1, <1>2, <1>3, <1>4
<1>5. CASE UNCHANGED <<toClient, age>>
  <2>1. OpenUnderWay' <=> OpenUnderWay
    BY <1>5 DEF OpenUnderWay
  <2>. HIDE DEF NewestLife, Newest, OpenUnderWay
  <2>. QED
    BY <1>1, <1>2, <1>3, <1>5, <2>1
<1>. QED
  BY <1>4, <1>5

LEMMA AnswerNotOpen ==
    ASSUME CallInv, OneMessage, todo # <<>>, todo[1] \notin Handshake
    PROVE  ~OpenUnderWay
<1>1. waiting # NoRequest => waiting.type = todo[1]
  BY DEF CallInv
<1>. QED
  BY <1>1 DEF OneMessage, OpenUnderWay

LEMMA FailingToken ==
    ASSUME CallInv, TokenInv, FailingStep
    PROVE  TokenInv'
<1>1. PICK c \in ClientType : /\ Fails(c) /\ c.token = client.token /\ c.expires \in {client.expires, 0}
  BY Zenon DEF FailingStep
<1>2. /\ client' \in ClientType /\ client'.token = client.token /\ client'.expires \in {client.expires, 0}
      /\ todo' = StepsAfterFailure /\ waiting' = NoRequest
  BY <1>1 DEF Fails
<1>3. UNCHANGED <<toServer, server, stray>> /\ Dropped /\ todo # <<>>
  BY DEF FailingStep
<1>4. /\ \A n \in 1 .. 10 : ~Left(todo', n)
      /\ todo' # <<>> => todo'[1] \in {"init", "disconnect"}
  BY <1>2, RestAfterFailure DEF CallInv
<1>5. Ready'
  BY <1>4 DEF Ready, ServiceTypes
<1>6. Unopened'
  BY <1>4 DEF Unopened
<1>7. stray = 0 => /\ OnlyClosing' /\ toClient' = <<>>
                   /\ server.open /\ ~server.again => ~OpenUnderWay
  <2>. SUFFICES ASSUME stray = 0
                PROVE  OnlyClosing /\ toClient' = <<>> /\ (server.open /\ ~server.again => ~OpenUnderWay)
    BY <1>3 DEF OnlyClosing
  <2>0. OneMessage /\ Len(toClient) <= 1 /\ Types
    BY DEF TokenInv, Single, CallInv
  <2>1. CASE waiting = NoRequest /\ toClient' = toClient /\ age' = age
    BY <2>0, <2>1, IdleOne DEF OpenUnderWay
  <2>2. CASE toClient = <<>> /\ ~server.open /\ toClient' = toClient /\ age' = age
    BY <2>2 DEF CallInv, OnlyClosing
  <2>3. CASE /\ waiting # NoRequest
             /\ \E n \in 1 .. Len(toClient) : toClient' = SubSeq(toClient, n + 1, Len(toClient))
             /\ toClient[1].type # "OPN" \/ todo[1] \notin Handshake \/ ~toClient[1].good
    <3>1. toClient' = <<>> /\ toClient # <<>>
      BY <2>0, <2>3, ReadAll
    <3>2. OnlyClosing
      BY <2>0, <3>1, RepliedOne
    <3>3. ASSUME server.open, ~server.again, OpenUnderWay PROVE FALSE
      <4>1. toClient[1].good
        BY <3>3 DEF TokenInv, Agreed
      <4>2. todo[1] \in Handshake
        BY <1>3, <2>0, <3>3, AnswerNotOpen
      <4>. QED
        BY <2>3, <3>3, <4>1, <4>2 DEF OpenUnderWay
    <3>. QED
      BY <3>1, <3>2, <3>3
  <2>. QED
    BY <1>3, <2>1, <2>2, <2>3 DEF Dropped
<1>8. Agreed'
  BY <1>2, <1>3, <1>7, KeptAgreed DEF TokenInv, OpenUnderWay
<1>. QED
  BY <1>2, <1>3, <1>5, <1>6, <1>7, <1>8, DoneToken

LEMMA OpenedToken ==
    ASSUME CallInv, TokenInv, Opened
    PROVE  TokenInv'
<1>1. /\ todo # <<>> /\ todo[1] = "socket" /\ client.token = NoToken /\ client.expires = 0 /\ Rest(todo)
      /\ client \in ClientType
  BY AtSocket DEF Opened, CallInv, Types
<1>2. /\ client' = [client EXCEPT !.connection = "OPENING"] /\ todo' = Tail(todo) /\ waiting' = NoRequest
      /\ server' = [NoConnection EXCEPT !.open = TRUE]
      /\ toServer' = <<>> /\ toClient' = <<>> /\ UNCHANGED stray
  BY DEF Opened, Succeeded
<1>3. client'.token = NoToken /\ client'.expires = 0
  BY <1>1, <1>2 DEF ClientType
<1>4. server'.token = NoToken /\ server'.next = NoToken /\ server'.life = 0
  BY <1>2 DEF NoConnection
<1>5. Ready'
  BY <1>1, <1>2, RestTail, Zenon DEF Ready
<1>6. Unopened'
  BY <1>3 DEF Unopened
<1>7. Agreed'
  BY <1>2, <1>3, <1>4, ClientAssumption DEF Agreed, OpenUnderWay, Newest, NewestLife
<1>8. OnlyClosing'
  BY <1>2 DEF OnlyClosing
<1>. QED
  BY <1>2, <1>5, <1>6, <1>7, <1>8, DoneToken

\* A step that needs no answer, or whose answer is no token, leaves the client's
\* token as it is.
LEMMA TailToken ==
    ASSUME CallInv, TokenInv, todo # <<>>, todo[1] \notin {"init", "socket"}, todo' = Tail(todo),
           waiting' = NoRequest, UNCHANGED <<server, stray>>,
           client' \in ClientType, client'.token = client.token, client'.expires = client.expires,
           todo[1] = "RENEW" => client.expires > TimeToRenew,
           stray = 0 => OnlyClosing' /\ toClient' = <<>> /\ ~OpenUnderWay
    PROVE  TokenInv'
<1>1. Rest(todo)
  BY DEF CallInv
<1>2. Ready'
  BY <1>1, RestTail, Zenon DEF Ready
<1>3. Unopened'
  <2>1. \A n \in 1 .. 13 : Left(todo', n) <=> Left(todo, n + 1)
    BY <1>1, RestTail, Zenon
  <2>2. (Left(todo', 9) => Left(todo, 10)) /\ (Left(todo', 8) => Left(todo, 9))
    BY <2>1
  <2>3. ~Left(todo, 10)
    BY <1>1, StepsLeft
  <2>. QED
    BY <2>2, <2>3 DEF TokenInv, Unopened
<1>4. Agreed'
  BY KeptAgreed DEF TokenInv, OpenUnderWay
<1>. QED
  BY <1>2, <1>3, <1>4, DoneToken

LEMMA IdleToken ==
    ASSUME CallInv, TokenInv, waiting = NoRequest, stray = 0
    PROVE  OnlyClosing /\ toClient = <<>> /\ ~OpenUnderWay
<1>1. Types /\ OneMessage
  BY DEF CallInv, TokenInv, Single
<1>. QED
  BY <1>1, IdleOne DEF OpenUnderWay

LEMMA SkipToken ==
    ASSUME CallInv, TokenInv, SkipRenewal
    PROVE  TokenInv'
<1>1. /\ todo # <<>> /\ todo[1] = "RENEW" /\ waiting = NoRequest /\ client.expires > TimeToRenew
      /\ todo' = Tail(todo) /\ waiting' = NoRequest /\ client' = client /\ client \in ClientType
      /\ UNCHANGED <<toServer, toClient, server, stray>>
  BY StepIs DEF SkipRenewal, NoRenewal, Succeeded, CallInv, Types
<1>2. stray = 0 => OnlyClosing' /\ toClient' = <<>> /\ ~OpenUnderWay
  BY <1>1, IdleToken DEF OnlyClosing
<1>. QED
  BY <1>1, <1>2, TailToken

LEMMA ConnectedToken ==
    ASSUME CallInv, TokenInv, Connected
    PROVE  TokenInv'
<1>0. Step = "connected"
  BY DEF Connected
<1>1. /\ todo # <<>> /\ todo[1] = "connected" /\ client \in ClientType
      /\ client' = [client EXCEPT !.connection = "ESTABLISHED", !.state = "CONNECTED"]
      /\ todo' = Tail(todo) /\ waiting' = NoRequest
      /\ UNCHANGED <<toServer, toClient, server, stray>>
  BY <1>0, StepIs DEF Connected, Succeeded, CallInv, Types
<1>2. client' \in ClientType /\ client'.token = client.token /\ client'.expires = client.expires
  BY <1>1, Zenon DEF ClientType
<1>3. waiting = NoRequest
  BY <1>1, NothingAwaited DEF SentTypes, ServiceTypes
<1>4. stray = 0 => OnlyClosing' /\ toClient' = <<>> /\ ~OpenUnderWay
  BY <1>1, <1>3, IdleToken DEF OnlyClosing
<1>. QED
  BY <1>1, <1>2, <1>4, TailToken

LEMMA CloseChannelToken ==
    ASSUME CallInv, TokenInv, CloseSecureChannel
    PROVE  TokenInv'
<1>0. Sent
  BY DEF CloseSecureChannel
<1>1. /\ todo # <<>> /\ todo[1] = "CLO" /\ Request \in RequestType /\ Request.type = "CLO"
      /\ client' = [client EXCEPT !.requestId = Request.id] /\ client \in ClientType
      /\ client' \in ClientType
      /\ todo' = Tail(todo) /\ waiting' = NoRequest /\ waiting = NoRequest
  BY <1>0, RequestIs DEF CloseSecureChannel, CallInv, Types, Succeeded
<1>2. client'.token = client.token /\ client'.expires = client.expires
  BY <1>1 DEF ClientType
<1>3. UNCHANGED <<server, toClient, stray>>
  BY <1>0 DEF Sent
<1>4. toServer \in Seq(RequestType) /\ toServer' \in {Append(toServer, Request), toServer}
  BY <1>0 DEF CallInv, Types, Sent
<1>5. ASSUME stray = 0 PROVE OnlyClosing' /\ toClient' = <<>> /\ ~OpenUnderWay
  <2>1. OnlyClosing /\ toClient = <<>> /\ ~OpenUnderWay
    BY <1>1, <1>5, IdleToken
  <2>2. OnlyClosing'
    <3>. HIDE DEF Request
    <3>. QED
      BY <1>1, <1>4, <2>1 DEF OnlyClosing
  <2>. QED
    BY <1>3, <2>1, <2>2
<1>. QED
  BY <1>1, <1>2, <1>3, <1>5, TailToken

LEMMA TookToken ==
    ASSUME CallInv, TokenInv, TookAck \/ TookOpen \/ TookResponse
    PROVE  TokenInv'
<1>0. Took
  BY DEF TookAck, TookOpen, TookResponse
<1>1. /\ todo # <<>> /\ waiting \in RequestType /\ waiting.type = todo[1]
      /\ toClient # <<>> /\ toClient[1] \in ReplyType /\ client \in ClientType
  BY <1>0, TookReply
<1>2. todo' = Tail(todo) /\ waiting' = NoRequest /\ UNCHANGED <<toServer, server, stray>>
  BY <1>0 DEF Took
<1>3. ASSUME stray = 0 PROVE OnlyClosing' /\ toClient' = <<>>
  <2>1. OneMessage /\ Len(toClient) <= 1
    BY <1>3 DEF TokenInv, Single
  <2>. QED
    BY <1>0, <2>1, TookOne
<1>4. CASE TookAck \/ TookResponse
  <2>1. todo[1] \notin {"init", "socket", "RENEW", "OPN"}
    BY <1>4 DEF TookAck, TookResponse, ServiceTypes
  <2>2. client' \in ClientType /\ client'.token = client.token /\ client'.expires = client.expires
    <3>1. CASE TookAck
      BY <1>1, <3>1, Zenon DEF TookAck, ClientType
    <3>2. CASE TookResponse
      <4>1. toClient[1].auth \in Nat
        BY <1>1 DEF ReplyType
      <4>2. client' \in {client, [client EXCEPT !.auth = toClient[1].auth]}
        BY <3>2 DEF TookResponse
      <4>. QED
        BY <1>1, <4>1, <4>2 DEF ClientType
    <3>. QED
      BY <1>4, <3>1, <3>2
  <2>3. stray = 0 => ~OpenUnderWay
    BY <1>1, <2>1, AnswerNotOpen DEF TokenInv, Single, Handshake
  <2>. QED
    BY <1>1, <1>2, <1>3, <2>1, <2>2, <2>3, TailToken
<1>5. CASE TookOpen
  <2>1. /\ todo[1] \in Handshake /\ toClient[1].type = "OPN"
        /\ client' = [client EXCEPT !.expires = LifeTime, !.token = toClient[1].token]
    BY <1>5 DEF TookOpen
  <2>2. client'.expires = LifeTime /\ client'.token = toClient[1].token
    BY <1>1, <2>1 DEF ClientType
  <2>3. Ready'
    BY <2>2, ClientAssumption DEF Ready
  <2>4. Unopened'
    <3>1. Rest(todo)
      BY DEF CallInv
    <3>2. \A n \in 1 .. 13 : Left(todo', n) <=> Left(todo, n + 1)
      BY <1>1, <1>2, <3>1, RestTail, Zenon
    <3>3. (Left(todo', 9) => Left(todo, 10)) /\ (Left(todo', 8) => Left(todo, 9))
      BY <3>2
    <3>4. ~Left(todo, 10) /\ ~Left(todo, 9)
      BY <1>1, <2>1, <3>1, StepsLeft DEF Handshake
    <3>. QED
      BY <3>3, <3>4 DEF Unopened
  <2>5. Agreed'
    <3>. SUFFICES ASSUME stray = 0, server.open, ~server.again
                  PROVE  /\ server.token = NoToken => server.next = NoToken
                         /\ ~OpenUnderWay'
                         /\ client'.token = Newest /\ client'.expires <= NewestLife + MaxDelay
      BY <1>2 DEF Agreed, Newest, NewestLife
    <3>1. ~OpenUnderWay'
      BY <1>3 DEF OpenUnderWay
    <3>2. OpenUnderWay
      BY <1>1, <2>1 DEF OpenUnderWay
    <3>3. /\ server.token = NoToken => server.next = NoToken
          /\ toClient[1].token = Newest /\ LifeTime <= NewestLife + age
      BY <3>2 DEF TokenInv, Agreed
    <3>4. age \in 0 .. MaxDelay /\ NewestLife \in Nat
      <4>1. server \in ServerType /\ age \in 0 .. MaxDelay
        BY DEF CallInv, Types
      <4>2. server.life \in 0 .. LifeTime /\ server.nextLife \in 0 .. LifeTime
        BY <4>1 DEF ServerType
      <4>. QED
        BY <4>1, <4>2, ClientAssumption DEF NewestLife
    <3>5. LifeTime <= NewestLife + MaxDelay
      <4>. HIDE DEF NewestLife
      <4>. QED
        BY <3>3, <3>4, ClientAssumption
    <3>. QED
      BY <2>2, <3>1, <3>3, <3>5
  <2>. QED
    BY <1>2, <1>3, <2>3, <2>4, <2>5, DoneToken
<1>. QED
  BY <1>4, <1>5

LEMMA SendToken ==
    ASSUME CallInv, TokenInv, Send
    PROVE  TokenInv'
<1>0. Sent
  BY DEF Send
<1>1. /\ todo # <<>> /\ Request \in RequestType /\ Request.type = todo[1] /\ Step = todo[1]
      /\ waiting = NoRequest /\ client \in ClientType
      /\ client' = [client EXCEPT !.requestId = Request.id] /\ client' \in ClientType
      /\ waiting' = Request /\ todo' = todo /\ age' \in 0 .. MaxDelay
  BY <1>0, RequestIs DEF Send, CallInv, Types
<1>2. client'.token = client.token /\ client'.expires = client.expires /\ client.expires \in Nat
  <2>. HIDE DEF Request
  <2>. QED
    BY <1>1 DEF ClientType
<1>3. UNCHANGED <<server, toClient, stray>>
  BY <1>0 DEF Sent
<1>4. Request.token = client.token /\ (todo[1] # "HEL" => Request.id = client.requestId + 1)
  BY <1>1 DEF Request
<1>5. waiting' # NoRequest
  <2>. HIDE DEF Request
  <2>. QED
    BY <1>1 DEF RequestType, SentTypes, ServiceTypes, NoRequest
<1>6. Ready'
  BY <1>5 DEF Ready
<1>7. Unopened'
  BY <1>1, <1>2 DEF TokenInv, Unopened
<1>8. Named'
  <2>1. client.requestId \in Nat
    BY <1>1 DEF ClientType
  <2>2. Request.type \in Handshake => Request.id # 0
    <3>. HIDE DEF Request
    <3>. QED
      BY <1>1, <1>4, <2>1 DEF Handshake
  <2>. HIDE DEF Request
  <2>. QED
    BY <1>1, <1>2, <1>4, <2>2 DEF Named
<1>9. Single'
  <2>1. stray = 0 => OneMessage
    BY DEF TokenInv, Single
  <2>2. stray = 0 => OneMessage' /\ toClient' = <<>>
    BY <2>1, SendOne
  <2>. QED
    BY <1>3, <2>2 DEF Single
<1>10. InTime'
  <2>. SUFFICES ASSUME stray = 0, NEW i \in 1 .. Len(toServer'), toServer'[i].type \in ServiceTypes
                PROVE  client'.expires + age' > TimeToRenew
    BY <1>3 DEF InTime
  <2>1. OnlyClosing
    BY <1>1, IdleToken
  <2>2. toServer \in Seq(RequestType) /\ toServer' \in {Append(toServer, Request), toServer}
    BY <1>0 DEF CallInv, Types, Sent
  <2>3. toServer'[i] = Request
    <3>1. \A k \in 1 .. Len(toServer) : toServer[k].type \notin ServiceTypes
      BY <2>1 DEF OnlyClosing, ServiceTypes
    <3>. HIDE DEF Request
    <3>. QED
      BY <1>1, <2>2, <3>1
  <2>4. client.expires > TimeToRenew
    <3>. HIDE DEF Request
    <3>. QED
      BY <1>1, <2>3 DEF TokenInv, Ready
  <2>. QED
    BY <1>1, <1>2, <2>4, ClientAssumption, SMTT(30)
<1>11. Agreed'
  <2>1. stray = 0 => ~OpenUnderWay
    BY <1>1, IdleToken
  <2>2. client'.expires \in {client.expires, 0}
    BY <1>2
  <2>. QED
    BY <1>1, <1>2, <1>3, <2>1, <2>2, KeptAgreed DEF TokenInv, OpenUnderWay
<1>. QED
  BY <1>6, <1>7, <1>8, <1>9, <1>10, <1>11 DEF TokenInv

\* A call begins, or UA_Client_disconnect inside a call.
LEMMA ApartToken ==
    ASSUME CallInv, TokenInv, Application \/ BeginDisconnect
    PROVE  TokenInv'
<1>1. /\ \A n \in 1 .. 9 : ~Left(todo', n)
      /\ todo' # <<>> => todo'[1] \notin ServiceTypes
      /\ waiting = NoRequest
  <2>1. CASE BeginDisconnect
    <3>1. todo # <<>> /\ todo[1] = "disconnect" /\ Rest(todo) /\ todo' = DisconnectSteps \o Tail(todo)
      BY <2>1, StepIs DEF BeginDisconnect, CallInv
    <3>2. /\ \A n \in 1 .. 10 : ~Left(todo', n)
          /\ todo' # <<>> => todo'[1] \notin ServiceTypes
      BY <3>1, RestDisconnect, SMTT(30)
    <3>3. waiting = NoRequest
      BY <3>1, NothingAwaited DEF SentTypes, ServiceTypes
    <3>. QED
      BY <3>2, <3>3
  <2>2. CASE Application
    <3>1. PICK s \in {<<>>, ConnectSteps, ResetSteps \o ConnectSteps, Service("Read"), <<"RENEW">>,
                      <<"disconnect">>, ResetSteps} : todo' = s
      <4>1. CASE Connect
        BY <4>1 DEF Connect, Begin
      <4>2. CASE CallService \/ ManuallyRenew \/ Disconnect \/ Reset
        BY <4>2, Zenon DEF CallService, ManuallyRenew, Disconnect, Reset, Begin
      <4>. QED
        BY <2>2, <4>1, <4>2, Zenon DEF Application
    <3>2. PICK steps : Begin(steps)
      BY <2>2, Zenon DEF Application, Connect, CallService, ManuallyRenew, Disconnect, Reset
    <3>3. waiting = NoRequest
      BY <3>2, Zenon DEF Begin, CallInv
    <3>. QED
      BY <3>1, <3>3, RestBegin, Zenon
  <2>. QED
    BY <2>1, <2>2
<1>2. UNCHANGED <<client, waiting, toServer, toClient, age, server, stray>>
  <2>1. CASE Application
    <3>1. PICK s : Begin(s) /\ UNCHANGED <<client, gone>>
      BY <2>1, Zenon DEF Application, Connect, CallService, ManuallyRenew, Disconnect, Reset
    <3>. QED
      BY <3>1 DEF Begin
  <2>2. CASE BeginDisconnect
    BY <2>2, Zenon DEF BeginDisconnect
  <2>. QED
    BY <2>1, <2>2
<1>3. Ready'
  BY <1>1 DEF Ready
<1>4. Unopened'
  BY <1>1 DEF Unopened
<1>5. Agreed'
  BY <1>2, Zenon DEF TokenInv, Agreed, Newest, NewestLife, OpenUnderWay
<1>6. stray = 0 => OnlyClosing' /\ toClient' = <<>>
  BY <1>1, <1>2, IdleToken DEF OnlyClosing
<1>. QED
  BY <1>1, <1>2, <1>3, <1>4, <1>5, <1>6, DoneToken

LEMMA InitialiseToken ==
    ASSUME CallInv, TokenInv, Initialise
    PROVE  TokenInv'
<1>1. /\ todo # <<>> /\ todo[1] = "init" /\ Rest(todo) /\ todo' = Tail(todo) /\ client' = FreshClient
      /\ server' = NoConnection /\ toServer' = <<>> /\ toClient' = <<>> /\ waiting' = NoRequest
      /\ UNCHANGED stray
  BY StepIs DEF Initialise, CallInv, Succeeded
<1>2. Ready'
  BY <1>1, RestTail, Zenon DEF Ready
<1>3. Unopened'
  BY <1>1, FreshClientType DEF Unopened
<1>4. Agreed'
  BY <1>1, NoConnectionIs DEF Agreed
<1>5. OnlyClosing'
  BY <1>1 DEF OnlyClosing
<1>. QED
  BY <1>1, <1>2, <1>3, <1>4, <1>5, DoneToken

LEMMA ClientToken ==
    ASSUME CallInv, TokenInv, ClientStep
    PROVE  TokenInv'
BY ClientStepIs, FailingToken, OpenedToken, SkipToken, SendToken, CloseChannelToken, TookToken, ApartToken,
   InitialiseToken, ConnectedToken, Zenon

-----------------------------------------------------------------------------
(* The steps of the server, and time *)

\* The server leaves the client alone: what it answers has to agree with it.
LEMMA ServerToken ==
    ASSUME TokenInv, UNCHANGED <<client, todo, waiting>>, Single', InTime', Agreed'
    PROVE  TokenInv'
<1>1. Ready'
  BY DEF TokenInv, Ready
<1>2. Unopened'
  BY DEF TokenInv, Unopened
<1>3. Named'
  BY Zenon DEF TokenInv, Named
<1>. QED
  BY <1>1, <1>2, <1>3 DEF TokenInv

LEMMA ClosedToken ==
    ASSUME CallInv, TokenInv, Closed
    PROVE  TokenInv'
<1>1. /\ server' = NoConnection /\ toServer' = <<>> /\ toClient' = toClient
      /\ UNCHANGED <<client, todo, waiting, stray>>
  BY DEF Closed
<1>2. Single'
  <2>1. stray = 0 => OneMessage'
    BY <1>1, ClosedOne DEF TokenInv, Single
  <2>. QED
    BY <1>1, <2>1 DEF TokenInv, Single
<1>3. InTime'
  BY <1>1 DEF InTime
<1>4. Agreed'
  BY <1>1, NoConnectionIs DEF Agreed
<1>. QED
  BY <1>1, <1>2, <1>3, <1>4, ServerToken

\* The tokens of the server, before and after a step that changes none
LEMMA Lives ==
    ASSUME CallInv
    PROVE  /\ Newest \in Nat /\ NewestLife \in 0 .. LifeTime /\ NewestLife \in Nat
           /\ client.expires \in 0 .. LifeTime /\ client.expires \in Nat /\ age \in 0 .. MaxDelay /\ age \in Nat
<1>1. client \in ClientType /\ server \in ServerType /\ age \in 0 .. MaxDelay
  BY DEF CallInv, Types
<1>2. /\ server.token \in Nat /\ server.next \in Nat
      /\ server.life \in 0 .. LifeTime /\ server.nextLife \in 0 .. LifeTime
      /\ client.expires \in 0 .. LifeTime
  BY <1>1 DEF ServerType, ClientType
<1>. QED
  BY <1>1, <1>2, ClientAssumption DEF Newest, NewestLife

LEMMA PublishToken ==
    ASSUME CallInv, TokenInv, PublishResponse
    PROVE  TokenInv'
<1>1. stray' # 0 /\ UNCHANGED <<client, todo, waiting>>
  <2>1. stray \in 0 .. MaxStray
    BY DEF CallInv, Types
  <2>. QED
    BY <2>1 DEF PublishResponse
<1>2. Single' /\ InTime' /\ Agreed'
  BY <1>1 DEF Single, InTime, Agreed
<1>. QED
  BY <1>1, <1>2, ServerToken

LEMMA CleanupToken ==
    ASSUME CallInv, TokenInv, Cleanup
    PROVE  TokenInv'
<1>0. server \in ServerType
  BY DEF CallInv, Types
<1>1. /\ server.open /\ server.next # NoToken
      /\ server' = [server EXCEPT !.token = server.next, !.life = server.nextLife,
                                  !.next = NoToken, !.nextLife = 0]
      /\ UNCHANGED <<client, todo, waiting, toServer, toClient, age, stray>>
  BY DEF Cleanup
<1>2. /\ server'.token = server.next /\ server'.life = server.nextLife /\ server'.next = NoToken
      /\ server'.again = server.again
  BY <1>0, <1>1 DEF ServerType
<1>3. Newest' = Newest /\ NewestLife' = NewestLife
  BY <1>1, <1>2 DEF Newest, NewestLife
<1>4. Agreed'
  BY <1>1, <1>2, <1>3, Zenon DEF TokenInv, Agreed, OpenUnderWay
<1>5. Single'
  <2>1. stray = 0 => OneMessage'
    BY <1>1, SameOne DEF TokenInv, Single
  <2>. QED
    BY <1>1, <2>1 DEF TokenInv, Single
<1>6. InTime'
  BY <1>1 DEF TokenInv, InTime
<1>. QED
  BY <1>1, <1>4, <1>5, <1>6, ServerToken

\* After an answer nothing but that answer is under way.
LEMMA AnsweredToken ==
    ASSUME CallInv, TokenInv, NEW r, Served(r), Fits(r), Agreed'
    PROVE  TokenInv'
<1>1. UNCHANGED <<client, todo, waiting, stray>>
  BY DEF Served
<1>2. ASSUME stray = 0 PROVE OneMessage' /\ Len(toClient') <= 1 /\ toServer' = <<>>
  <2>. DEFINE k == Len(toClient')
  <2>1. OneMessage
    BY <1>2 DEF TokenInv, Single
  <2>2. OneMessage' /\ k = 1 /\ toServer' = <<>>
    BY <2>1, ServeOne
  <2>3. k <= 1
    <3>. HIDE DEF k
    <3>. QED
      BY <2>2
  <2>. QED
    BY <2>2, <2>3, Zenon
<1>3. Single'
  BY <1>1, <1>2 DEF Single
<1>4. InTime'
  BY <1>1, <1>2 DEF InTime
<1>. QED
  BY <1>1, <1>3, <1>4, ServerToken

\* An answer that gives out no token changes neither the newest token nor what
\* the client believes.
LEMMA PlainAgreed ==
    ASSUME CallInv, TokenInv, NEW r, Served(r), Fits(r), r.type # "OPN",
           server'.again = server.again, Newest' = Newest, NewestLife' = NewestLife,
           server'.token = NoToken => server'.next = NoToken
    PROVE  Agreed'
<1>. SUFFICES ASSUME stray' = 0, server'.open, ~server'.again
              PROVE  /\ ~OpenUnderWay'
                     /\ client'.token = Newest /\ client'.expires <= NewestLife + MaxDelay
  BY DEF Agreed
<1>1. UNCHANGED <<client, stray>> /\ server.open
  BY DEF Served
<1>2. OneMessage
  BY <1>1 DEF TokenInv, Single
<1>3. toClient'[1] = r /\ toClient = <<>>
  BY <1>2, ServeOne
<1>4. ~OpenUnderWay /\ ~OpenUnderWay'
  BY <1>3 DEF OpenUnderWay
<1>. QED
  BY <1>1, <1>4 DEF TokenInv, Agreed

LEMMA HelloToken ==
    ASSUME CallInv, TokenInv, ServedHello
    PROVE  TokenInv'
<1>0. server \in ServerType /\ server' = [server EXCEPT !.hello = TRUE]
  BY DEF ServedHello, CallInv, Types
<1>1. PICK r : Served(r) /\ Fits(r) /\ r.type = "ACK"
  BY ServedFits, Zenon
<1>2. /\ server'.token = server.token /\ server'.next = server.next /\ server'.again = server.again
      /\ server'.life = server.life /\ server'.nextLife = server.nextLife
  BY <1>0 DEF ServerType
<1>3. Newest' = Newest /\ NewestLife' = NewestLife
  BY <1>2, Zenon DEF Newest, NewestLife
<1>4. Agreed'
  <2>1. CASE server.token = NoToken => server.next = NoToken
    <3>1. r.type # "OPN" /\ (server'.token = NoToken => server'.next = NoToken)
      BY <1>1, <1>2, <2>1
    <3>. QED
      BY <1>1, <1>2, <1>3, <3>1, PlainAgreed
  <2>2. CASE ~(server.token = NoToken => server.next = NoToken)
    <3>1. server.open /\ stray' = stray
      BY <1>1 DEF Served
    <3>. QED
      BY <1>2, <2>2, <3>1 DEF TokenInv, Agreed
  <2>. QED
    BY <2>1, <2>2
<1>. QED
  BY <1>1, <1>4, AnsweredToken

LEMMA MessageToken ==
    ASSUME CallInv, TokenInv, ServedMessage
    PROVE  TokenInv'
<1>. DEFINE m == toServer[1]
            s == Revolved(m)
<1>0. server \in ServerType /\ m \in RequestType /\ s \in ServerType
  <2>1. server \in ServerType /\ toServer # <<>> /\ Types
    BY DEF ServedMessage, Served, CallInv, Types
  <2>. QED
    BY <2>1, HeadType, RevolvedIs
<1>1. /\ m.type \in ServiceTypes
      /\ m.token \in {server.token, server.next} /\ m.token # NoToken
      /\ server' \in {s, SessionAfter(m, s)}
  BY DEF ServedMessage
<1>2. PICK r : Served(r) /\ Fits(r) /\ r.type \in {m.type, "Fault"}
  BY ServedFits, Zenon
<1>3. /\ server'.token = s.token /\ server'.next = s.next /\ server'.again = s.again
      /\ server'.life = s.life /\ server'.nextLife = s.nextLife
  <2>. HIDE DEF m, s
  <2>. QED
    BY <1>0, <1>1, SessionAfterIs
<1>4. s.again = server.again
  BY <1>0, RevolvedIs
<1>5. CASE m.token = server.token
  <2>1. s = server
    BY <1>5 DEF Revolved
  <2>2. Newest' = Newest /\ NewestLife' = NewestLife
    BY <1>3, <2>1 DEF Newest, NewestLife
  <2>3. r.type # "OPN" /\ server'.again = server.again /\ (server'.token = NoToken => server'.next = NoToken)
    BY <1>1, <1>2, <1>3, <1>5, <2>1 DEF ServiceTypes
  <2>4. Agreed'
    BY <1>2, <2>2, <2>3, PlainAgreed
  <2>. QED
    BY <1>2, <2>4, AnsweredToken
<1>6. CASE m.token # server.token
  <2>1. m.token = server.next /\ server.next # NoToken
    BY <1>1, <1>6
  <2>2. s = [server EXCEPT !.token = server.next, !.life = server.nextLife,
                           !.next = NoToken, !.nextLife = 0]
    BY <1>6 DEF Revolved
  <2>3. s.token = server.next /\ s.life = server.nextLife /\ s.next = NoToken
    BY <1>0, <2>2 DEF ServerType
  <2>4. Newest' = Newest /\ NewestLife' = NewestLife
    <3>. HIDE DEF s, m
    <3>. QED
      BY <1>3, <2>1, <2>3 DEF Newest, NewestLife
  <2>5. r.type # "OPN" /\ server'.again = server.again /\ (server'.token = NoToken => server'.next = NoToken)
    <3>. HIDE DEF s, m
    <3>. QED
      BY <1>1, <1>2, <1>3, <1>4, <2>3 DEF ServiceTypes
  <2>6. Agreed'
    BY <1>2, <2>4, <2>5, PlainAgreed
  <2>. QED
    BY <1>2, <2>6, AnsweredToken
<1>. QED
  BY <1>5, <1>6

\* The first token of a channel
LEMMA OpenToken ==
    ASSUME CallInv, TokenInv, ServedOpen
    PROVE  TokenInv'
<1>. DEFINE m == toServer[1]
<1>0. server \in ServerType /\ m \in RequestType
  <2>1. server \in ServerType /\ toServer # <<>> /\ Types
    BY DEF ServedOpen, Served, CallInv, Types
  <2>. QED
    BY <2>1, HeadType
<1>1. m.type = "OPN" /\ server' = [server EXCEPT !.token = m.id, !.life = LifeTime]
  BY DEF ServedOpen
<1>2. PICK r : Served(r) /\ Fits(r) /\ r.type = "OPN" /\ r.good /\ r.token = m.id
  BY ServedFits, Zenon
<1>3. /\ server'.token = m.id /\ server'.life = LifeTime /\ server'.next = server.next
      /\ server'.again = server.again /\ server'.open = server.open
  <2>. HIDE DEF m
  <2>. QED
    BY <1>0, <1>1 DEF ServerType
<1>4. Agreed'
  <2>. SUFFICES ASSUME stray' = 0, ~server'.again
                PROVE  /\ server'.token = NoToken => server'.next = NoToken
                       /\ OpenUnderWay' /\ toClient'[1].good /\ toClient'[1].token = Newest'
                       /\ LifeTime <= NewestLife' + age'
    BY DEF Agreed
  <2>1. stray = 0 /\ server.open /\ ~server.again /\ age' = 0
    BY <1>2, <1>3 DEF Served
  <2>2. OneMessage
    BY <2>1 DEF TokenInv, Single
  <2>3. waiting = m /\ todo # <<>> /\ todo[1] = "OPN" /\ toClient'[1] = r /\ toClient = <<>>
    BY <1>1, <1>2, <2>2, ServeOne
  <2>4. client.token = NoToken
    <3>1. Left(todo, 8)
      BY <2>3, StepsLeft DEF CallInv
    <3>. QED
      BY <3>1 DEF TokenInv, Unopened
  <2>5. server.next = NoToken
    <3>1. ~OpenUnderWay
      BY <2>3 DEF OpenUnderWay
    <3>2. Newest = NoToken
      BY <2>1, <2>4, <3>1 DEF TokenInv, Agreed
    <3>. QED
      BY <3>2 DEF Newest
  <2>6. Newest' = m.id /\ NewestLife' = LifeTime
    BY <1>3, <2>5 DEF Newest, NewestLife
  <2>7. OpenUnderWay'
    <3>1. toClient' # <<>>
      <4>1. toClient \in Seq(ReplyType) /\ toClient' = Append(toClient, r)
        BY <1>2 DEF Served, CallInv, Types
      <4>. QED
        BY <4>1
    <3>. QED
      BY <1>2, <2>3, <3>1, Zenon DEF OpenUnderWay
  <2>8. LifeTime <= NewestLife' + age'
    BY <2>1, <2>6, ClientAssumption
  <2>. QED
    BY <1>2, <1>3, <2>3, <2>5, <2>6, <2>7, <2>8
<1>. QED
  BY <1>2, <1>4, AnsweredToken

\* The next token.  If the one before it has not been used yet, it is given out
\* again, and the guarantee ends.
LEMMA RenewToken ==
    ASSUME CallInv, TokenInv, ServedRenew
    PROVE  TokenInv'
<1>. DEFINE m == toServer[1]
<1>0. server \in ServerType /\ m \in RequestType
  <2>1. server \in ServerType /\ toServer # <<>> /\ Types
    BY DEF ServedRenew, Served, CallInv, Types
  <2>. QED
    BY <2>1, HeadType
<1>1. m.type = "RENEW" /\ server.token # NoToken /\ server' = Renewed(m)
  BY DEF ServedRenew
<1>2. PICK r : Served(r) /\ Fits(r) /\ r.type = "OPN" /\ r.good /\ r.token = server'.next
  BY ServedFits, Zenon
<1>3. CASE server.next = NoToken
  <2>0. server' = [server EXCEPT !.next = m.id, !.nextLife = LifeTime]
    BY <1>1, <1>3 DEF Renewed
  <2>1. /\ server'.token = server.token /\ server'.next = m.id /\ server'.nextLife = LifeTime
        /\ server'.again = server.again /\ server'.open = server.open
    <3>. HIDE DEF m
    <3>. QED
      BY <1>0, <2>0 DEF ServerType
  <2>2. Agreed'
    <3>. SUFFICES ASSUME stray' = 0
                  PROVE  /\ server'.token # NoToken
                         /\ OpenUnderWay' /\ toClient'[1].good /\ toClient'[1].token = Newest'
                         /\ LifeTime <= NewestLife' + age'
      BY DEF Agreed
    <3>1. stray = 0 /\ age' = 0
      BY <1>2 DEF Served
    <3>2. OneMessage
      BY <3>1 DEF TokenInv, Single
    <3>3. waiting = m /\ toClient'[1] = r
      BY <1>2, <3>2, ServeOne
    <3>4. m.id # 0
      <4>1. waiting # NoRequest
        <5>. HIDE DEF m
        <5>. QED
          BY <1>0, <3>3 DEF RequestType, SentTypes, ServiceTypes, NoRequest
      <4>. QED
        BY <1>1, <3>3, <4>1 DEF TokenInv, Named, Handshake
    <3>5. Newest' = m.id /\ NewestLife' = LifeTime
      <4>. HIDE DEF m
      <4>. QED
        BY <2>1, <3>4 DEF Newest, NewestLife, NoToken
    <3>6. OpenUnderWay'
      <4>1. toClient' # <<>>
        <5>1. toClient \in Seq(ReplyType) /\ toClient' = Append(toClient, r)
          BY <1>2 DEF Served, CallInv, Types
        <5>. QED
          BY <5>1
      <4>. QED
        BY <1>2, <3>3, <4>1, Zenon DEF OpenUnderWay
    <3>7. LifeTime <= NewestLife' + age'
      BY <3>1, <3>5, ClientAssumption
    <3>. QED
      BY <1>1, <1>2, <2>1, <3>3, <3>5, <3>6, <3>7
  <2>. QED
    BY <1>2, <2>2, AnsweredToken
<1>4. CASE server.next # NoToken
  <2>1. server'.again
    BY <1>0, <1>1, <1>4, Zenon DEF Renewed, ServerType
  <2>2. Agreed'
    BY <2>1 DEF Agreed
  <2>. QED
    BY <1>2, <2>2, AnsweredToken
<1>. QED
  BY <1>3, <1>4

\* A tick takes the same from both lifetimes, and a message that is under way
\* grows older by as much.
LEMMA TickToken ==
    ASSUME CallInv, TokenInv, Tick
    PROVE  TokenInv'
<1>1. UNCHANGED <<todo, waiting, toServer, toClient, stray>> /\ (todo # <<>> => waiting # NoRequest)
  BY DEF Tick
<1>2. /\ client'.token = client.token /\ client'.expires = OneLess(client.expires)
      /\ server'.open = server.open /\ server'.token = server.token /\ server'.next = server.next
      /\ server'.again = server.again
      /\ server'.life = OneLess(server.life) /\ server'.nextLife = OneLess(server.nextLife)
  BY TickIs, Zenon
<1>3. Newest' = Newest /\ NewestLife' = OneLess(NewestLife)
  BY <1>2 DEF Newest, NewestLife
<1>4. /\ NewestLife \in Nat /\ client.expires \in Nat /\ age \in Nat
      /\ OneLess(client.expires) \in Nat /\ client.expires <= OneLess(client.expires) + 1
      /\ OneLess(NewestLife) \in Nat /\ NewestLife <= OneLess(NewestLife) + 1
      /\ NewestLife = 0 => OneLess(NewestLife) = 0
      /\ client.expires <= NewestLife + MaxDelay => OneLess(client.expires) <= OneLess(NewestLife) + MaxDelay
  <2>1. NewestLife \in Nat /\ client.expires \in Nat /\ age \in Nat
    BY Lives
  <2>. HIDE DEF NewestLife
  <2>. QED
    BY <2>1, ClientAssumption DEF OneLess
<1>5. UnderWay => age' = age + 1
  BY DEF Tick
<1>6. Ready'
  BY <1>1 DEF Ready
<1>7. Unopened'
  BY <1>1, <1>2 DEF TokenInv, Unopened
<1>8. Named'
  BY <1>1, <1>2, Zenon DEF TokenInv, Named
<1>9. Single'
  <2>1. stray = 0 => OneMessage'
    BY <1>1, SameOne DEF TokenInv, Single
  <2>. QED
    BY <1>1, <2>1 DEF TokenInv, Single
<1>10. InTime'
  <2>. SUFFICES ASSUME stray = 0, NEW i \in 1 .. Len(toServer), toServer[i].type \in ServiceTypes
                PROVE  client'.expires + age' > TimeToRenew
    BY <1>1 DEF InTime
  <2>1. client.expires + age > TimeToRenew
    BY DEF TokenInv, InTime
  <2>2. toServer # <<>>
    <3>1. toServer \in Seq(RequestType)
      BY DEF CallInv, Types
    <3>. QED
      BY <3>1
  <2>3. age' = age + 1
    BY <1>5, <2>2 DEF UnderWay
  <2>. HIDE DEF NewestLife
  <2>. QED
    BY <1>2, <1>4, <2>1, <2>3, ClientAssumption
<1>11. Agreed'
  <2>. SUFFICES ASSUME stray = 0, server.open, ~server.again
                PROVE  /\ server'.token = NoToken => server'.next = NoToken
                       /\ ~OpenUnderWay => client'.token = Newest' /\ client'.expires <= NewestLife' + MaxDelay
                       /\ OpenUnderWay => /\ toClient[1].good /\ toClient[1].token = Newest'
                                          /\ LifeTime <= NewestLife' + age'
    BY <1>1, <1>2 DEF Agreed, OpenUnderWay
  <2>1. /\ server.token = NoToken => server.next = NoToken
        /\ ~OpenUnderWay => client.token = Newest /\ client.expires <= NewestLife + MaxDelay
        /\ OpenUnderWay => /\ toClient[1].good /\ toClient[1].token = Newest
                           /\ LifeTime <= NewestLife + age
    BY DEF TokenInv, Agreed
  <2>2. OpenUnderWay => age' = age + 1
    <3>1. OneMessage
      BY DEF TokenInv, Single
    <3>. QED
      BY <1>5, <3>1 DEF OneMessage, OpenUnderWay, UnderWay
  <2>3. OpenUnderWay => LifeTime <= OneLess(NewestLife) + (age + 1)
    <3>. HIDE DEF NewestLife, OpenUnderWay
    <3>. QED
      BY <1>4, <2>1, ClientAssumption
  <2>. HIDE DEF NewestLife, OpenUnderWay, Newest
  <2>. QED
    BY <1>2, <1>3, <1>4, <2>1, <2>2, <2>3
<1>. QED
  BY <1>6, <1>7, <1>8, <1>9, <1>10, <1>11 DEF TokenInv

LEMMA InitToken == Init => TokenInv
<1>. SUFFICES ASSUME Init PROVE TokenInv
  OBVIOUS
<1>1. /\ todo = <<>> /\ waiting = NoRequest /\ toServer = <<>> /\ toClient = <<>>
      /\ client = FreshClient /\ server = NoConnection
  BY DEF Init
<1>2. Ready /\ Named
  BY <1>1, Zenon DEF Ready, Named
<1>3. InTime
  BY <1>1 DEF InTime
<1>4. Unopened
  BY <1>1, FreshClientType DEF Unopened
<1>5. Single
  BY <1>1 DEF Single, OneMessage
<1>6. Agreed
  BY <1>1, NoConnectionIs DEF Agreed
<1>. QED
  BY <1>2, <1>3, <1>4, <1>5, <1>6 DEF TokenInv

LEMMA NextToken ==
    ASSUME CallInv, TokenInv, [Next]_vars
    PROVE  TokenInv'
<1>1. CASE UNCHANGED vars
  <2>1. UNCHANGED <<client, todo, waiting, toServer, toClient, age, server, stray>>
    BY <1>1, Zenon DEF vars
  <2>. QED
    BY <2>1, Zenon DEF TokenInv, Ready, Unopened, Named, Single, InTime, Agreed, OneMessage, Newest, NewestLife,
                       OpenUnderWay
<1>2. CASE Serving \/ ServerCloses
  BY <1>2, ServingIs, HelloToken, OpenToken, RenewToken, MessageToken, ClosedToken, Zenon
<1>3. CASE SessionExpires
  <2>1. server \in ServerType /\ UNCHANGED <<client, todo, waiting, toServer, toClient, age, stray>>
    BY <1>3 DEF SessionExpires, CallInv, Types
  <2>2. /\ server'.open = server.open /\ server'.token = server.token /\ server'.next = server.next
        /\ server'.life = server.life /\ server'.nextLife = server.nextLife /\ server'.again = server.again
    BY <1>3, <2>1, Zenon DEF SessionExpires, ServerType
  <2>3. Newest' = Newest /\ NewestLife' = NewestLife
    BY <2>2, Zenon DEF Newest, NewestLife
  <2>4. Agreed'
    BY <2>1, <2>2, <2>3, Zenon DEF TokenInv, Agreed, OpenUnderWay
  <2>. QED
    BY <2>1, <2>4, Zenon DEF TokenInv, Ready, Unopened, Named, Single, InTime, OneMessage
<1>. QED
  BY <1>1, <1>2, <1>3, ApartToken, ClientToken, CleanupToken, PublishToken, TickToken, Zenon DEF Next

LEMMA InvGivesValid ==
    ASSUME CallInv, TokenInv
    PROVE  TokenValidOnArrival
<1>. SUFFICES ASSUME stray = 0, ~server.again,
                     NEW i \in DOMAIN toServer, toServer[i].type \in ServiceTypes
              PROVE  \/ toServer[i].token = server.token /\ server.life > 0
                     \/ toServer[i].token = server.next /\ server.nextLife > 0
  BY DEF TokenValidOnArrival
<1>1. i \in 1 .. Len(toServer) /\ toServer # <<>>
  <2>1. toServer \in Seq(RequestType)
    BY DEF CallInv, Types
  <2>. QED
    BY <2>1
<1>2. server.open
  BY <1>1 DEF CallInv
<1>3. waiting = toServer[i] /\ toClient = <<>>
  <2>1. OneMessage
    BY DEF TokenInv, Single
  <2>. QED
    BY <1>1, <2>1 DEF OneMessage, ServiceTypes
<1>4. toServer[i].token = client.token
  <2>1. waiting # NoRequest
    BY <1>1, <1>3, NoRequestNot DEF CallInv
  <2>. QED
    BY <1>3, <2>1 DEF TokenInv, Named
<1>5. client.expires + age > TimeToRenew
  BY <1>1 DEF TokenInv, InTime
<1>6. client.token = Newest /\ client.expires <= NewestLife + MaxDelay
  BY <1>2, <1>3 DEF TokenInv, Agreed, OpenUnderWay
<1>7. NewestLife > 0
  <2>1. NewestLife \in Nat /\ client.expires \in Nat /\ age \in 0 .. MaxDelay
    BY Lives
  <2>. HIDE DEF NewestLife
  <2>. QED
    BY <1>5, <1>6, <2>1, ClientAssumption
<1>. QED
  BY <1>4, <1>6, <1>7 DEF Newest, NewestLife

\* Every service request arrives with a token the server knows and before that
\* token expires, for any lifetime, any time the client keeps in reserve and any
\* delay of a message up to half of that time: until a publish response is taken
\* for the answer to a renewal, or a token that was not used is given out again.
THEOREM TokensValid == Spec => []TokenValidOnArrival
<1>1. Init /\ [][Next]_vars => [](CallInv /\ TokenInv)
  BY InitCall, NextCall, InitToken, NextToken, PTL
<1>2. CallInv /\ TokenInv => TokenValidOnArrival
  BY InvGivesValid
<1>. QED
  BY <1>1, <1>2, PTL DEF Spec

=============================================================================
