--------------------------- MODULE ChannelSession ---------------------------
(***************************************************************************)
(* Connections, secure channels and sessions of the server, and the        *)
(* messages, timeouts and disconnects that create, link and remove them.   *)
(*                                                                         *)
(* A UA_Connection belongs to the network layer, a UA_SecureChannel to the *)
(* channel manager, a UA_Session to the session manager.  They point at    *)
(* each other, and each of the three can disappear on its own.  Every      *)
(* field of these C structures is a function here.  One step is one        *)
(* message, one disconnect or one cleanup, each of which the main loop     *)
(* finishes before it starts the next (the default, single-threaded build) *)
(*                                                                         *)
(* A channel is named by its channelId and a session by its sessionId;     *)
(* the counters that issue them only grow.  The random authenticationToken *)
(* of a session is identified with its sessionId.  A token is kept as its  *)
(* id and the time createdAt + revisedLifetime, the only use of the two.   *)
(***************************************************************************)
EXTENDS Integers, FiniteSets

CONSTANTS
    Connections,        \* the UA_Connection structures the network layer may allocate
    NoConnection,       \* the NULL connection pointer
    MaxChannelCount,    \* cm->maxChannelCount
    MaxChannelLifetime, \* cm->maxChannelLifetime
    MaxSessionCount,    \* sessionManager->maxSessionCount
    MaxSessionLifeTime, \* sessionManager->maxSessionLifeTime
    RequestedLifetimes, \* channel lifetimes a client may ask for (UInt32)
    RequestedTimeouts,  \* session timeouts a client may ask for (Double)
    OneIssue,           \* no second channel is opened on a connection
    ChannelIdBound,     \* bound: channels opened in a behaviour
    TokenIdBound,       \* bound: tokens issued in a behaviour
    SessionIdBound,     \* bound: sessions created in a behaviour
    TimeBound           \* bound: last instant of the clock

ASSUME ConnectionsAssumption == NoConnection \notin Connections
ASSUME LimitsAssumption ==
    /\ MaxChannelCount \in Nat
    /\ MaxSessionCount \in Nat
    /\ MaxChannelLifetime \in Nat
    /\ MaxSessionLifeTime \in Nat
    /\ RequestedLifetimes \subseteq Nat
    /\ RequestedTimeouts \subseteq Int
    /\ OneIssue \in BOOLEAN
ASSUME BoundsAssumption ==
    /\ ChannelIdBound \in Nat
    /\ TokenIdBound \in Nat
    /\ SessionIdBound \in Nat
    /\ TimeBound \in Nat

ChannelId == 1 .. ChannelIdBound
SessionId == 1 .. SessionIdBound

\* The NULL channel pointer, and the channelId of the anonymous channel.
NoChannel == 0
\* The tokenId that says that no token is pending.
NoToken == 0

\* UA_ConnectionState, and FREE for a structure that is not allocated.
ConnState == {"FREE", "OPENING", "ESTABLISHED", "CLOSED"}

VARIABLES
    connState,     \* connection->state
    connChannel,   \* connection->channel
    channels,      \* cm->channels: the live channels
    chanConn,      \* channel->connection
    chanSessions,  \* channel->sessions
    tokenId,       \* channel->securityToken.tokenId
    tokenExpires,  \* channel->securityToken: createdAt + revisedLifetime
    nextTokenId,   \* channel->nextSecurityToken.tokenId
    nextExpires,   \* channel->nextSecurityToken: createdAt + revisedLifetime
    channelCount,  \* cm->currentChannelCount
    lastChannelId, \* cm->lastChannelId
    lastTokenId,   \* cm->lastTokenId
    sessions,      \* sessionManager->sessions: the live sessions
    sessChannel,   \* session->channel
    activated,     \* session->activated
    timeout,       \* session->timeout
    validTill,     \* session->validTill
    sessionCount,  \* sessionManager->currentSessionCount
    lastSessionId, \* sessionManager->lastSessionId
    now            \* UA_DateTime_now()

connVars == <<connState, connChannel>>
linkVars == <<connState, connChannel, channels, chanConn, chanSessions, sessChannel, channelCount>>
tokenVars == <<tokenId, tokenExpires, nextTokenId, nextExpires, lastTokenId>>
lifeVars == <<activated, timeout, validTill>>
sessVars == <<sessions, activated, timeout, validTill, sessionCount, lastSessionId>>
vars == <<connState, connChannel, channels, chanConn, chanSessions, tokenId, tokenExpires,
          nextTokenId, nextExpires, channelCount, lastChannelId, lastTokenId, sessions,
          sessChannel, activated, timeout, validTill, sessionCount, lastSessionId, now>>

Init ==
    /\ connState = [c \in Connections |-> "FREE"]
    /\ connChannel = [c \in Connections |-> NoChannel]
    /\ channels = {}
    /\ chanConn = [ch \in ChannelId |-> NoConnection]
    /\ chanSessions = [ch \in ChannelId |-> {}]
    /\ tokenId = [ch \in ChannelId |-> NoToken]
    /\ tokenExpires = [ch \in ChannelId |-> 0]
    /\ nextTokenId = [ch \in ChannelId |-> NoToken]
    /\ nextExpires = [ch \in ChannelId |-> 0]
    /\ channelCount = 0
    /\ lastChannelId = 1
    /\ lastTokenId = 1
    /\ sessions = {}
    /\ sessChannel = [s \in SessionId |-> NoChannel]
    /\ activated = [s \in SessionId |-> FALSE]
    /\ timeout = [s \in SessionId |-> 0]
    /\ validTill = [s \in SessionId |-> 0]
    /\ sessionCount = 0
    /\ lastSessionId = 1
    /\ now = 0

-----------------------------------------------------------------------------
(* Connections *)

\* connection->close: only the state changes, the socket is reaped by the network layer.
Close(c) == connState' = [connState EXCEPT ![c] = "CLOSED"]

\* connection->send: a failed write closes the connection.
Send(c) == connState' = connState \/ Close(c)

Accept(c) ==
    /\ connState[c] = "FREE"
    /\ connState' = [connState EXCEPT ![c] = "OPENING"]
    /\ connChannel' = [connChannel EXCEPT ![c] = NoChannel]
    /\ UNCHANGED <<channels, chanConn, chanSessions, channelCount, lastChannelId, tokenVars,
                   sessVars, sessChannel, now>>

\* Mutant of DetachSecureChannel: the channel keeps its pointer.
DetachOneEnd(c) == connChannel' = [connChannel EXCEPT ![c] = NoChannel] /\ UNCHANGED chanConn

\* UA_Connection_detachSecureChannel: both ends of the link are cleared.
DetachSecureChannel(c) ==
    /\ connChannel' = [connChannel EXCEPT ![c] = NoChannel]
    /\ chanConn' = [ch \in ChannelId |-> IF ch = connChannel[c] THEN NoConnection ELSE chanConn[ch]]

\* The closed socket is noticed: UA_JOBTYPE_DETACHCONNECTION, then FreeConnectionCallback.
Disconnect(c) ==
    /\ connState[c] # "FREE"
    /\ connState' = [connState EXCEPT ![c] = "FREE"]
    /\ DetachSecureChannel(c)
    /\ UNCHANGED <<channels, chanSessions, channelCount, lastChannelId, tokenVars,
                   sessVars, sessChannel, now>>

\* The messages that only close the connection: undecodable ones, OPN and MSG before the
\* HEL, an OPN that leaves the connection without a channel, a CLO for another channel.
CloseOnly(c) ==
    /\ connState[c] # "FREE"
    /\ Close(c)
    /\ UNCHANGED <<connChannel, channels, chanConn, chanSessions, channelCount, lastChannelId,
                   tokenVars, sessVars, sessChannel, now>>

\* A HEL is accepted in every state.  It is answered with an ACK, or cannot be decoded.
ProcessHEL(c) ==
    /\ connState[c] # "FREE"
    /\ connState' \in {[connState EXCEPT ![c] = st] : st \in {"ESTABLISHED", "CLOSED"}}
    /\ UNCHANGED <<connChannel, channels, chanConn, chanSessions, channelCount, lastChannelId,
                   tokenVars, sessVars, sessChannel, now>>

-----------------------------------------------------------------------------
(* Removing channels and sessions *)

\* Mutant of ClosedConnections: the connection is not told.
ClosedConnectionsForgotten(R) == {}

\* The connections of the channels R, which are detached and closed when R is removed.
ClosedConnections(R) == {chanConn[ch] : ch \in R} \ {NoConnection}

\* The sessions that lose their channel when R is removed.
DetachedSessions(R) == UNION {chanSessions[ch] : ch \in R}

\* UA_SecureChannel_deleteMembersCleanup for the channels R of the manager's list, after
\* UA_Session_deleteMembersCleanup for the sessions X.  A removed channel detaches and
\* closes its connection and leaves its sessions without a channel.  The list holds the
\* newest channel first and a connection points at its newest channel, so a channel that
\* loses its connection to the removal of another one was visited before.  Touching a freed
\* connection is undefined behaviour and has no step (see ChannelsOfConnection).
Remove(R, X) ==
    LET closed == ClosedConnections(R)
        detached == R \cup {connChannel[c] : c \in closed}
    IN
    /\ \A c \in closed : connState[c] # "FREE"
    /\ channels' = channels \ R
    /\ channelCount' = channelCount - Cardinality(R)
    /\ connState' = [c \in Connections |-> IF c \in closed THEN "CLOSED" ELSE connState[c]]
    /\ connChannel' = [c \in Connections |-> IF c \in closed THEN NoChannel ELSE connChannel[c]]
    /\ chanConn' = [ch \in ChannelId |-> IF ch \in detached THEN NoConnection ELSE chanConn[ch]]
    /\ chanSessions' = [ch \in ChannelId |->
           IF ch \in R THEN {} ELSE {s \in chanSessions[ch] : ~(s \in X /\ sessChannel[s] = ch)}]
    /\ sessChannel' = [s \in SessionId |->
           IF s \in X \cup DetachedSessions(R) THEN NoChannel ELSE sessChannel[s]]
    /\ sessions' = sessions \ X
    /\ sessionCount' = sessionCount - Cardinality(X)
    /\ activated' = [s \in SessionId |-> IF s \in X THEN FALSE ELSE activated[s]]
    /\ timeout' = [s \in SessionId |-> IF s \in X THEN 0 ELSE timeout[s]]

\* Those of the channels V that have a pending token.
Renewed(V) == {ch \in V : nextTokenId[ch] # NoToken}

\* UA_SecureChannel_revolveTokens for the channels V; the tokens of the channels R are gone.
RevolveTokens(V, R) ==
    LET revolved == Renewed(V)
    IN
    /\ tokenId' = [ch \in ChannelId |->
           IF ch \in R THEN NoToken ELSE IF ch \in revolved THEN nextTokenId[ch] ELSE tokenId[ch]]
    /\ tokenExpires' = [ch \in ChannelId |->
           IF ch \in R THEN 0 ELSE IF ch \in revolved THEN nextExpires[ch] ELSE tokenExpires[ch]]
    /\ nextTokenId' = [ch \in ChannelId |-> IF ch \in R \cup revolved THEN NoToken ELSE nextTokenId[ch]]
    /\ nextExpires' = [ch \in ChannelId |-> IF ch \in R \cup revolved THEN 0 ELSE nextExpires[ch]]
    /\ UNCHANGED lastTokenId

\* UA_SecureChannelManager_close, found by channelId.
CloseSecureChannel(ch) ==
    /\ Remove({ch} \cap channels, {})
    /\ RevolveTokens({}, {ch} \cap channels)
    /\ UNCHANGED <<lastChannelId, validTill, lastSessionId, now>>

\* Expired, or without a connection.
TimedOutChannels == {ch \in channels : tokenExpires[ch] < now \/ chanConn[ch] = NoConnection}

\* Mutants of TimedOutSessions: one instant too early; only sessions without a channel.
TimedOutSessionsEarly == {s \in sessions : validTill[s] <= now}
TimedOutSessionsDetached == {s \in sessions : validTill[s] < now /\ sessChannel[s] = NoChannel}

TimedOutSessions == {s \in sessions : validTill[s] < now}

\* UA_Server_cleanup, the repeated job: sessions first, then channels; the channels that
\* stay use their pending token from now on.
Cleanup ==
    /\ Remove(TimedOutChannels, TimedOutSessions)
    /\ RevolveTokens(channels \ TimedOutChannels, TimedOutChannels)
    /\ validTill' = [s \in SessionId |-> IF s \in TimedOutSessions THEN 0 ELSE validTill[s]]
    /\ UNCHANGED <<lastChannelId, lastSessionId, now>>

-----------------------------------------------------------------------------
(* OpenSecureChannel *)

\* The lifetime the channel manager grants.
RevisedLifetime(requested) ==
    IF requested = 0 \/ requested > MaxChannelLifetime THEN MaxChannelLifetime ELSE requested

\* There is room for another channel.
ChannelAvailable == channelCount < MaxChannelCount

\* UA_SecureChannelManager_open and UA_Connection_attachSecureChannel.
Issue(c, requested) ==
    LET ch == lastChannelId
    IN
    /\ connState[c] = "ESTABLISHED"
    /\ OneIssue => connChannel[c] = NoChannel
    /\ ChannelAvailable
    /\ lastChannelId <= ChannelIdBound
    /\ lastTokenId <= TokenIdBound
    /\ channelCount' = channelCount + 1
    /\ lastChannelId' = lastChannelId + 1
    /\ lastTokenId' = lastTokenId + 1
    /\ channels' = channels \cup {ch}
    /\ tokenId' = [tokenId EXCEPT ![ch] = lastTokenId]
    /\ tokenExpires' = [tokenExpires EXCEPT ![ch] = now + RevisedLifetime(requested)]
    /\ chanConn' = [chanConn EXCEPT ![ch] = c]
    /\ connChannel' = [connChannel EXCEPT ![c] = ch]
    /\ Send(c)
    /\ UNCHANGED <<nextTokenId, nextExpires, chanSessions, sessVars, sessChannel, now>>

\* UA_SecureChannelManager_renew: a token that is already pending is handed out again.
Renew(c, requested) ==
    LET ch == connChannel[c]
    IN
    /\ connState[c] = "ESTABLISHED"
    /\ ch # NoChannel
    /\ \/ /\ nextTokenId[ch] = NoToken
          /\ lastTokenId <= TokenIdBound
          /\ nextTokenId' = [nextTokenId EXCEPT ![ch] = lastTokenId]
          /\ nextExpires' = [nextExpires EXCEPT ![ch] = now + RevisedLifetime(requested)]
          /\ lastTokenId' = lastTokenId + 1
       \/ /\ nextTokenId[ch] # NoToken
          /\ UNCHANGED <<nextTokenId, nextExpires, lastTokenId>>
    /\ Send(c)
    /\ UNCHANGED <<connChannel, channels, chanConn, chanSessions, channelCount, lastChannelId,
                   tokenId, tokenExpires, sessVars, sessChannel, now>>

\* An ISSUE refused for its security mode or for the number of channels, on a connection
\* that has a channel: the answer carries the error.
RefuseIssue(c, modeNone) ==
    /\ connState[c] = "ESTABLISHED"
    /\ connChannel[c] # NoChannel
    /\ modeNone => ~ChannelAvailable
    /\ Send(c)
    /\ UNCHANGED <<connChannel, channels, chanConn, chanSessions, channelCount, lastChannelId,
                   tokenVars, sessVars, sessChannel, now>>

-----------------------------------------------------------------------------
(* Service calls on an established connection *)

\* The checks at the start of processMSG.  Without a channel the only services are
\* stateless, so the actions below require one.  A token that is not current makes the
\* pending token current.
Authorized(c, tok) ==
    /\ connState[c] = "ESTABLISHED"
    /\ connChannel[c] # NoChannel
    /\ tok \in {tokenId[connChannel[c]], nextTokenId[connChannel[c]]}
    /\ RevolveTokens(IF tok = tokenId[connChannel[c]] THEN {} ELSE {connChannel[c]}, {})

\* A request whose token is neither current nor pending closes the channel.
WrongToken(c, tok) ==
    /\ connState[c] = "ESTABLISHED"
    /\ connChannel[c] # NoChannel
    /\ tok \notin {tokenId[connChannel[c]], nextTokenId[connChannel[c]]}
    /\ CloseSecureChannel(connChannel[c])

\* UA_SecureChannel_getSession and UA_Session_updateLifetime: the session s of the request,
\* if it is attached to the channel of the connection, stays valid for its timeout.
UpdatedLifetime(c, s) ==
    IF s \in chanSessions[connChannel[c]]
    THEN [validTill EXCEPT ![s] = now + timeout[s]]
    ELSE validTill

\* Every request that leaves the links alone: the services modelled elsewhere for an
\* attached session, and every request answered with an error.
OtherService(c, tok, s) ==
    /\ Authorized(c, tok)
    /\ validTill' \in {validTill, UpdatedLifetime(c, s)}
    /\ Send(c)
    /\ UNCHANGED <<connChannel, channels, chanConn, chanSessions, channelCount, lastChannelId,
                   sessions, sessChannel, activated, timeout, sessionCount, lastSessionId, now>>

\* Mutant of RevisedTimeout: only the upper limit is enforced.
RevisedTimeoutUpper(requested) == IF requested <= MaxSessionLifeTime THEN requested ELSE MaxSessionLifeTime

RevisedTimeout(requested) ==
    IF requested > 0 /\ requested <= MaxSessionLifeTime THEN requested ELSE MaxSessionLifeTime

\* UA_SessionManager_createSession.  The new session has no channel yet.  When the answer
\* cannot be built the session is removed again and only its sessionId is used up.
CreateSession(c, tok, s, requested, built) ==
    LET new == lastSessionId
    IN
    /\ Authorized(c, tok)
    /\ sessionCount < MaxSessionCount
    /\ lastSessionId <= SessionIdBound
    /\ lastSessionId' = lastSessionId + 1
    /\ \/ /\ built
          /\ sessions' = sessions \cup {new}
          /\ sessionCount' = sessionCount + 1
          /\ timeout' = [timeout EXCEPT ![new] = RevisedTimeout(requested)]
          /\ validTill' = [UpdatedLifetime(c, s) EXCEPT ![new] = now + RevisedTimeout(requested)]
       \/ /\ ~built
          /\ validTill' = UpdatedLifetime(c, s)
          /\ UNCHANGED <<sessions, sessionCount, timeout>>
    /\ Send(c)
    /\ UNCHANGED <<connChannel, channels, chanConn, chanSessions, channelCount, lastChannelId,
                   sessChannel, activated, now>>

\* Mutant of ValidSession: does not look at validTill.
ValidSessionAnyAge(c, s) == s \in sessions

\* UA_SessionManager_getSession, after the lifetime was updated.
ValidSession(c, s) == s \in sessions /\ UpdatedLifetime(c, s)[s] >= now

\* Service_ActivateSession with an identity that is accepted: the session moves from the
\* channel it is attached to, if any, to the channel of the request.
ActivateSession(c, tok, s) ==
    LET ch == connChannel[c]
    IN
    /\ Authorized(c, tok)
    /\ ValidSession(c, s)
    /\ chanSessions' = [d \in ChannelId |->
           CASE d = sessChannel[s] /\ d # ch -> chanSessions[d] \ {s}
             [] d = ch /\ d # sessChannel[s] -> chanSessions[d] \cup {s}
             [] OTHER -> chanSessions[d]]
    /\ sessChannel' = [sessChannel EXCEPT ![s] = ch]
    /\ activated' = [activated EXCEPT ![s] = TRUE]
    /\ validTill' = [validTill EXCEPT ![s] = now + timeout[s]]
    /\ Send(c)
    /\ UNCHANGED <<connChannel, channels, chanConn, channelCount, lastChannelId, sessions,
                   timeout, sessionCount, lastSessionId, now>>

\* Service_CloseSession: only a session attached to the channel can be closed.
CloseSession(c, tok, s) ==
    /\ Authorized(c, tok)
    /\ s \in chanSessions[connChannel[c]]
    /\ activated[s]
    /\ sessions' = sessions \ {s}
    /\ sessionCount' = sessionCount - 1
    /\ chanSessions' = [chanSessions EXCEPT ![sessChannel[s]] = @ \ {s}]
    /\ sessChannel' = [sessChannel EXCEPT ![s] = NoChannel]
    /\ activated' = [activated EXCEPT ![s] = FALSE]
    /\ timeout' = [timeout EXCEPT ![s] = 0]
    /\ validTill' = [validTill EXCEPT ![s] = 0]
    /\ Send(c)
    /\ UNCHANGED <<connChannel, channels, chanConn, channelCount, lastChannelId, lastSessionId, now>>

\* processCLO with the right channelId; with a wrong one only the connection is closed.
ProcessCLO(c) ==
    /\ connState[c] # "FREE"
    /\ connChannel[c] # NoChannel
    /\ CloseSecureChannel(connChannel[c])

Tick ==
    /\ now < TimeBound
    /\ now' = now + 1
    /\ UNCHANGED <<linkVars, tokenVars, lastChannelId, sessVars>>

-----------------------------------------------------------------------------
Tokens == 0 .. TokenIdBound

ServiceStep(c, tok) ==
    \/ WrongToken(c, tok)
    \/ \E s \in SessionId \cup {0} :
         \/ OtherService(c, tok, s)
         \/ \E requested \in RequestedTimeouts, built \in BOOLEAN : CreateSession(c, tok, s, requested, built)
    \/ \E s \in SessionId : ActivateSession(c, tok, s) \/ CloseSession(c, tok, s)

ConnectionStep(c) ==
    \/ Accept(c)
    \/ Disconnect(c)
    \/ ProcessHEL(c)
    \/ CloseOnly(c)
    \/ \E modeNone \in BOOLEAN : RefuseIssue(c, modeNone)
    \/ \E requested \in RequestedLifetimes : Issue(c, requested) \/ Renew(c, requested)
    \/ \E tok \in Tokens : ServiceStep(c, tok)
    \/ ProcessCLO(c)

Next ==
    \/ Cleanup
    \/ Tick
    \/ \E c \in Connections : ConnectionStep(c)

\* The main loop runs the repeated cleanup job for as long as the server runs.
Spec == Init /\ [][Next]_vars /\ WF_vars(Cleanup)

-----------------------------------------------------------------------------
(* Properties *)

\* Every variable has its type: ids within their bounds, timeouts that are never negative,
\* whatever was requested.
TypeOK ==
    /\ connState \in [Connections -> ConnState]
    /\ connChannel \in [Connections -> ChannelId \cup {NoChannel}]
    /\ channels \in SUBSET ChannelId
    /\ chanConn \in [ChannelId -> Connections \cup {NoConnection}]
    /\ chanSessions \in [ChannelId -> SUBSET SessionId]
    /\ tokenId \in [ChannelId -> Tokens]
    /\ tokenExpires \in [ChannelId -> Nat]
    /\ nextTokenId \in [ChannelId -> Tokens]
    /\ nextExpires \in [ChannelId -> Nat]
    /\ channelCount \in Int
    /\ lastChannelId \in 1 .. ChannelIdBound + 1
    /\ lastTokenId \in 1 .. TokenIdBound + 1
    /\ sessions \in SUBSET SessionId
    /\ sessChannel \in [SessionId -> ChannelId \cup {NoChannel}]
    /\ activated \in [SessionId -> BOOLEAN]
    /\ timeout \in [SessionId -> Nat]
    /\ validTill \in [SessionId -> Nat]
    /\ sessionCount \in Int
    /\ lastSessionId \in 1 .. SessionIdBound + 1
    /\ now \in Nat

\* The pointer of a connection to its channel is never stale: the connection is allocated,
\* the channel is live and points back.  Disconnects, timeouts, CLO, wrong tokens and new
\* channels all rewrite this pair of pointers from different places.
ChannelOfConnection ==
    \A c \in Connections :
        connChannel[c] # NoChannel =>
            /\ connState[c] # "FREE"
            /\ connChannel[c] \in channels
            /\ chanConn[connChannel[c]] = c

\* The other direction: the channel that holds a connection is "the securechannel that is
\* attached to this connection" (UA_Connection), so it never outlives the structure it
\* points at.  It needs clients that issue one channel per connection.
ChannelsOfConnection ==
    \A ch \in ChannelId :
        chanConn[ch] # NoConnection => ch \in channels /\ connChannel[chanConn[ch]] = ch

\* A session is in the list of a channel exactly when it points at that channel, and then
\* both are live and the session is activated: a freed session or channel is in no list.
SessionsOfChannel ==
    \A s \in SessionId, ch \in ChannelId :
        /\ s \in chanSessions[ch] <=> sessChannel[s] = ch
        /\ s \in chanSessions[ch] => s \in sessions /\ ch \in channels /\ activated[s]

\* The counters that enforce the limits are the numbers of live objects, whichever of the
\* ways of removing an object was taken, and never pass the limits.
CountsExact ==
    /\ channelCount = Cardinality(channels)
    /\ sessionCount = Cardinality(sessions)
    /\ channelCount <= MaxChannelCount
    /\ sessionCount <= MaxSessionCount

\* No two tokens in use, current or pending, of any channels, have the same id, and a
\* pending token was issued after the current one.
TokensDistinct ==
    \A ch \in channels :
        /\ tokenId[ch] # NoToken
        /\ tokenId[ch] < lastTokenId
        /\ nextTokenId[ch] # NoToken => tokenId[ch] < nextTokenId[ch] /\ nextTokenId[ch] < lastTokenId
        /\ \A d \in channels \ {ch} :
             /\ tokenId[d] # tokenId[ch]
             /\ nextTokenId[d] # tokenId[ch]
             /\ nextTokenId[d] # NoToken => nextTokenId[d] # nextTokenId[ch]

\* The ids the managers hand out next are in use nowhere, and an id that is not in use has
\* no pending token that its next channel would inherit.
IdsFresh ==
    /\ \A ch \in channels : ch < lastChannelId
    /\ \A s \in sessions : s < lastSessionId
    /\ \A ch \in ChannelId \ channels : nextTokenId[ch] = NoToken

\* The part of the pointer structure that holds whatever the clients do, as one inductive
\* invariant: channels and sessions are created with fresh ids, so no pointer of an earlier
\* object can reach them.
LinkInv ==
    /\ ChannelOfConnection
    /\ SessionsOfChannel
    /\ CountsExact
    /\ TokensDistinct
    /\ IdsFresh

\* A session that timed out is not attached to another channel: only the channel it is
\* attached to can still revive it before the cleanup removes it.
NoLateAttach ==
    [][\A s \in SessionId :
          (sessChannel'[s] # sessChannel[s] /\ sessChannel'[s] # NoChannel) => validTill[s] >= now]_vars

\* A live session is removed only when it timed out or by its own CloseSession, never by
\* the loss of its channel or of its connection.
SessionsSurviveChannels ==
    [][\A s \in sessions \ sessions' :
          \/ validTill[s] < now
          \/ sessChannel[s] # NoChannel /\ channels' = channels]_vars

\* A channel without a connection does not stay: the cleanup gives its slot back.
OrphansReclaimed ==
    \A ch \in ChannelId : (ch \in channels /\ chanConn[ch] = NoConnection) ~> ch \notin channels

\* A session that timed out is removed, unless its channel uses it again before the cleanup.
ExpiredReclaimed ==
    \A s \in SessionId :
        (s \in sessions /\ validTill[s] < now) ~> (s \notin sessions \/ validTill[s] >= now)

\* Every slot of the two managers is given back: nothing that is orphaned or timed out stays,
\* whatever order disconnects, timeouts and cleanups come in.
Reclaimed == OrphansReclaimed /\ ExpiredReclaimed

\* What the comment of the channel cleanup says: it removes "channels that were not renewed
\* or who have no connection attached".  A channel whose pending token has not expired was
\* renewed.
RenewedChannelStays ==
    [][Cleanup => \A ch \in channels \ channels' :
          \/ chanConn[ch] = NoConnection
          \/ connState[chanConn[ch]] # "ESTABLISHED"
          \/ nextTokenId[ch] = NoToken
          \/ nextExpires[ch] < now]_vars

\* What the comment in processMSG says of a wrong token: "close the securechannel but keep
\* the connection open".
WrongTokenKeepsConnection ==
    [][\A c \in Connections, tok \in Tokens : WrongToken(c, tok) => connState'[c] = "ESTABLISHED"]_vars
=============================================================================
