------------------------ MODULE ChannelSessionProofs ------------------------
(***************************************************************************)
(* Proofs about ChannelSession, for any number of connections, any limits  *)
(* and any bounds.                                                         *)
(***************************************************************************)
EXTENDS ChannelSession, FiniteSetTheorems, TLAPS

USE DEF Tokens, NoToken, ConnState

-----------------------------------------------------------------------------
(* Type correctness *)

LEMMA SendType ==
    ASSUME TypeOK, NEW c \in Connections, Send(c)
    PROVE  connState' \in [Connections -> ConnState]
BY DEF TypeOK, Send, Close

\* The new tokens of RevolveTokens are tokens.
LEMMA RevolveTokensType ==
    ASSUME TypeOK, NEW V, NEW R, RevolveTokens(V, R)
    PROVE  /\ tokenId' \in [ChannelId -> Tokens]
           /\ tokenExpires' \in [ChannelId -> Nat]
           /\ nextTokenId' \in [ChannelId -> Tokens]
           /\ nextExpires' \in [ChannelId -> Nat]
           /\ lastTokenId' \in 1 .. TokenIdBound + 1
BY BoundsAssumption DEF TypeOK, RevolveTokens

LEMMA AuthorizedType ==
    ASSUME TypeOK, NEW c \in Connections, NEW tok \in Tokens, Authorized(c, tok)
    PROVE  /\ tokenId' \in [ChannelId -> Tokens]
           /\ tokenExpires' \in [ChannelId -> Nat]
           /\ nextTokenId' \in [ChannelId -> Tokens]
           /\ nextExpires' \in [ChannelId -> Nat]
           /\ lastTokenId' \in 1 .. TokenIdBound + 1
<1>1. PICK V, R : RevolveTokens(V, R)
  BY DEF Authorized
<1>. QED
  BY <1>1, RevolveTokensType

LEMMA RemoveType ==
    ASSUME TypeOK, NEW R \in SUBSET channels, NEW X \in SUBSET sessions, Remove(R, X)
    PROVE  /\ connState' \in [Connections -> ConnState]
           /\ connChannel' \in [Connections -> ChannelId \cup {NoChannel}]
           /\ channels' \in SUBSET ChannelId
           /\ chanConn' \in [ChannelId -> Connections \cup {NoConnection}]
           /\ chanSessions' \in [ChannelId -> SUBSET SessionId]
           /\ channelCount' \in Int
           /\ sessions' \in SUBSET SessionId
           /\ sessChannel' \in [SessionId -> ChannelId \cup {NoChannel}]
           /\ activated' \in [SessionId -> BOOLEAN]
           /\ timeout' \in [SessionId -> Nat]
           /\ sessionCount' \in Int
<1>1. Cardinality(R) \in Int /\ Cardinality(X) \in Int
  <2>1. IsFiniteSet(ChannelId) /\ IsFiniteSet(SessionId)
    BY FS_Interval, BoundsAssumption DEF ChannelId, SessionId
  <2>2. IsFiniteSet(R) /\ IsFiniteSet(X)
    BY <2>1, FS_Subset DEF TypeOK
  <2>. QED
    BY <2>2, FS_CardinalityType
<1>2. channelCount' \in Int /\ sessionCount' \in Int
  BY <1>1 DEF TypeOK, Remove
<1>3. /\ connState' \in [Connections -> ConnState]
      /\ connChannel' \in [Connections -> ChannelId \cup {NoChannel}]
      /\ chanConn' \in [ChannelId -> Connections \cup {NoConnection}]
  BY DEF TypeOK, Remove
<1>4. /\ channels' \in SUBSET ChannelId
      /\ chanSessions' \in [ChannelId -> SUBSET SessionId]
      /\ sessions' \in SUBSET SessionId
  BY DEF TypeOK, Remove
<1>5. /\ sessChannel' \in [SessionId -> ChannelId \cup {NoChannel}]
      /\ activated' \in [SessionId -> BOOLEAN]
      /\ timeout' \in [SessionId -> Nat]
  BY Zenon DEF TypeOK, Remove
<1>. QED
  BY <1>2, <1>3, <1>4, <1>5

LEMMA RevisedType ==
    /\ \A r \in RequestedLifetimes : RevisedLifetime(r) \in Nat
    /\ \A r \in RequestedTimeouts : RevisedTimeout(r) \in Nat
BY LimitsAssumption DEF RevisedLifetime, RevisedTimeout

LEMMA UpdatedLifetimeType ==
    ASSUME TypeOK, NEW c \in Connections, NEW s \in SessionId \cup {0}
    PROVE  UpdatedLifetime(c, s) \in [SessionId -> Nat]
<1>1. \A v \in Nat : [validTill EXCEPT ![s] = v] \in [SessionId -> Nat]
  BY Zenon DEF TypeOK
<1>2. s \in SessionId => now + timeout[s] \in Nat
  BY DEF TypeOK
<1>3. s \notin SessionId => \A v : [validTill EXCEPT ![s] = v] \in [SessionId -> Nat]
  BY Zenon DEF TypeOK
<1>. QED
  BY <1>1, <1>2, <1>3 DEF TypeOK, UpdatedLifetime

LEMMA CloseSecureChannelType ==
    ASSUME TypeOK, NEW ch, CloseSecureChannel(ch)
    PROVE  TypeOK'
<1>1. Remove({ch} \cap channels, {}) /\ RevolveTokens({}, {ch} \cap channels)
  BY DEF CloseSecureChannel
<1>2. {ch} \cap channels \in SUBSET channels /\ {} \in SUBSET sessions
  OBVIOUS
<1>3. UNCHANGED <<lastChannelId, validTill, lastSessionId, now>>
  BY DEF CloseSecureChannel
<1>. QED
  BY <1>1, <1>2, <1>3, RemoveType, RevolveTokensType, Zenon DEF TypeOK

\* Every step of a connection, of the clock or of the cleanup keeps the types.
LEMMA TypeStep ==
    ASSUME TypeOK, [Next]_vars
    PROVE  TypeOK'
<1>1. CASE Cleanup
  <2>1. Remove(TimedOutChannels, TimedOutSessions) /\ RevolveTokens(channels \ TimedOutChannels, TimedOutChannels)
    BY <1>1 DEF Cleanup
  <2>2. TimedOutChannels \in SUBSET channels /\ TimedOutSessions \in SUBSET sessions
    BY DEF TimedOutChannels, TimedOutSessions
  <2>3. validTill' \in [SessionId -> Nat] /\ UNCHANGED <<lastChannelId, lastSessionId, now>>
    BY <1>1 DEF Cleanup, TypeOK
  <2>. QED
    BY <2>1, <2>2, <2>3, RemoveType, RevolveTokensType, Zenon DEF TypeOK
<1>2. CASE Tick
  BY <1>2 DEF Tick, TypeOK, linkVars, tokenVars, sessVars
<1>3. ASSUME NEW c \in Connections, ConnectionStep(c)
      PROVE  TypeOK'
  <2>1. CASE Accept(c)
    BY <2>1 DEF Accept, TypeOK, tokenVars, sessVars
  <2>2. CASE Disconnect(c)
    BY <2>2 DEF Disconnect, DetachSecureChannel, TypeOK, tokenVars, sessVars
  <2>3. CASE ProcessHEL(c)
    BY <2>3 DEF ProcessHEL, TypeOK, tokenVars, sessVars
  <2>4. CASE CloseOnly(c)
    BY <2>4 DEF CloseOnly, Close, TypeOK, tokenVars, sessVars
  <2>5. ASSUME NEW modeNone \in BOOLEAN, RefuseIssue(c, modeNone)
        PROVE  TypeOK'
    BY <2>5, SendType DEF RefuseIssue, TypeOK, tokenVars, sessVars
  <2>6. ASSUME NEW requested \in RequestedLifetimes, Issue(c, requested)
        PROVE  TypeOK'
    <3>1. lastChannelId \in ChannelId /\ lastTokenId \in Tokens
      BY <2>6, BoundsAssumption DEF Issue, TypeOK, ChannelId
    <3>2. now + RevisedLifetime(requested) \in Nat
      BY RevisedType DEF TypeOK
    <3>3. connState' \in [Connections -> ConnState]
      BY <2>6, SendType DEF Issue
    <3>4. /\ lastChannelId' \in 1 .. ChannelIdBound + 1
          /\ lastTokenId' \in 1 .. TokenIdBound + 1
          /\ channelCount' \in Int
      BY <2>6, BoundsAssumption DEF Issue, TypeOK
    <3>5. tokenId' \in [ChannelId -> Tokens] /\ tokenExpires' \in [ChannelId -> Nat]
      BY <2>6, <3>1, <3>2 DEF Issue, TypeOK
    <3>6. /\ channels' \in SUBSET ChannelId
          /\ chanConn' \in [ChannelId -> Connections \cup {NoConnection}]
          /\ connChannel' \in [Connections -> ChannelId \cup {NoChannel}]
      BY <2>6, <3>1 DEF Issue, TypeOK
    <3>. QED
      BY <2>6, <3>3, <3>4, <3>5, <3>6 DEF Issue, TypeOK, sessVars
  <2>7. ASSUME NEW requested \in RequestedLifetimes, Renew(c, requested)
        PROVE  TypeOK'
    <3>1. connState' \in [Connections -> ConnState]
      BY <2>7, SendType DEF Renew
    <3>2. now + RevisedLifetime(requested) \in Nat
      BY RevisedType DEF TypeOK
    <3>3. /\ nextTokenId' \in [ChannelId -> Tokens]
          /\ nextExpires' \in [ChannelId -> Nat]
          /\ lastTokenId' \in 1 .. TokenIdBound + 1
      BY <2>7, <3>2, BoundsAssumption DEF Renew, TypeOK
    <3>. QED
      BY <2>7, <3>1, <3>3 DEF Renew, TypeOK, sessVars
  <2>8. ASSUME NEW tok \in Tokens, ServiceStep(c, tok)
        PROVE  TypeOK'
    <3>1. CASE WrongToken(c, tok)
      BY <3>1, CloseSecureChannelType DEF WrongToken
    <3>2. ASSUME NEW s \in SessionId \cup {0}, OtherService(c, tok, s)
          PROVE  TypeOK'
      <4>1. connState' \in [Connections -> ConnState] /\ validTill' \in [SessionId -> Nat]
        <5>1. connState' \in [Connections -> ConnState]
          BY <3>2, SendType DEF OtherService, TypeOK
        <5>2. UpdatedLifetime(c, s) \in [SessionId -> Nat]
          BY UpdatedLifetimeType
        <5>3. validTill' \in {validTill, UpdatedLifetime(c, s)}
          BY <3>2 DEF OtherService
        <5>4. validTill \in [SessionId -> Nat]
          BY DEF TypeOK
        <5>. QED
          BY <5>1, <5>2, <5>3, <5>4
      <4>2. Authorized(c, tok)
        BY <3>2 DEF OtherService
      <4>. QED
        BY <3>2, <4>1, <4>2, AuthorizedType DEF OtherService, TypeOK
    <3>3. ASSUME NEW s \in SessionId \cup {0}, NEW requested \in RequestedTimeouts,
                 NEW built \in BOOLEAN, CreateSession(c, tok, s, requested, built)
          PROVE  TypeOK'
      <4>1. connState' \in [Connections -> ConnState]
        BY <3>3, SendType DEF CreateSession
      <4>2. Authorized(c, tok)
        BY <3>3 DEF CreateSession
      <4>3. lastSessionId \in SessionId /\ lastSessionId' \in 1 .. SessionIdBound + 1
        <5>1. lastSessionId <= SessionIdBound /\ lastSessionId' = lastSessionId + 1
          BY <3>3 DEF CreateSession
        <5>2. lastSessionId \in 1 .. SessionIdBound + 1
          BY DEF TypeOK
        <5>. QED
          BY <5>1, <5>2, BoundsAssumption DEF SessionId
      <4>4. now + RevisedTimeout(requested) \in Nat
        <5>1. now \in Nat
          BY DEF TypeOK
        <5>2. RevisedTimeout(requested) \in Nat
          BY RevisedType
        <5>. QED
          BY <5>1, <5>2
      <4>5. UpdatedLifetime(c, s) \in [SessionId -> Nat] /\ RevisedTimeout(requested) \in Nat
        BY RevisedType, UpdatedLifetimeType
      <4>6. validTill' \in [SessionId -> Nat] /\ timeout' \in [SessionId -> Nat]
        <5>1. \/ /\ timeout' = [timeout EXCEPT ![lastSessionId] = RevisedTimeout(requested)]
                 /\ validTill' = [UpdatedLifetime(c, s) EXCEPT
                                    ![lastSessionId] = now + RevisedTimeout(requested)]
              \/ timeout' = timeout /\ validTill' = UpdatedLifetime(c, s)
          BY <3>3 DEF CreateSession
        <5>2. timeout \in [SessionId -> Nat]
          BY DEF TypeOK
        <5>3. timeout' \in [SessionId -> Nat]
          BY <4>5, <5>1, <5>2
        <5>4. validTill' \in [SessionId -> Nat]
          BY <4>4, <4>5, <5>1
        <5>. QED
          BY <5>3, <5>4
      <4>7. sessions' \in SUBSET SessionId /\ sessionCount' \in Int
        <5>1. sessions' = sessions \cup {lastSessionId} \/ sessions' = sessions
          BY <3>3 DEF CreateSession
        <5>2. sessionCount' = sessionCount + 1 \/ sessionCount' = sessionCount
          BY <3>3 DEF CreateSession
        <5>3. sessions \in SUBSET SessionId /\ sessionCount \in Int
          BY DEF TypeOK
        <5>4. sessionCount' \in Int
          BY <5>2, <5>3
        <5>. QED
          BY <4>3, <5>1, <5>3, <5>4
      <4>. QED
        BY <3>3, <4>1, <4>2, <4>3, <4>6, <4>7, AuthorizedType DEF CreateSession, TypeOK
    <3>4. ASSUME NEW s \in SessionId, ActivateSession(c, tok, s)
          PROVE  TypeOK'
      <4>1. connState' \in [Connections -> ConnState]
        BY <3>4, SendType DEF ActivateSession
      <4>2. Authorized(c, tok)
        BY <3>4 DEF ActivateSession
      <4>3. chanSessions' \in [ChannelId -> SUBSET SessionId]
        BY <3>4 DEF ActivateSession, TypeOK
      <4>4. /\ sessChannel' \in [SessionId -> ChannelId \cup {NoChannel}]
            /\ activated' \in [SessionId -> BOOLEAN]
            /\ validTill' \in [SessionId -> Nat]
        BY <3>4 DEF ActivateSession, TypeOK
      <4>. QED
        BY <3>4, <4>1, <4>2, <4>3, <4>4, AuthorizedType DEF ActivateSession, TypeOK
    <3>5. ASSUME NEW s \in SessionId, CloseSession(c, tok, s)
          PROVE  TypeOK'
      <4>1. connState' \in [Connections -> ConnState]
        BY <3>5, SendType DEF CloseSession
      <4>2. Authorized(c, tok)
        BY <3>5 DEF CloseSession
      <4>3. /\ chanSessions' \in [ChannelId -> SUBSET SessionId]
            /\ sessChannel' \in [SessionId -> ChannelId \cup {NoChannel}]
            /\ sessions' \in SUBSET SessionId
        BY <3>5, Zenon DEF CloseSession, TypeOK
      <4>4. /\ timeout' \in [SessionId -> Nat]
            /\ validTill' \in [SessionId -> Nat]
            /\ sessionCount' \in Int
        <5>1. /\ timeout' = [timeout EXCEPT ![s] = 0]
              /\ validTill' = [validTill EXCEPT ![s] = 0]
              /\ sessionCount' = sessionCount - 1
          BY <3>5 DEF CloseSession
        <5>2. timeout \in [SessionId -> Nat] /\ validTill \in [SessionId -> Nat] /\ sessionCount \in Int
          BY DEF TypeOK
        <5>3. timeout' \in [SessionId -> Nat]
          BY <5>1, <5>2
        <5>4. validTill' \in [SessionId -> Nat]
          BY <5>1, <5>2
        <5>. QED
          BY <5>1, <5>2, <5>3, <5>4
      <4>5. activated' \in [SessionId -> BOOLEAN]
        BY <3>5 DEF CloseSession, TypeOK
      <4>. QED
        BY <3>5, <4>1, <4>2, <4>3, <4>4, <4>5, AuthorizedType DEF CloseSession, TypeOK
    <3>. QED
      BY <2>8, <3>1, <3>2, <3>3, <3>4, <3>5 DEF ServiceStep
  <2>9. CASE ProcessCLO(c)
    BY <2>9, CloseSecureChannelType DEF ProcessCLO
  <2>. QED
    BY <1>3, <2>1, <2>2, <2>3, <2>4, <2>5, <2>6, <2>7, <2>8, <2>9 DEF ConnectionStep
<1>4. CASE UNCHANGED vars
  BY <1>4 DEF vars, TypeOK
<1>. QED
  BY <1>1, <1>2, <1>3, <1>4 DEF Next

LEMMA TypeInit ==
    ASSUME Init
    PROVE  TypeOK
BY BoundsAssumption, SMTT(30) DEF Init, TypeOK, ConnState

\* Every field keeps its C type through every message, disconnect, timeout and cleanup; in
\* particular a negative requested session timeout never becomes a lifetime.
THEOREM TypeCorrect == Spec => []TypeOK
<1>1. Init => TypeOK
  BY TypeInit
<1>2. TypeOK /\ [Next]_vars => TypeOK'
  BY TypeStep
<1>. QED
  BY <1>1, <1>2, PTL DEF Spec

-----------------------------------------------------------------------------
(* The links, the counters and the tokens *)

LEMMA FiniteLists ==
    ASSUME TypeOK
    PROVE  IsFiniteSet(channels) /\ IsFiniteSet(sessions)
<1>1. IsFiniteSet(ChannelId) /\ IsFiniteSet(SessionId)
  BY FS_Interval, BoundsAssumption DEF ChannelId, SessionId
<1>. QED
  BY <1>1, FS_Subset DEF TypeOK

\* Steps that touch no pointer and free no connection.
LEMMA ChannelOfConnectionKept ==
    ASSUME TypeOK, ChannelOfConnection, UNCHANGED <<connChannel, channels, chanConn>>,
           \A c \in Connections : connState[c] # "FREE" => connState'[c] # "FREE"
    PROVE  ChannelOfConnection'
BY DEF ChannelOfConnection

LEMMA SendFreesNothing ==
    ASSUME TypeOK, NEW c \in Connections, Send(c)
    PROVE  \A d \in Connections : connState[d] # "FREE" => connState'[d] # "FREE"
BY DEF TypeOK, Send, Close

\* The next token id is none of those given out.
LEMMA AboveAll ==
    ASSUME NEW x \in Nat, NEW y \in Nat, NEW last \in Nat, last # 0,
           x < last, y # 0 => y < last
    PROVE  /\ x # last /\ y # last
           /\ x < last + 1 /\ (y # 0 => y < last + 1)
OBVIOUS

\* The counters the ids are taken from, and the ids in use, as numbers.
LEMMA TokenNumbers ==
    ASSUME TypeOK
    PROVE  /\ lastTokenId \in Nat \ {0}
           /\ \A d \in channels : tokenId[d] \in Nat /\ nextTokenId[d] \in Nat
<1>1. lastTokenId \in 1 .. TokenIdBound + 1
  BY DEF TypeOK
<1>2. \A d \in channels : tokenId[d] \in Tokens /\ nextTokenId[d] \in Tokens
  BY DEF TypeOK
<1>3. Tokens \subseteq Nat
  BY BoundsAssumption DEF Tokens
<1>4. lastTokenId \in Nat \ {0}
  BY <1>1, BoundsAssumption
<1>. QED
  BY <1>2, <1>3, <1>4

LEMMA FreshIds ==
    ASSUME TypeOK, LinkInv
    PROVE  /\ lastChannelId \in Int /\ \A d \in channels : d \in Int /\ d < lastChannelId
           /\ lastSessionId \in Int /\ \A x \in sessions : x \in Int /\ x < lastSessionId
           /\ lastChannelId \notin channels /\ lastSessionId \notin sessions
<1>1. /\ lastChannelId \in 1 .. ChannelIdBound + 1 /\ channels \subseteq ChannelId
      /\ lastSessionId \in 1 .. SessionIdBound + 1 /\ sessions \subseteq SessionId
  BY DEF TypeOK
<1>2. /\ \A d \in channels : d < lastChannelId
      /\ \A x \in sessions : x < lastSessionId
  BY DEF LinkInv, IdsFresh
<1>3. lastChannelId \in Int /\ \A d \in channels : d \in Int
  BY <1>1 DEF ChannelId
<1>4. lastSessionId \in Int /\ \A x \in sessions : x \in Int
  BY <1>1 DEF SessionId
<1>5. lastChannelId \notin channels
  BY <1>2, <1>3
<1>6. lastSessionId \notin sessions
  BY <1>2, <1>4
<1>. QED
  BY <1>2, <1>3, <1>4, <1>5, <1>6

LEMMA NoChannelId == NoChannel \notin ChannelId
BY DEF NoChannel, ChannelId

LEMMA SessionsOfChannelKept ==
    ASSUME SessionsOfChannel, UNCHANGED <<channels, chanSessions, sessChannel, sessions, activated>>
    PROVE  SessionsOfChannel'
BY DEF SessionsOfChannel

LEMMA CountsKept ==
    ASSUME CountsExact, UNCHANGED <<channels, sessions, channelCount, sessionCount>>
    PROVE  CountsExact'
BY DEF CountsExact

\* A channel that takes up its pending token keeps all tokens different.
LEMMA TokensKept ==
    ASSUME TypeOK, TokensDistinct, NEW R, NEW V, channels' = channels \ R, RevolveTokens(V, R)
    PROVE  TokensDistinct'
<1>1. SUFFICES ASSUME NEW ch \in channels \ R
               PROVE  /\ tokenId'[ch] # NoToken
                      /\ tokenId'[ch] < lastTokenId'
                      /\ nextTokenId'[ch] # NoToken =>
                             tokenId'[ch] < nextTokenId'[ch] /\ nextTokenId'[ch] < lastTokenId'
                      /\ \A d \in (channels \ R) \ {ch} :
                           /\ tokenId'[d] # tokenId'[ch]
                           /\ nextTokenId'[d] # tokenId'[ch]
                           /\ nextTokenId'[d] # NoToken => nextTokenId'[d] # nextTokenId'[ch]
  BY DEF TokensDistinct
<1>2. \A d \in channels \ R :
        \/ tokenId'[d] = tokenId[d] /\ nextTokenId'[d] = nextTokenId[d]
        \/ tokenId'[d] = nextTokenId[d] /\ nextTokenId[d] # NoToken /\ nextTokenId'[d] = NoToken
  BY DEF RevolveTokens, Renewed, TypeOK
<1>3. lastTokenId' = lastTokenId
  BY DEF RevolveTokens
<1>4. \A d \in channels :
        /\ tokenId[d] # NoToken /\ tokenId[d] < lastTokenId
        /\ nextTokenId[d] # NoToken => tokenId[d] < nextTokenId[d] /\ nextTokenId[d] < lastTokenId
  BY DEF TokensDistinct
<1>5. \A d \in channels : \A e \in channels \ {d} :
        /\ tokenId[e] # tokenId[d] /\ nextTokenId[e] # tokenId[d]
        /\ nextTokenId[e] # NoToken => nextTokenId[e] # nextTokenId[d]
  BY DEF TokensDistinct
<1>6. /\ tokenId'[ch] # NoToken /\ tokenId'[ch] < lastTokenId'
      /\ nextTokenId'[ch] # NoToken =>
             tokenId'[ch] < nextTokenId'[ch] /\ nextTokenId'[ch] < lastTokenId'
  BY <1>2, <1>3, <1>4
<1>7. ASSUME NEW d \in (channels \ R) \ {ch}
      PROVE  /\ tokenId'[d] # tokenId'[ch] /\ nextTokenId'[d] # tokenId'[ch]
             /\ nextTokenId'[d] # NoToken => nextTokenId'[d] # nextTokenId'[ch]
  <2>1. /\ tokenId[d] # tokenId[ch] /\ nextTokenId[d] # tokenId[ch] /\ nextTokenId[ch] # tokenId[d]
        /\ nextTokenId[d] # NoToken \/ nextTokenId[ch] # NoToken => nextTokenId[d] # nextTokenId[ch]
    BY <1>5
  <2>2. tokenId[ch] # NoToken /\ tokenId[d] # NoToken
    BY <1>4
  <2>. QED
    BY <1>2, <2>1, <2>2
<1>. QED
  BY <1>6, <1>7

LEMMA IdsFreshKept ==
    ASSUME TypeOK, IdsFresh, NEW R, NEW V, channels' = channels \ R, sessions' \subseteq sessions,
           RevolveTokens(V, R), UNCHANGED <<lastChannelId, lastSessionId>>
    PROVE  IdsFresh'
<1>1. \A ch \in ChannelId \ channels' : nextTokenId'[ch] = NoToken
  BY DEF TypeOK, IdsFresh, RevolveTokens
<1>. QED
  BY <1>1 DEF IdsFresh

\* Removing channels and sessions, by a timeout, a CLO or a wrong token, leaves no pointer
\* to what was removed.
LEMMA RemoveLinks ==
    ASSUME TypeOK, LinkInv, NEW R \in SUBSET channels, NEW X \in SUBSET sessions, NEW V,
           Remove(R, X), RevolveTokens(V, R), UNCHANGED <<lastChannelId, lastSessionId>>
    PROVE  LinkInv'
<1>1. ChannelOfConnection'
  <2>1. SUFFICES ASSUME NEW c \in Connections, connChannel'[c] # NoChannel
                 PROVE  /\ connState'[c] # "FREE"
                        /\ connChannel'[c] \in channels'
                        /\ chanConn'[connChannel'[c]] = c
    BY DEF ChannelOfConnection
  <2>2. c \notin ClosedConnections(R) /\ connChannel'[c] = connChannel[c] /\ connState'[c] = connState[c]
    BY <2>1 DEF Remove
  <2>3. /\ connState[c] # "FREE"
        /\ connChannel[c] \in channels
        /\ chanConn[connChannel[c]] = c
    BY <2>1, <2>2 DEF LinkInv, ChannelOfConnection
  <2>4. connChannel[c] \notin R
    BY <2>2, <2>3, ConnectionsAssumption DEF ClosedConnections
  <2>5. \A d \in ClosedConnections(R) : connChannel[d] # connChannel[c]
    <3>1. SUFFICES ASSUME NEW d \in ClosedConnections(R), connChannel[d] = connChannel[c]
                   PROVE  FALSE
      OBVIOUS
    <3>2. d \in Connections
      BY DEF ClosedConnections, TypeOK
    <3>3. chanConn[connChannel[d]] = d
      BY <2>1, <2>2, <3>1, <3>2 DEF LinkInv, ChannelOfConnection
    <3>. QED
      BY <2>2, <2>3, <3>1, <3>3
  <2>6. chanConn'[connChannel[c]] = chanConn[connChannel[c]]
    BY <2>3, <2>4, <2>5 DEF Remove, TypeOK
  <2>. QED
    BY <2>2, <2>3, <2>4, <2>6 DEF Remove
<1>2. SessionsOfChannel'
  <2>1. SUFFICES ASSUME NEW s \in SessionId, NEW ch \in ChannelId
                 PROVE  /\ s \in chanSessions'[ch] <=> sessChannel'[s] = ch
                        /\ s \in chanSessions'[ch] => s \in sessions' /\ ch \in channels' /\ activated'[s]
    BY DEF SessionsOfChannel
  <2>2. s \in chanSessions'[ch] <=> ch \notin R /\ s \notin X /\ s \in chanSessions[ch]
    BY Zenon DEF Remove, LinkInv, SessionsOfChannel
  <2>3. sessChannel'[s] = ch <=> s \notin X /\ s \notin DetachedSessions(R) /\ sessChannel[s] = ch
    BY NoChannelId, Zenon DEF Remove
  <2>4. s \in chanSessions[ch] => (s \in DetachedSessions(R) <=> ch \in R)
    <3>1. \A d \in R : s \in chanSessions[d] => sessChannel[s] = d
      <4>1. R \subseteq ChannelId
        BY DEF TypeOK
      <4>2. \A d \in ChannelId : s \in chanSessions[d] => sessChannel[s] = d
        BY DEF LinkInv, SessionsOfChannel
      <4>. QED
        BY <4>1, <4>2
    <3>2. s \in chanSessions[ch] => sessChannel[s] = ch
      BY DEF LinkInv, SessionsOfChannel
    <3>3. s \in DetachedSessions(R) <=> \E d \in R : s \in chanSessions[d]
      BY DEF DetachedSessions
    <3>. QED
      BY <3>1, <3>2, <3>3
  <2>5. s \in chanSessions[ch] <=> sessChannel[s] = ch
    BY DEF LinkInv, SessionsOfChannel
  <2>6. s \in chanSessions[ch] => s \in sessions /\ ch \in channels /\ activated[s]
    BY DEF LinkInv, SessionsOfChannel
  <2>7. s \notin X => activated'[s] = activated[s]
    BY DEF Remove
  <2>. QED
    BY <2>2, <2>3, <2>4, <2>5, <2>6, <2>7, ZenonT(30) DEF Remove
<1>3. CountsExact'
  <2>1. IsFiniteSet(channels) /\ IsFiniteSet(sessions)
    BY FiniteLists
  <2>2. \A S, T : IsFiniteSet(S) /\ T \in SUBSET S =>
            /\ Cardinality(S \ T) = Cardinality(S) - Cardinality(T)
            /\ Cardinality(T) \in Nat
    <3>1. SUFFICES ASSUME NEW S, NEW T, IsFiniteSet(S), T \in SUBSET S
                   PROVE  /\ Cardinality(S \ T) = Cardinality(S) - Cardinality(T)
                          /\ Cardinality(T) \in Nat
      OBVIOUS
    <3>2. IsFiniteSet(T) /\ S \cap T = T
      BY <3>1, FS_Subset
    <3>3. Cardinality(S \ T) = Cardinality(S) - Cardinality(S \cap T)
      BY <3>1, FS_Difference
    <3>4. Cardinality(T) \in Nat
      BY <3>2, FS_CardinalityType
    <3>. QED
      BY <3>2, <3>3, <3>4
  <2>3. /\ Cardinality(channels \ R) = Cardinality(channels) - Cardinality(R)
        /\ Cardinality(sessions \ X) = Cardinality(sessions) - Cardinality(X)
        /\ Cardinality(R) \in Nat /\ Cardinality(X) \in Nat
    BY <2>1, <2>2, Zenon
  <2>4. Cardinality(channels) \in Nat /\ Cardinality(sessions) \in Nat
    BY <2>1, FS_CardinalityType
  <2>5. /\ channels' = channels \ R /\ channelCount' = channelCount - Cardinality(R)
        /\ sessions' = sessions \ X /\ sessionCount' = sessionCount - Cardinality(X)
    BY DEF Remove
  <2>6. /\ channelCount = Cardinality(channels) /\ channelCount <= MaxChannelCount
        /\ sessionCount = Cardinality(sessions) /\ sessionCount <= MaxSessionCount
    BY DEF LinkInv, CountsExact
  <2>7. channelCount' = Cardinality(channels') /\ sessionCount' = Cardinality(sessions')
    BY <2>3, <2>5, <2>6
  <2>8. channelCount' <= MaxChannelCount /\ sessionCount' <= MaxSessionCount
    BY <2>3, <2>4, <2>5, <2>6, LimitsAssumption
  <2>. QED
    BY <2>7, <2>8 DEF CountsExact
<1>4. channels' = channels \ R /\ sessions' \subseteq sessions
  BY Zenon DEF Remove
<1>5. TokensDistinct' /\ IdsFresh'
  BY <1>4, TokensKept, IdsFreshKept DEF LinkInv
<1>. QED
  BY <1>1, <1>2, <1>3, <1>5 DEF LinkInv

LEMMA CloseSecureChannelLinks ==
    ASSUME TypeOK, LinkInv, NEW ch, CloseSecureChannel(ch)
    PROVE  LinkInv'
<1>1. {ch} \cap channels \in SUBSET channels /\ {} \in SUBSET sessions
  OBVIOUS
<1>. QED
  BY <1>1, RemoveLinks DEF CloseSecureChannel

\* A service call that does not change the links.
LEMMA ServiceLinks ==
    ASSUME TypeOK, LinkInv, NEW c \in Connections, NEW tok \in Tokens, Authorized(c, tok), Send(c),
           UNCHANGED <<connChannel, channels, chanConn, channelCount, lastChannelId>>
    PROVE  ChannelOfConnection' /\ TokensDistinct' /\ (sessions' \subseteq sessions /\ UNCHANGED lastSessionId => IdsFresh')
<1>1. PICK V : RevolveTokens(V, {})
  BY DEF Authorized
<1>2. channels' = channels \ {}
  OBVIOUS
<1>3. ChannelOfConnection'
  BY ChannelOfConnectionKept, SendFreesNothing DEF LinkInv
<1>4. TokensDistinct'
  BY <1>1, <1>2, TokensKept DEF LinkInv
<1>5. ASSUME sessions' \subseteq sessions, UNCHANGED lastSessionId
      PROVE  IdsFresh'
  BY <1>1, <1>2, <1>5, IdsFreshKept DEF LinkInv
<1>. QED
  BY <1>3, <1>4, <1>5

\* A new channel has an id that no connection, session or token refers to.
LEMMA IssueLinks ==
    ASSUME TypeOK, LinkInv, NEW c \in Connections, NEW requested, Issue(c, requested)
    PROVE  LinkInv'
<1>. DEFINE ch == lastChannelId
<1>1. ch \in ChannelId /\ ch \notin channels
  <2>1. lastChannelId \in 1 .. ChannelIdBound + 1 /\ lastChannelId <= ChannelIdBound
    BY DEF Issue, TypeOK
  <2>2. lastChannelId \in ChannelId
    BY <2>1, BoundsAssumption DEF ChannelId
  <2>. QED
    BY <2>2, FreshIds
<1>2. ch # NoChannel
  BY <1>1 DEF ChannelId, NoChannel
<1>3. ChannelOfConnection'
  <2>1. \A d \in Connections : connState[d] # "FREE" => connState'[d] # "FREE"
    BY SendFreesNothing DEF Issue
  <2>2. SUFFICES ASSUME NEW d \in Connections, connChannel'[d] # NoChannel
                 PROVE  /\ connState'[d] # "FREE"
                        /\ connChannel'[d] \in channels'
                        /\ chanConn'[connChannel'[d]] = d
    BY DEF ChannelOfConnection
  <2>3. CASE d = c
    BY <1>1, <2>1, <2>3 DEF Issue, TypeOK
  <2>4. CASE d # c
    <3>1. connChannel'[d] = connChannel[d]
      BY <2>4 DEF Issue, TypeOK
    <3>2. /\ connState[d] # "FREE"
          /\ connChannel[d] \in channels
          /\ chanConn[connChannel[d]] = d
      BY <2>2, <3>1 DEF LinkInv, ChannelOfConnection
    <3>. QED
      BY <1>1, <2>1, <3>1, <3>2 DEF Issue, TypeOK
  <2>. QED
    BY <2>3, <2>4
<1>4. SessionsOfChannel'
  BY DEF LinkInv, SessionsOfChannel, Issue, sessVars
<1>5. CountsExact'
  <2>1. Cardinality(channels \cup {ch}) = Cardinality(channels) + 1 /\ Cardinality(channels) \in Nat
    BY <1>1, FiniteLists, FS_AddElement, FS_CardinalityType, Zenon
  <2>. QED
    <3>1. /\ channelCount < MaxChannelCount
          /\ channelCount' = channelCount + 1 /\ channels' = channels \cup {ch}
          /\ sessionCount' = sessionCount /\ sessions' = sessions
      BY DEF Issue, ChannelAvailable, sessVars
    <3>2. channelCount = Cardinality(channels) /\ sessionCount = Cardinality(sessions)
          /\ sessionCount <= MaxSessionCount
      BY DEF LinkInv, CountsExact
    <3>3. channelCount + 1 <= MaxChannelCount
      BY <2>1, <3>1, <3>2, LimitsAssumption
    <3>. QED
      BY <2>1, <3>1, <3>2, <3>3 DEF CountsExact
<1>6. TokensDistinct'
  <2>1. \A d \in channels : tokenId'[d] = tokenId[d] /\ nextTokenId'[d] = nextTokenId[d]
    BY <1>1 DEF Issue, TypeOK
  <2>2. tokenId'[ch] = lastTokenId /\ nextTokenId'[ch] = NoToken /\ lastTokenId' = lastTokenId + 1
    BY <1>1 DEF Issue, TypeOK, LinkInv, IdsFresh
  <2>3. channels' = channels \cup {ch}
    BY DEF Issue
  <2>4. lastTokenId \in Nat \ {0} /\ \A d \in channels : tokenId[d] \in Nat /\ nextTokenId[d] \in Nat
    BY TokenNumbers
  <2>. QED
    <3>1. \A d \in channels :
            /\ tokenId[d] # NoToken /\ tokenId[d] < lastTokenId
            /\ nextTokenId[d] # NoToken => tokenId[d] < nextTokenId[d] /\ nextTokenId[d] < lastTokenId
            /\ \A e \in channels \ {d} :
                 /\ tokenId[e] # tokenId[d] /\ nextTokenId[e] # tokenId[d]
                 /\ nextTokenId[e] # NoToken => nextTokenId[e] # nextTokenId[d]
      BY DEF LinkInv, TokensDistinct
    <3>2. ASSUME NEW d \in channels
          PROVE  /\ tokenId[d] # lastTokenId /\ nextTokenId[d] # lastTokenId
                 /\ tokenId[d] < lastTokenId'
                 /\ nextTokenId[d] # NoToken => nextTokenId[d] < lastTokenId'
      <4>1. /\ tokenId[d] \in Nat /\ nextTokenId[d] \in Nat
            /\ lastTokenId \in Nat /\ lastTokenId # 0 /\ lastTokenId' = lastTokenId + 1
        BY <2>2, <2>4
      <4>2. tokenId[d] < lastTokenId /\ (nextTokenId[d] # 0 => nextTokenId[d] < lastTokenId)
        BY <3>1
      <4>. QED
        BY <4>1, <4>2, AboveAll
    <3>3. lastTokenId < lastTokenId' /\ lastTokenId # NoToken
      BY <2>2, <2>4
    <3>4. \A d \in channels' :
            /\ tokenId'[d] # NoToken
            /\ tokenId'[d] < lastTokenId'
            /\ nextTokenId'[d] # NoToken =>
                  tokenId'[d] < nextTokenId'[d] /\ nextTokenId'[d] < lastTokenId'
      BY <2>1, <2>2, <2>3, <3>1, <3>2, <3>3, Zenon
    <3>5. ASSUME NEW d \in channels', NEW e \in channels' \ {d}
          PROVE  /\ tokenId'[e] # tokenId'[d]
                 /\ nextTokenId'[e] # tokenId'[d]
                 /\ nextTokenId'[e] # NoToken => nextTokenId'[e] # nextTokenId'[d]
      <4>1. CASE d = ch
        BY <2>1, <2>2, <2>3, <3>2, <4>1
      <4>2. CASE e = ch
        <5>1. d \in channels /\ tokenId'[d] = tokenId[d]
          BY <2>1, <2>3, <4>2
        <5>. QED
          BY <2>2, <3>1, <3>2, <4>2, <5>1
      <4>3. CASE d # ch /\ e # ch
        BY <2>1, <2>3, <3>1, <4>3
      <4>. QED
        BY <4>1, <4>2, <4>3
    <3>. QED
      BY <3>4, <3>5 DEF TokensDistinct
<1>7. IdsFresh'
  <2>1. \A d \in channels' : d < lastChannelId'
    <3>1. lastChannelId \in Int /\ \A d \in channels : d \in Int /\ d < lastChannelId
      BY FreshIds
    <3>2. channels' = channels \cup {ch} /\ lastChannelId' = ch + 1
      BY DEF Issue
    <3>. QED
      BY <3>1, <3>2
  <2>2. \A s \in sessions' : s < lastSessionId'
    BY DEF LinkInv, IdsFresh, Issue, sessVars
  <2>. QED
    BY <2>1, <2>2 DEF LinkInv, IdsFresh, Issue
<1>. QED
  BY <1>3, <1>4, <1>5, <1>6, <1>7 DEF LinkInv

LEMMA RenewLinks ==
    ASSUME TypeOK, LinkInv, NEW c \in Connections, NEW requested, Renew(c, requested)
    PROVE  LinkInv'
<1>. DEFINE ch == connChannel[c]
<1>1. ch \in channels
  BY DEF Renew, LinkInv, ChannelOfConnection
<1>2. ChannelOfConnection'
  BY ChannelOfConnectionKept, SendFreesNothing DEF LinkInv, Renew
<1>3. SessionsOfChannel' /\ CountsExact'
  BY SessionsOfChannelKept, CountsKept DEF LinkInv, Renew, sessVars
<1>4. TokensDistinct'
  <2>1. /\ lastTokenId \in Nat \ {0}
        /\ \A d \in channels : tokenId[d] \in Nat /\ nextTokenId[d] \in Nat
    BY TokenNumbers
  <2>2. /\ UNCHANGED <<channels, tokenId>>
        /\ \/ UNCHANGED <<nextTokenId, lastTokenId>>
           \/ /\ nextTokenId' = [nextTokenId EXCEPT ![ch] = lastTokenId]
              /\ lastTokenId' = lastTokenId + 1
    BY Zenon DEF Renew
  <2>3. TokensDistinct
    BY DEF LinkInv
  <2>4. CASE UNCHANGED <<nextTokenId, lastTokenId>>
    BY <2>2, <2>3, <2>4 DEF TokensDistinct
  <2>5. CASE /\ nextTokenId' = [nextTokenId EXCEPT ![ch] = lastTokenId]
             /\ lastTokenId' = lastTokenId + 1
    <3>1. lastTokenId < lastTokenId' /\ lastTokenId # NoToken
      <4>1. lastTokenId \in Nat \ {0}
        BY <2>1
      <4>2. lastTokenId' = lastTokenId + 1
        BY <2>5
      <4>. QED
        BY <4>1, <4>2
    <3>. /\ nextTokenId'[ch] = lastTokenId
         /\ \A d \in channels \ {ch} : nextTokenId'[d] = nextTokenId[d]
      BY <1>1, <2>5 DEF TypeOK
    <3>2. \A d \in channels :
            /\ tokenId[d] # NoToken /\ tokenId[d] < lastTokenId
            /\ nextTokenId[d] # NoToken => tokenId[d] < nextTokenId[d] /\ nextTokenId[d] < lastTokenId
            /\ \A e \in channels \ {d} :
                 /\ tokenId[e] # tokenId[d] /\ nextTokenId[e] # tokenId[d]
                 /\ nextTokenId[e] # NoToken => nextTokenId[e] # nextTokenId[d]
      BY <2>3, Zenon DEF TokensDistinct
    \* The new token is above all others.
    <3>3. ASSUME NEW d \in channels
          PROVE  /\ tokenId[d] # lastTokenId /\ nextTokenId[d] # lastTokenId
                 /\ tokenId[d] < lastTokenId /\ tokenId[d] < lastTokenId'
                 /\ nextTokenId[d] # NoToken => nextTokenId[d] < lastTokenId'
      <4>1. /\ tokenId[d] \in Nat /\ nextTokenId[d] \in Nat
            /\ lastTokenId \in Nat /\ lastTokenId # 0 /\ lastTokenId' = lastTokenId + 1
        BY <2>1, <2>5
      <4>2. tokenId[d] < lastTokenId /\ (nextTokenId[d] # 0 => nextTokenId[d] < lastTokenId)
        BY <3>2
      <4>. QED
        BY <4>1, <4>2, AboveAll, Zenon
    <3>4. ASSUME NEW d \in channels
          PROVE  /\ tokenId[d] # NoToken
                 /\ tokenId[d] < lastTokenId'
                 /\ nextTokenId'[d] # NoToken =>
                       tokenId[d] < nextTokenId'[d] /\ nextTokenId'[d] < lastTokenId'
      <4>1. CASE d = ch
        BY <3>2, <3>3, <3>1, <4>1
      <4>2. CASE d # ch
        <5>1. nextTokenId'[d] = nextTokenId[d]
          BY <4>2
        <5>. QED
          BY <3>2, <3>3, <5>1
      <4>. QED
        BY <4>1, <4>2
    <3>5. ASSUME NEW d \in channels, NEW e \in channels \ {d}
          PROVE  /\ tokenId[e] # tokenId[d]
                 /\ nextTokenId'[e] # tokenId[d]
                 /\ nextTokenId'[e] # NoToken => nextTokenId'[e] # nextTokenId'[d]
      <4>1. /\ tokenId[e] # tokenId[d] /\ nextTokenId[e] # tokenId[d]
            /\ nextTokenId[e] # NoToken => nextTokenId[e] # nextTokenId[d]
        BY <3>2
      <4>2. /\ tokenId[d] # lastTokenId
            /\ nextTokenId[d] # lastTokenId /\ nextTokenId[e] # lastTokenId
        BY <3>3
      <4>3. /\ nextTokenId'[d] = IF d = ch THEN lastTokenId ELSE nextTokenId[d]
            /\ nextTokenId'[e] = IF e = ch THEN lastTokenId ELSE nextTokenId[e]
        OBVIOUS
      <4>. QED
        BY <4>1, <4>2, <4>3
    <3>. QED
      BY <2>2, <3>4, <3>5 DEF TokensDistinct
  <2>. QED
    BY <2>2, <2>4, <2>5
<1>5. IdsFresh'
  <2>1. \A d \in ChannelId \ channels' : nextTokenId'[d] = NoToken
    <3>1. channels' = channels /\ (nextTokenId' = nextTokenId
                                   \/ nextTokenId' = [nextTokenId EXCEPT ![ch] = lastTokenId])
      BY DEF Renew
    <3>2. nextTokenId \in [ChannelId -> Tokens] /\ \A d \in ChannelId \ channels : nextTokenId[d] = NoToken
      BY DEF TypeOK, LinkInv, IdsFresh
    <3>. QED
      BY <1>1, <3>1, <3>2
  <2>. QED
    BY <2>1 DEF LinkInv, IdsFresh, Renew, sessVars
<1>. QED
  BY <1>2, <1>3, <1>4, <1>5 DEF LinkInv

LEMMA CreateSessionLinks ==
    ASSUME TypeOK, LinkInv, NEW c \in Connections, NEW tok \in Tokens, NEW s, NEW requested, NEW built,
           CreateSession(c, tok, s, requested, built)
    PROVE  LinkInv'
<1>1. ChannelOfConnection' /\ TokensDistinct'
  BY ServiceLinks, Zenon DEF CreateSession
<1>2. lastSessionId \notin sessions
  BY FreshIds
<1>3. \/ sessions' = sessions \cup {lastSessionId} /\ sessionCount' = sessionCount + 1
      \/ sessions' = sessions /\ sessionCount' = sessionCount
  BY DEF CreateSession
<1>4. SessionsOfChannel'
  BY <1>3 DEF LinkInv, SessionsOfChannel, CreateSession
<1>5. CountsExact'
  <2>1. Cardinality(sessions \cup {lastSessionId}) = Cardinality(sessions) + 1 /\ Cardinality(sessions) \in Nat
    BY <1>2, FiniteLists, FS_AddElement, FS_CardinalityType
  <2>2. UNCHANGED <<channels, channelCount>> /\ sessionCount < MaxSessionCount
    BY Zenon DEF CreateSession
  <2>3. /\ channelCount = Cardinality(channels) /\ channelCount <= MaxChannelCount
        /\ sessionCount = Cardinality(sessions) /\ sessionCount <= MaxSessionCount
    BY DEF LinkInv, CountsExact
  <2>4. sessionCount' = Cardinality(sessions')
    BY <1>3, <2>1, <2>3
  <2>5. sessionCount' <= MaxSessionCount
    BY <1>3, <2>1, <2>2, <2>3, LimitsAssumption
  <2>. QED
    BY <2>2, <2>3, <2>4, <2>5 DEF CountsExact
<1>6. IdsFresh'
  <2>1. \A x \in sessions' : x < lastSessionId'
    <3>1. lastSessionId \in Int /\ \A x \in sessions : x \in Int /\ x < lastSessionId
      BY FreshIds
    <3>2. lastSessionId' = lastSessionId + 1
      BY DEF CreateSession
    <3>. QED
      BY <1>3, <3>1, <3>2
  <2>2. PICK V : RevolveTokens(V, {})
    BY DEF CreateSession, Authorized
  <2>3. \A d \in ChannelId \ channels' : nextTokenId'[d] = NoToken
    BY <2>2 DEF LinkInv, IdsFresh, CreateSession, RevolveTokens, TypeOK
  <2>. QED
    BY <2>1, <2>3 DEF LinkInv, IdsFresh, CreateSession
<1>. QED
  BY <1>1, <1>4, <1>5, <1>6 DEF LinkInv

\* The session leaves the list of its old channel and joins that of the channel in use.
LEMMA ActivateSessionLinks ==
    ASSUME TypeOK, LinkInv, NEW c \in Connections, NEW tok \in Tokens, NEW s \in SessionId,
           ActivateSession(c, tok, s)
    PROVE  LinkInv'
<1>1. ChannelOfConnection' /\ TokensDistinct' /\ IdsFresh'
  BY ServiceLinks DEF ActivateSession
<1>2. CountsExact'
  BY CountsKept DEF LinkInv, ActivateSession
<1>3. connChannel[c] \in channels /\ s \in sessions
  BY DEF ActivateSession, Authorized, ValidSession, LinkInv, ChannelOfConnection
<1>4. SessionsOfChannel'
  <2>1. SUFFICES ASSUME NEW x \in SessionId, NEW ch \in ChannelId
                 PROVE  /\ x \in chanSessions'[ch] <=> sessChannel'[x] = ch
                        /\ x \in chanSessions'[ch] => x \in sessions' /\ ch \in channels' /\ activated'[x]
    BY DEF SessionsOfChannel
  <2>2. /\ x \in chanSessions[ch] <=> sessChannel[x] = ch
        /\ x \in chanSessions[ch] => x \in sessions /\ ch \in channels /\ activated[x]
    BY DEF LinkInv, SessionsOfChannel
  <2>3. sessions' = sessions /\ channels' = channels
    BY DEF ActivateSession
  <2>4. CASE x = s
    <3>1. sessChannel'[s] = connChannel[c] /\ activated'[s]
      BY DEF ActivateSession, TypeOK
    <3>2. s \in chanSessions'[ch] <=> ch = connChannel[c]
      BY <2>2, <2>4 DEF ActivateSession
    <3>. QED
      BY <1>3, <2>3, <2>4, <3>1, <3>2
  <2>5. CASE x # s
    <3>1. sessChannel'[x] = sessChannel[x] /\ activated'[x] = activated[x]
      BY <2>5 DEF ActivateSession, TypeOK
    <3>2. x \in chanSessions'[ch] <=> x \in chanSessions[ch]
      BY <2>5 DEF ActivateSession
    <3>. QED
      BY <2>2, <2>3, <3>1, <3>2
  <2>. QED
    BY <2>4, <2>5
<1>. QED
  BY <1>1, <1>2, <1>4 DEF LinkInv

LEMMA CloseSessionLinks ==
    ASSUME TypeOK, LinkInv, NEW c \in Connections, NEW tok \in Tokens, NEW s \in SessionId,
           CloseSession(c, tok, s)
    PROVE  LinkInv'
<1>1. ChannelOfConnection' /\ TokensDistinct' /\ IdsFresh'
  BY ServiceLinks DEF CloseSession
<1>2. connChannel[c] \in channels /\ connChannel[c] \in ChannelId
  BY DEF CloseSession, Authorized, LinkInv, ChannelOfConnection, TypeOK
<1>3. s \in sessions /\ sessChannel[s] = connChannel[c]
  BY <1>2, Zenon DEF CloseSession, LinkInv, SessionsOfChannel
<1>4. CountsExact'
  <2>1. Cardinality(sessions \ {s}) = Cardinality(sessions) - 1 /\ Cardinality(sessions) \in Nat
    BY <1>3, FiniteLists, FS_RemoveElement, FS_CardinalityType
  <2>2. UNCHANGED <<channels, channelCount>> /\ sessions' = sessions \ {s} /\ sessionCount' = sessionCount - 1
    BY DEF CloseSession
  <2>. QED
    BY <2>1, <2>2, LimitsAssumption DEF LinkInv, CountsExact
<1>5. SessionsOfChannel'
  <2>1. SUFFICES ASSUME NEW x \in SessionId, NEW ch \in ChannelId
                 PROVE  /\ x \in chanSessions'[ch] <=> sessChannel'[x] = ch
                        /\ x \in chanSessions'[ch] => x \in sessions' /\ ch \in channels' /\ activated'[x]
    BY DEF SessionsOfChannel
  <2>2. /\ x \in chanSessions[ch] <=> sessChannel[x] = ch
        /\ x \in chanSessions[ch] => x \in sessions /\ ch \in channels /\ activated[x]
    BY DEF LinkInv, SessionsOfChannel
  <2>3. sessions' = sessions \ {s} /\ channels' = channels
    BY DEF CloseSession
  <2>4. CASE x = s
    <3>1. sessChannel'[s] = NoChannel /\ NoChannel \notin ChannelId
      BY NoChannelId DEF CloseSession, TypeOK
    <3>2. s \notin chanSessions'[ch]
      BY <1>2, <1>3, <2>2, <2>4 DEF CloseSession, TypeOK
    <3>. QED
      BY <2>4, <3>1, <3>2
  <2>5. CASE x # s
    <3>1. sessChannel'[x] = sessChannel[x] /\ activated'[x] = activated[x]
      BY <2>5 DEF CloseSession, TypeOK
    <3>2. x \in chanSessions'[ch] <=> x \in chanSessions[ch]
      BY <2>5 DEF CloseSession, TypeOK
    <3>. QED
      BY <2>2, <2>3, <2>5, <3>1, <3>2, ZenonT(30)
  <2>. QED
    BY <2>4, <2>5
<1>. QED
  BY <1>1, <1>4, <1>5 DEF LinkInv

LEMMA DisconnectLinks ==
    ASSUME TypeOK, LinkInv, NEW c \in Connections, Disconnect(c)
    PROVE  LinkInv'
<1>1. SessionsOfChannel' /\ CountsExact' /\ TokensDistinct' /\ IdsFresh'
  BY SessionsOfChannelKept, CountsKept DEF Disconnect, LinkInv, TokensDistinct, IdsFresh, tokenVars, sessVars
<1>2. ChannelOfConnection'
  <2>1. SUFFICES ASSUME NEW d \in Connections, connChannel'[d] # NoChannel
                 PROVE  /\ connState'[d] # "FREE"
                        /\ connChannel'[d] \in channels'
                        /\ chanConn'[connChannel'[d]] = d
    BY DEF ChannelOfConnection
  <2>2. d # c /\ connChannel'[d] = connChannel[d] /\ connState'[d] = connState[d] /\ channels' = channels
    BY <2>1 DEF Disconnect, DetachSecureChannel, TypeOK
  <2>3. /\ connState[d] # "FREE"
        /\ connChannel[d] \in channels
        /\ chanConn[connChannel[d]] = d
    BY <2>1, <2>2 DEF LinkInv, ChannelOfConnection
  <2>4. connChannel[d] # connChannel[c]
    BY <2>1, <2>2, <2>3 DEF LinkInv, ChannelOfConnection
  <2>5. chanConn'[connChannel[d]] = chanConn[connChannel[d]]
    BY <2>3, <2>4 DEF Disconnect, DetachSecureChannel, TypeOK
  <2>. QED
    BY <2>2, <2>3, <2>5
<1>. QED
  BY <1>1, <1>2 DEF LinkInv

LEMMA LinkStep ==
    ASSUME TypeOK, LinkInv, [Next]_vars
    PROVE  LinkInv'
<1>1. CASE Cleanup
  <2>1. TimedOutChannels \in SUBSET channels /\ TimedOutSessions \in SUBSET sessions
    BY DEF TimedOutChannels, TimedOutSessions
  <2>. QED
    BY <1>1, <2>1, RemoveLinks DEF Cleanup
<1>2. CASE Tick
  BY <1>2, ZenonT(30) DEF Tick, linkVars, tokenVars, sessVars, LinkInv, ChannelOfConnection,
              SessionsOfChannel, CountsExact, TokensDistinct, IdsFresh
<1>3. ASSUME NEW c \in Connections, ConnectionStep(c)
      PROVE  LinkInv'
  <2>1. CASE Accept(c) \/ ProcessHEL(c) \/ CloseOnly(c) \/ \E modeNone \in BOOLEAN : RefuseIssue(c, modeNone)
    <3>1. \A d \in Connections : connState[d] # "FREE" => connState'[d] # "FREE"
      BY <2>1, SendFreesNothing, Zenon DEF Accept, ProcessHEL, CloseOnly, Close, RefuseIssue, TypeOK
    <3>2. connChannel' = connChannel
      <4>1. CASE Accept(c)
        <5>1. connChannel[c] = NoChannel
          BY <4>1 DEF Accept, LinkInv, ChannelOfConnection
        <5>. QED
          BY <4>1, <5>1 DEF Accept, TypeOK
      <4>. QED
        BY <2>1, <4>1, Zenon DEF ProcessHEL, CloseOnly, RefuseIssue
    <3>3. UNCHANGED <<channels, chanConn, chanSessions, channelCount, lastChannelId, tokenVars,
                      sessVars, sessChannel>>
      BY <2>1 DEF Accept, ProcessHEL, CloseOnly, RefuseIssue
    <3>4. ChannelOfConnection'
      BY <3>1, <3>2, <3>3, ChannelOfConnectionKept DEF LinkInv
    <3>. QED
      BY <3>3, <3>4, SessionsOfChannelKept, CountsKept
         DEF LinkInv, TokensDistinct, IdsFresh, tokenVars, sessVars
  <2>2. CASE Disconnect(c)
    BY <2>2, DisconnectLinks
  <2>3. CASE \E requested \in RequestedLifetimes : Issue(c, requested) \/ Renew(c, requested)
    BY <2>3, IssueLinks, RenewLinks
  <2>4. ASSUME NEW tok \in Tokens, ServiceStep(c, tok)
        PROVE  LinkInv'
    <3>1. CASE WrongToken(c, tok)
      BY <3>1, CloseSecureChannelLinks DEF WrongToken
    <3>2. ASSUME NEW s, OtherService(c, tok, s)
          PROVE  LinkInv'
      <4>1. ChannelOfConnection' /\ TokensDistinct' /\ IdsFresh'
        BY <3>2, ServiceLinks DEF OtherService
      <4>2. SessionsOfChannel' /\ CountsExact'
        BY <3>2, SessionsOfChannelKept, CountsKept DEF OtherService, LinkInv
      <4>. QED
        BY <4>1, <4>2 DEF LinkInv
    <3>3. ASSUME NEW s, NEW requested, NEW built, CreateSession(c, tok, s, requested, built)
          PROVE  LinkInv'
      BY <3>3, CreateSessionLinks
    <3>4. ASSUME NEW s \in SessionId, ActivateSession(c, tok, s) \/ CloseSession(c, tok, s)
          PROVE  LinkInv'
      BY <3>4, ActivateSessionLinks, CloseSessionLinks
    <3>. QED
      BY <2>4, <3>1, <3>2, <3>3, <3>4 DEF ServiceStep
  <2>5. CASE ProcessCLO(c)
    BY <2>5, CloseSecureChannelLinks DEF ProcessCLO
  <2>. QED
    BY <1>3, <2>1, <2>2, <2>3, <2>4, <2>5 DEF ConnectionStep
<1>4. CASE UNCHANGED vars
  BY <1>4, ZenonT(30) DEF vars, LinkInv, ChannelOfConnection, SessionsOfChannel, CountsExact, TokensDistinct, IdsFresh
<1>. QED
  BY <1>1, <1>2, <1>3, <1>4 DEF Next

LEMMA LinkInit ==
    ASSUME Init
    PROVE  LinkInv
<1>1. Cardinality({}) = 0
  BY FS_EmptySet
<1>2. ChannelOfConnection /\ TokensDistinct /\ IdsFresh
  BY Zenon DEF Init, ChannelOfConnection, TokensDistinct, IdsFresh
<1>3. SessionsOfChannel
  BY NoChannelId DEF Init, SessionsOfChannel
<1>4. CountsExact
  BY <1>1, LimitsAssumption, SMTT(30) DEF Init, CountsExact
<1>. QED
  BY <1>2, <1>3, <1>4 DEF LinkInv

\* Whatever the clients send and whenever connections, channels and sessions end: no
\* connection points at a freed channel, no channel lists a freed session and no session
\* points at a freed channel, the counters behind the limits are exact, and no two channels
\* share a token.
THEOREM LinksSound == Spec => []LinkInv
<1>1. Init => TypeOK /\ LinkInv
  BY TypeInit, LinkInit
<1>2. TypeOK /\ LinkInv /\ [Next]_vars => (TypeOK /\ LinkInv)'
  BY TypeStep, LinkStep
<1>. QED
  BY <1>1, <1>2, PTL DEF Spec

-----------------------------------------------------------------------------
(* One channel per connection *)

LEMMA RemoveChannels ==
    ASSUME TypeOK, LinkInv, ChannelsOfConnection, NEW R \in SUBSET channels, NEW X, Remove(R, X)
    PROVE  ChannelsOfConnection'
<1>1. SUFFICES ASSUME NEW ch \in ChannelId, chanConn'[ch] # NoConnection
               PROVE  ch \in channels' /\ connChannel'[chanConn'[ch]] = ch
  BY DEF ChannelsOfConnection
<1>2. ch \notin R /\ chanConn'[ch] = chanConn[ch]
  BY <1>1, Zenon DEF Remove
<1>3. chanConn[ch] \in Connections /\ ch \in channels /\ connChannel[chanConn[ch]] = ch
  BY <1>1, <1>2 DEF ChannelsOfConnection, TypeOK
<1>4. chanConn[ch] \notin ClosedConnections(R)
  <2>1. SUFFICES ASSUME NEW d \in R, chanConn[d] = chanConn[ch]
                 PROVE  FALSE
    BY DEF ClosedConnections
  <2>2. d \in ChannelId /\ chanConn[d] # NoConnection
    BY <1>1, <1>2, <2>1 DEF TypeOK
  <2>3. connChannel[chanConn[d]] = d
    BY <2>2 DEF ChannelsOfConnection
  <2>. QED
    BY <1>2, <1>3, <2>1, <2>3
<1>. QED
  BY <1>2, <1>3, <1>4, Zenon DEF Remove

LEMMA ChannelsKept ==
    ASSUME ChannelsOfConnection, UNCHANGED <<connChannel, channels, chanConn>>
    PROVE  ChannelsOfConnection'
BY DEF ChannelsOfConnection

LEMMA ChannelsStep ==
    ASSUME OneIssue, TypeOK, LinkInv, ChannelsOfConnection, [Next]_vars
    PROVE  ChannelsOfConnection'
<1>1. CASE Cleanup
  BY <1>1, RemoveChannels DEF Cleanup, TimedOutChannels
<1>2. ASSUME NEW c \in Connections, ConnectionStep(c)
      PROVE  ChannelsOfConnection'
  <2>1. CASE Accept(c)
    <3>1. connChannel' = connChannel
      BY <2>1 DEF Accept, TypeOK, LinkInv, ChannelOfConnection
    <3>. QED
      BY <2>1, <3>1, ChannelsKept DEF Accept
  <2>2. CASE Disconnect(c)
    <3>1. SUFFICES ASSUME NEW ch \in ChannelId, chanConn'[ch] # NoConnection
                   PROVE  ch \in channels' /\ connChannel'[chanConn'[ch]] = ch
      BY DEF ChannelsOfConnection
    <3>2. ch # connChannel[c] /\ chanConn'[ch] = chanConn[ch] /\ channels' = channels
      BY <2>2, <3>1 DEF Disconnect, DetachSecureChannel
    <3>3. chanConn[ch] \in Connections /\ ch \in channels /\ connChannel[chanConn[ch]] = ch
      BY <3>1, <3>2 DEF ChannelsOfConnection, TypeOK
    <3>. QED
      BY <2>2, <3>2, <3>3 DEF Disconnect, DetachSecureChannel, TypeOK
  <2>3. ASSUME NEW requested, Issue(c, requested)
        PROVE  ChannelsOfConnection'
    <3>1. SUFFICES ASSUME NEW ch \in ChannelId, chanConn'[ch] # NoConnection
                   PROVE  ch \in channels' /\ connChannel'[chanConn'[ch]] = ch
      BY DEF ChannelsOfConnection
    <3>2. connChannel[c] = NoChannel /\ NoChannel \notin ChannelId
      BY <2>3, NoChannelId DEF Issue
    <3>3. CASE ch = lastChannelId
      BY <2>3, <3>3, Zenon DEF Issue, TypeOK
    <3>4. CASE ch # lastChannelId
      <4>1. chanConn'[ch] = chanConn[ch]
        BY <2>3, <3>4 DEF Issue, TypeOK
      <4>2. chanConn[ch] \in Connections /\ ch \in channels /\ connChannel[chanConn[ch]] = ch
        BY <3>1, <4>1, Zenon DEF ChannelsOfConnection, TypeOK
      <4>3. chanConn[ch] # c
        BY <3>2, <4>2
      <4>. QED
        BY <2>3, <4>1, <4>2, <4>3, ZenonT(30) DEF Issue, TypeOK
    <3>. QED
      BY <3>3, <3>4
  <2>4. ASSUME NEW ch, CloseSecureChannel(ch)
        PROVE  ChannelsOfConnection'
    BY <2>4, RemoveChannels DEF CloseSecureChannel
  <2>5. ASSUME NEW tok, ServiceStep(c, tok)
        PROVE  ChannelsOfConnection'
    BY <2>4, <2>5, ChannelsKept
       DEF ServiceStep, WrongToken, OtherService, CreateSession, ActivateSession, CloseSession
  <2>. QED
    BY <1>2, <2>1, <2>2, <2>3, <2>4, <2>5, ChannelsKept, Zenon
       DEF ConnectionStep, ProcessHEL, CloseOnly, RefuseIssue, Renew, ProcessCLO
<1>. QED
  BY <1>1, <1>2, ChannelsKept DEF Next, Tick, linkVars, vars

\* With clients that issue one channel per connection, a channel that holds a connection
\* is the one the connection holds, so no channel keeps a pointer to a freed connection.
THEOREM OneChannelPerConnection ==
    ASSUME OneIssue
    PROVE  Spec => []ChannelsOfConnection
<1>1. Init => TypeOK /\ LinkInv /\ ChannelsOfConnection
  <2>1. Init => ChannelsOfConnection
    <3>1. Init => \A ch \in ChannelId : chanConn[ch] = NoConnection
      BY DEF Init
    <3>. QED
      BY <3>1 DEF ChannelsOfConnection
  <2>. QED
    BY <2>1, TypeInit, LinkInit
<1>2. TypeOK /\ LinkInv /\ ChannelsOfConnection /\ [Next]_vars => (TypeOK /\ LinkInv /\ ChannelsOfConnection)'
  BY TypeStep, LinkStep, ChannelsStep
<1>. QED
  BY <1>1, <1>2, PTL DEF Spec

-----------------------------------------------------------------------------
(* What a step may never do to a session *)

\* The loss of a channel or of a connection, in whatever order it meets timeouts and
\* activations, never ends a session that has not timed out.
THEOREM SessionsSurvive == Spec => SessionsSurviveChannels
<1>1. ASSUME TypeOK, LinkInv, Next, NEW s \in sessions \ sessions'
      PROVE  validTill[s] < now \/ (sessChannel[s] # NoChannel /\ channels' = channels)
  <2>1. CASE Cleanup
    BY <1>1, <2>1, ZenonT(30) DEF Cleanup, Remove, TimedOutSessions
  <2>2. ASSUME NEW c \in Connections, NEW tok, NEW x \in SessionId, CloseSession(c, tok, x)
        PROVE  sessChannel[s] # NoChannel /\ channels' = channels
    <3>1. x = s /\ channels' = channels /\ connChannel[c] # NoChannel
      BY <1>1, <2>2, ZenonT(30) DEF CloseSession, Authorized
    <3>2. connChannel[c] \in ChannelId /\ s \in chanSessions[connChannel[c]]
      BY <1>1, <2>2, <3>1 DEF CloseSession, TypeOK
    <3>. QED
      BY <1>1, <3>1, <3>2 DEF LinkInv, SessionsOfChannel, TypeOK
  <2>3. ASSUME NEW c \in Connections, ConnectionStep(c),
               ~ \E tok \in Tokens, x \in SessionId : CloseSession(c, tok, x)
        PROVE  FALSE
    <3>1. ASSUME NEW ch, CloseSecureChannel(ch)
          PROVE  sessions' = sessions
      BY <3>1, ZenonT(30) DEF CloseSecureChannel, Remove
    <3>2. sessions \subseteq sessions'
      BY <2>3, <3>1 DEF ConnectionStep, ServiceStep, Accept, Disconnect, ProcessHEL, CloseOnly,
         RefuseIssue, Issue, Renew, WrongToken, OtherService, CreateSession, ActivateSession,
         ProcessCLO, sessVars
    <3>. QED
      BY <1>1, <3>2
  <2>4. CASE Tick
    BY <1>1, <2>4 DEF Tick, sessVars
  <2>. QED
    BY <1>1, <2>1, <2>2, <2>3, <2>4 DEF Next
<1>2. TypeOK /\ LinkInv /\ [Next]_vars =>
        [\A s \in sessions \ sessions' :
            \/ validTill[s] < now
            \/ sessChannel[s] # NoChannel /\ channels' = channels]_vars
  BY <1>1
<1>3. Spec => [](TypeOK /\ LinkInv)
  BY TypeCorrect, LinksSound, PTL
<1>. QED
  BY <1>2, <1>3, PTL DEF Spec, SessionsSurviveChannels

\* Only the channel a session is attached to can revive it after its timeout: activating it
\* elsewhere needs a session that is still valid.
THEOREM NoAttachAfterTimeout == Spec => NoLateAttach
<1>1. ASSUME TypeOK, LinkInv, Next, NEW s \in SessionId,
             sessChannel'[s] # sessChannel[s], sessChannel'[s] # NoChannel
      PROVE  validTill[s] >= now
  <2>1. ASSUME NEW c \in Connections, NEW tok, NEW x \in SessionId, ActivateSession(c, tok, x)
        PROVE  validTill[s] >= now
    <3>1. x = s /\ sessChannel'[s] = connChannel[c]
      BY <1>1, <2>1 DEF ActivateSession, TypeOK
    <3>2. connChannel[c] \in ChannelId
      BY <1>1, <2>1, <3>1 DEF TypeOK
    <3>3. s \notin chanSessions[connChannel[c]]
      BY <1>1, <3>1, <3>2, Zenon DEF LinkInv, SessionsOfChannel
    <3>. QED
      BY <2>1, <3>1, <3>3 DEF ActivateSession, ValidSession, UpdatedLifetime
  <2>2. ASSUME NEW R, NEW X, Remove(R, X)
        PROVE  FALSE
    BY <1>1, <2>2, ZenonT(30) DEF Remove
  <2>3. ASSUME NEW c \in Connections, NEW tok, NEW x, CloseSession(c, tok, x)
        PROVE  FALSE
    BY <1>1, <2>3 DEF CloseSession, TypeOK
  <2>4. CASE Cleanup
    BY <2>2, <2>4 DEF Cleanup
  <2>5. CASE Tick
    BY <1>1, <2>5 DEF Tick, linkVars
  <2>6. ASSUME NEW c \in Connections, ConnectionStep(c)
        PROVE  \E tok \in Tokens, x \in SessionId : ActivateSession(c, tok, x)
    BY <1>1, <2>2, <2>3, <2>6, Zenon DEF ConnectionStep, ServiceStep, Accept, Disconnect, ProcessHEL,
       CloseOnly, RefuseIssue, Issue, Renew, WrongToken, OtherService, CreateSession, ProcessCLO,
       CloseSecureChannel
  <2>. QED
    BY <1>1, <2>1, <2>4, <2>5, <2>6 DEF Next
<1>2. TypeOK /\ LinkInv /\ [Next]_vars =>
        [\A s \in SessionId :
            (sessChannel'[s] # sessChannel[s] /\ sessChannel'[s] # NoChannel) => validTill[s] >= now]_vars
  BY <1>1
<1>3. Spec => [](TypeOK /\ LinkInv)
  BY TypeCorrect, LinksSound, PTL
<1>. QED
  BY <1>2, <1>3, PTL DEF Spec, NoLateAttach
=============================================================================
