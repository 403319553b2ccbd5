---------------------------- MODULE ClientProofs ----------------------------
(***************************************************************************)
(* The client's proofs: a service that succeeds was carried out, and no    *)
(* failure leaves a socket behind or the client believing in a session the *)
(* server does not have.                                                   *)
(***************************************************************************)
EXTENDS Client, TLAPS

-----------------------------------------------------------------------------
(* What is left of a call *)

\* The calls, last step first.
ConnectCall ==
    <<"connected", "ActivateSession", "RENEW", "CreateSession", "RENEW", "GetEndpoints", "RENEW",
      "OPN", "HEL", "socket", "init", "disconnect">>
ReconnectCall ==
    <<"connected", "ActivateSession", "RENEW", "CreateSession", "RENEW", "GetEndpoints", "RENEW",
      "OPN", "HEL", "socket", "init", "CLO", "CloseSession", "RENEW">>
ResetCall == <<"init", "disconnect">>
CloseResetCall == <<"init", "CLO", "CloseSession", "RENEW">>
DisconnectCall == <<"disconnect">>
CloseCall == <<"CLO", "CloseSession", "RENEW">>
ReadCall == <<"Read", "RENEW">>
RenewCall == <<"RENEW">>

Calls == {ConnectCall, ReconnectCall, ResetCall, CloseResetCall, DisconnectCall, CloseCall,
          ReadCall, RenewCall}

\* s is the end of the call p,
EndOf(s, p) == Len(s) <= Len(p) /\ \A i \in 1 .. Len(s) : s[i] = p[Len(s) - i + 1]

\* and of one of the calls there are.
Rest(s) == s \in Seq(Steps) /\ \E p \in Calls : EndOf(s, p)

\* The last n steps of UA_Client_connect are left.
Left(s, n) == Len(s) = n /\ Contains(s, "connected")

Connects(p) ==
    /\ Len(p) \in Nat /\ Len(p) <= 14 /\ Len(p) \in {12, 14}
    /\ p[1] = "connected" /\ p[2] = "ActivateSession" /\ p[3] = "RENEW"
    /\ p[4] = "CreateSession" /\ p[5] = "RENEW" /\ p[6] = "GetEndpoints" /\ p[7] = "RENEW"
    /\ p[8] = "OPN" /\ p[9] = "HEL" /\ p[10] = "socket" /\ p[11] = "init"
    /\ Len(p) = 12 => p[12] = "disconnect"
    /\ Len(p) = 14 => p[12] = "CLO" /\ p[13] = "CloseSession" /\ p[14] = "RENEW"

LEMMA ConnectCalls ==
    ASSUME NEW p \in {ConnectCall, ReconnectCall}
    PROVE  Connects(p)
<1>1. CASE p = ConnectCall
  BY <1>1 DEF ConnectCall, Connects
<1>2. CASE p = ReconnectCall
  BY <1>2 DEF ReconnectCall, Connects
<1>. QED
  BY <1>1, <1>2

LEMMA OtherCalls ==
    /\ Len(ResetCall) = 2 /\ ResetCall[1] = "init" /\ ResetCall[2] = "disconnect"
    /\ Len(CloseResetCall) = 4 /\ CloseResetCall[1] = "init" /\ CloseResetCall[2] = "CLO"
    /\ CloseResetCall[3] = "CloseSession" /\ CloseResetCall[4] = "RENEW"
    /\ Len(DisconnectCall) = 1 /\ DisconnectCall[1] = "disconnect"
    /\ Len(CloseCall) = 3 /\ CloseCall[1] = "CLO" /\ CloseCall[2] = "CloseSession" /\ CloseCall[3] = "RENEW"
    /\ Len(ReadCall) = 2 /\ ReadCall[1] = "Read" /\ ReadCall[2] = "RENEW"
    /\ Len(RenewCall) = 1 /\ RenewCall[1] = "RENEW"
BY DEF ResetCall, CloseResetCall, DisconnectCall, CloseCall, ReadCall, RenewCall

\* The end of a call of which a step has been taken.
LEMMA EndOfTail ==
    ASSUME NEW s \in Seq(Steps), NEW p, Len(p) \in Nat, EndOf(s, p), s # <<>>
    PROVE  EndOf(Tail(s), p)
<1>1. /\ Len(s) \in Nat /\ Len(s) > 0 /\ Tail(s) \in Seq(Steps) /\ Len(Tail(s)) = Len(s) - 1
      /\ \A i \in 1 .. Len(Tail(s)) : i + 1 \in 1 .. Len(s) /\ Tail(s)[i] = s[i + 1]
  OBVIOUS
<1>. SUFFICES ASSUME NEW i \in 1 .. Len(Tail(s))
              PROVE  Tail(s)[i] = p[Len(Tail(s)) - i + 1]
  BY <1>1 DEF EndOf
<1>2. s[i + 1] = p[Len(s) - (i + 1) + 1]
  BY <1>1, Zenon DEF EndOf
<1>3. Len(s) - (i + 1) + 1 = Len(Tail(s)) - i + 1
  BY <1>1
<1>. QED
  BY <1>1, <1>2, <1>3

\* A connect ends with its last step, so it contains it; no other call does.
LEMMA ConnectsIff ==
    ASSUME NEW s \in Seq(Steps), NEW p \in Calls, EndOf(s, p), s # <<>>
    PROVE  Contains(s, "connected") <=> p \in {ConnectCall, ReconnectCall}
<1>0. Len(s) \in Nat /\ Len(s) >= 1 /\ Len(s) \in 1 .. Len(s) /\ Len(s) - Len(s) + 1 = 1
  OBVIOUS
<1>1. CASE p \in {ConnectCall, ReconnectCall}
  <2>1. s[Len(s)] = p[Len(s) - Len(s) + 1]
    BY <1>0, Zenon DEF EndOf
  <2>2. s[Len(s)] = "connected"
    BY <1>0, <1>1, <2>1, ConnectCalls, ZenonT(30) DEF Connects
  <2>. QED
    BY <1>0, <1>1, <2>2, Zenon DEF Contains
<1>2. CASE p \notin {ConnectCall, ReconnectCall}
  <2>1. ASSUME NEW k \in 1 .. Len(p)
        PROVE  p[k] # "connected"
    BY <1>2, OtherCalls DEF Calls
  <2>2. ASSUME NEW i \in 1 .. Len(s)
        PROVE  s[i] # "connected"
    <3>1. s[i] = p[Len(s) - i + 1]
      BY Zenon DEF EndOf
    <3>2. Len(p) \in Nat
      BY <1>2, OtherCalls DEF Calls
    <3>3. Len(s) - i + 1 \in 1 .. Len(p)
      BY <1>0, <3>2 DEF EndOf
    <3>. QED
      BY <2>1, <3>1, <3>3
  <2>. QED
    BY <1>2, <2>2, Zenon DEF Contains
<1>. QED
  BY <1>1, <1>2

LEMMA FirstStep ==
    ASSUME NEW s \in Seq(Steps), NEW p, Len(p) \in Nat, EndOf(s, p), s # <<>>
    PROVE  Len(s) \in Nat /\ 1 <= Len(s) /\ Len(s) <= Len(p) /\ s[1] = p[Len(s)]
<1>1. Len(s) \in Nat /\ Len(s) >= 1 /\ 1 \in 1 .. Len(s) /\ Len(s) - 1 + 1 = Len(s)
  OBVIOUS
<1>2. s[1] = p[Len(s) - 1 + 1]
  BY <1>1, Zenon DEF EndOf
<1>. QED
  BY <1>1, <1>2 DEF EndOf

\* The step a call is at tells how much of it is left.
LEMMA StepsLeft ==
    ASSUME NEW s, Rest(s), s # <<>>
    PROVE  /\ Len(s) \in 1 .. 14
           /\ s[1] = "socket" <=> Left(s, 10)
           /\ s[1] = "HEL" <=> Left(s, 9)
           /\ s[1] = "OPN" <=> Left(s, 8)
           /\ s[1] = "GetEndpoints" <=> Left(s, 6)
           /\ s[1] = "CreateSession" <=> Left(s, 4)
           /\ s[1] = "ActivateSession" <=> Left(s, 2)
           /\ s[1] = "connected" <=> Left(s, 1)
           /\ Left(s, 7) \/ Left(s, 5) \/ Left(s, 3) => s[1] = "RENEW"
           /\ Left(s, 11) => s[1] = "init"
           /\ s[1] = "init" /\ Contains(s, "connected") => Left(s, 11)
           /\ s[1] \in {"disconnect", "CLO", "CloseSession", "Read"} => \A n \in 1 .. 11 : ~Left(s, n)
<1>. PICK p \in Calls : s \in Seq(Steps) /\ EndOf(s, p)
  BY Zenon DEF Rest
<1>1. CASE p \in {ConnectCall, ReconnectCall}
  <2>0. Connects(p)
    BY <1>1, ConnectCalls
  <2>. DEFINE k == Len(p)
              n == Len(s)
              x == s[1]
  <2>1. Contains(s, "connected")
    BY <1>1, ConnectsIff
  <2>2. k \in Nat /\ k <= 14 /\ k \in {12, 14}
    BY <2>0 DEF Connects
  <2>3. n \in Nat /\ 1 <= n /\ n <= k /\ x = p[n]
    BY <2>2, FirstStep
  <2>4. /\ p[1] = "connected" /\ p[2] = "ActivateSession" /\ p[3] = "RENEW"
        /\ p[4] = "CreateSession" /\ p[5] = "RENEW" /\ p[6] = "GetEndpoints" /\ p[7] = "RENEW"
        /\ p[8] = "OPN" /\ p[9] = "HEL" /\ p[10] = "socket" /\ p[11] = "init"
        /\ k = 12 => p[12] = "disconnect"
        /\ k = 14 => p[12] = "CLO" /\ p[13] = "CloseSession" /\ p[14] = "RENEW"
    BY <2>0 DEF Connects
  <2>5. \A m \in 1 .. 14 : Left(s, m) <=> n = m
    BY <2>1, Zenon DEF Left
  <2>. HIDE DEF k, n, x
  <2>6. n \in 1 .. 14
    BY <2>2, <2>3
  <2>7. /\ n = 1 => x = "connected"
        /\ n = 2 => x = "ActivateSession"
        /\ n \in {3, 5, 7, 14} => x = "RENEW"
        /\ n = 4 => x = "CreateSession"
        /\ n = 6 => x = "GetEndpoints"
        /\ n = 8 => x = "OPN"
        /\ n = 9 => x = "HEL"
        /\ n = 10 => x = "socket"
        /\ n = 11 => x = "init"
        /\ n = 12 => x \in {"disconnect", "CLO"}
        /\ n = 13 => x = "CloseSession"
    BY <2>2, <2>3, <2>4
  <2>8. /\ x = "socket" <=> n = 10
        /\ x = "HEL" <=> n = 9
        /\ x = "OPN" <=> n = 8
        /\ x = "GetEndpoints" <=> n = 6
        /\ x = "CreateSession" <=> n = 4
        /\ x = "ActivateSession" <=> n = 2
        /\ x = "connected" <=> n = 1
        /\ n = 7 \/ n = 5 \/ n = 3 => x = "RENEW"
        /\ x = "init" <=> n = 11
        /\ x \in {"disconnect", "CLO", "CloseSession", "Read"} => n \notin 1 .. 11
    BY <2>6, <2>7
  <2>. QED
    BY <2>5, <2>6, <2>8 DEF n, x
<1>2. CASE p \notin {ConnectCall, ReconnectCall}
  <2>. DEFINE k == Len(p)
              n == Len(s)
  <2>0. p \in {ResetCall, CloseResetCall, DisconnectCall, CloseCall, ReadCall, RenewCall}
    BY <1>2, Zenon DEF Calls
  <2>1. ~Contains(s, "connected")
    BY <1>2, ConnectsIff
  <2>2. k \in {1, 2, 3, 4}
    BY <2>0, OtherCalls
  <2>3. k \in Nat
    <3>. HIDE DEF k
    <3>. QED
      BY <2>2
  <2>4. n \in Nat /\ 1 <= n /\ n <= k /\ s[1] = p[n]
    BY <2>3, FirstStep
  <2>5. n \in 1 .. 4
    <3>. HIDE DEF k, n
    <3>. QED
      BY <2>2, <2>4
  <2>6. s[1] \in {"init", "disconnect", "CLO", "CloseSession", "RENEW", "Read"}
    BY <2>0, <2>4, OtherCalls
  <2>7. \A m \in 1 .. 14 : ~Left(s, m)
    BY <2>1, Zenon DEF Left
  <2>8. n \in 1 .. 14
    <3>. HIDE DEF n
    <3>. QED
      BY <2>5
  <2>. QED
    BY <2>1, <2>6, <2>7, <2>8
<1>. QED
  BY <1>1, <1>2

\* A service is called after the renewal of the channel.
LEMMA RenewalFirst ==
    ASSUME NEW p \in Calls, NEW n \in Nat, 1 <= n, n + 1 <= Len(p), p[n] \in ServiceTypes
    PROVE  p[n + 1] = "RENEW"
<1>1. CASE p = ConnectCall
  BY <1>1 DEF ConnectCall, ServiceTypes
<1>2. CASE p = ReconnectCall
  BY <1>2 DEF ReconnectCall, ServiceTypes
<1>3. CASE p = ResetCall \/ p = CloseResetCall
  BY <1>3 DEF ResetCall, CloseResetCall, ServiceTypes
<1>4. CASE p = DisconnectCall \/ p = CloseCall
  BY <1>4 DEF DisconnectCall, CloseCall, ServiceTypes
<1>5. CASE p = ReadCall \/ p = RenewCall
  BY <1>5 DEF ReadCall, RenewCall, ServiceTypes
<1>. QED
  BY <1>1, <1>2, <1>3, <1>4, <1>5, Zenon DEF Calls

LEMMA CallsHaveLength ==
    ASSUME NEW p \in Calls
    PROVE  Len(p) \in Nat
BY DEF Calls, ConnectCall, ReconnectCall, ResetCall, CloseResetCall, DisconnectCall, CloseCall,
       ReadCall, RenewCall

\* A step of the call has been taken.
LEMMA RestTail ==
    ASSUME NEW s, Rest(s), s # <<>>
    PROVE  /\ Rest(Tail(s))
           /\ \A n \in 1 .. 13 : Left(Tail(s), n) <=> Left(s, n + 1)
           /\ \A x : Contains(Tail(s), x) => Contains(s, x)
           /\ Tail(s) # <<>> /\ Tail(s)[1] \in ServiceTypes => s[1] = "RENEW"
<1>. DEFINE t == Tail(s)
<1>0. PICK p \in Calls : s \in Seq(Steps) /\ EndOf(s, p)
  BY Zenon DEF Rest
<1>1. /\ Len(s) \in Nat /\ Len(s) > 0 /\ t \in Seq(Steps) /\ Len(t) = Len(s) - 1
      /\ \A i \in 1 .. Len(t) : i + 1 \in 1 .. Len(s) /\ t[i] = s[i + 1]
  BY <1>0
<1>2. EndOf(t, p)
  BY <1>0, CallsHaveLength, EndOfTail
<1>. HIDE DEF t
<1>3. Rest(t)
  BY <1>1, <1>2, Zenon DEF Rest
<1>4. ASSUME NEW x, Contains(t, x)
      PROVE  Contains(s, x)
  <2>1. PICK i \in 1 .. Len(t) : t[i] = x
    BY <1>4, Zenon DEF Contains
  <2>. QED
    BY <1>1, <2>1, Zenon DEF Contains
<1>5. ASSUME NEW n \in 1 .. 13
      PROVE  Left(t, n) <=> Left(s, n + 1)
  <2>1. Len(t) = n <=> Len(s) = n + 1
    BY <1>1
  <2>2. CASE Len(t) = n
    <3>1. t # <<>>
      BY <2>2
    <3>2. Contains(t, "connected") <=> Contains(s, "connected")
      BY <1>0, <1>1, <1>2, <3>1, ConnectsIff, Zenon
    <3>. QED
      BY <2>1, <2>2, <3>2, Zenon DEF Left
  <2>. QED
    BY <2>1, <2>2, Zenon DEF Left
<1>6. ASSUME t # <<>>, t[1] \in ServiceTypes
      PROVE  s[1] = "RENEW"
  <2>0. Len(p) \in Nat
    BY CallsHaveLength
  <2>1. Len(t) \in Nat /\ 1 <= Len(t) /\ t[1] = p[Len(t)]
    BY <1>1, <1>2, <1>6, <2>0, FirstStep
  <2>2. Len(s) <= Len(p) /\ s[1] = p[Len(s)]
    BY <1>0, <2>0, FirstStep
  <2>3. Len(t) + 1 = Len(s)
    BY <1>1
  <2>4. p[Len(t) + 1] = "RENEW"
    BY <1>6, <2>1, <2>2, <2>3, RenewalFirst
  <2>. QED
    BY <2>2, <2>3, <2>4
<1>. QED
  BY <1>3, <1>4, <1>5, <1>6, Zenon DEF t

\* The only reset of a call comes before it connects.
LEMMA InitAt ==
    ASSUME NEW p \in Calls, NEW n \in Nat, 1 <= n, n <= Len(p), p[n] = "init"
    PROVE  /\ n = IF p \in {ConnectCall, ReconnectCall} THEN 11 ELSE 1
           /\ \A m \in Nat : 1 <= m /\ m <= n => p[m] # "CloseSession"
<1>1. CASE p = ConnectCall
  BY <1>1 DEF ConnectCall
<1>2. CASE p = ReconnectCall
  BY <1>2 DEF ReconnectCall
<1>3. CASE p = ResetCall \/ p = CloseResetCall
  <2>1. p \notin {ConnectCall, ReconnectCall}
    BY <1>3, OtherCalls, ConnectCalls, ZenonT(30) DEF Connects
  <2>2. n = 1
    BY <1>3 DEF ResetCall, CloseResetCall
  <2>3. p[1] # "CloseSession"
    BY <1>3, OtherCalls
  <2>. QED
    BY <2>1, <2>2, <2>3
<1>4. CASE p = DisconnectCall \/ p = CloseCall
  BY <1>4 DEF DisconnectCall, CloseCall
<1>5. CASE p = ReadCall \/ p = RenewCall
  BY <1>5 DEF ReadCall, RenewCall
<1>. QED
  BY <1>1, <1>2, <1>3, <1>4, <1>5, Zenon DEF Calls

\* What is left of a call after a step has failed: nothing of the connect that failed.
LEMMA RestAfterFailure ==
    ASSUME Rest(todo)
    PROVE  /\ Rest(StepsAfterFailure)
           /\ \A n \in 1 .. 10 : ~Left(StepsAfterFailure, n)
           /\ ~Contains(StepsAfterFailure, "CloseSession")
           /\ StepsAfterFailure # <<>> => StepsAfterFailure[1] \in {"init", "disconnect"}
<1>1. CASE Contains(todo, "init")
  <2>0. PICK p \in Calls : todo \in Seq(Steps) /\ EndOf(todo, p)
    BY Zenon DEF Rest
  <2>. DEFINE First(i) == todo[i] = "init" /\ \A k \in 1 .. (i - 1) : todo[k] # "init"
              i == CHOOSE i \in DOMAIN todo : First(i)
              r == SubSeq(todo, i, Len(todo))
  <2>1. Len(p) \in Nat /\ Len(todo) \in Nat /\ DOMAIN todo = 1 .. Len(todo) /\ Len(todo) <= Len(p)
    BY <2>0, CallsHaveLength DEF EndOf
  <2>2. ASSUME NEW j \in 1 .. Len(todo)
        PROVE  /\ Len(todo) - j + 1 \in Nat /\ 1 <= Len(todo) - j + 1 /\ Len(todo) - j + 1 <= Len(p)
               /\ todo[j] = p[Len(todo) - j + 1]
    BY <2>0, <2>1 DEF EndOf
  <2>3. ASSUME NEW j \in 1 .. Len(todo), NEW k \in 1 .. Len(todo), todo[j] = "init", todo[k] = "init"
        PROVE  j = k
    <3>. DEFINE a == Len(todo) - j + 1
                b == Len(todo) - k + 1
    <3>0. /\ a \in Nat /\ 1 <= a /\ a <= Len(p) /\ p[a] = "init"
          /\ b \in Nat /\ 1 <= b /\ b <= Len(p) /\ p[b] = "init"
      BY <2>2, <2>3
    <3>1. a = b
      <4>. HIDE DEF a, b
      <4>1. a = IF p \in {ConnectCall, ReconnectCall} THEN 11 ELSE 1
        BY <3>0, InitAt, Zenon
      <4>2. b = IF p \in {ConnectCall, ReconnectCall} THEN 11 ELSE 1
        BY <3>0, InitAt, Zenon
      <4>. QED
        BY <4>1, <4>2, Zenon
    <3>. QED
      BY <2>1, <3>1
  <2>4. \E j \in DOMAIN todo : First(j)
    <3>1. PICK j \in 1 .. Len(todo) : todo[j] = "init"
      BY <1>1, Zenon DEF Contains
    <3>2. \A k \in 1 .. (j - 1) : k \in 1 .. Len(todo) /\ k # j
      BY <2>1
    <3>3. First(j)
      BY <2>3, <3>1, <3>2, Zenon
    <3>. QED
      BY <2>1, <3>1, <3>3, Zenon
  <2>5. i \in DOMAIN todo /\ First(i)
    BY <2>4, Zenon
  <2>6. i \in 1 .. Len(todo) /\ todo[i] = "init"
    BY <2>1, <2>5
  <2>7. StepsAfterFailure = r
    BY <1>1, Zenon DEF StepsAfterFailure
  <2>. HIDE DEF i
  <2>8. /\ r \in Seq(Steps) /\ Len(r) = Len(todo) - i + 1 /\ Len(r) >= 1
        /\ \A j \in 1 .. Len(r) : /\ i + j - 1 \in 1 .. Len(todo) /\ r[j] = todo[i + j - 1]
                                  /\ Len(todo) - (i + j - 1) + 1 = Len(r) - j + 1
    BY <2>0, <2>1, <2>6
  <2>. HIDE DEF r
  <2>9. \A j \in 1 .. Len(r) : r[j] = p[Len(r) - j + 1]
    BY <2>2, <2>8, Zenon
  <2>10. EndOf(r, p)
    BY <2>1, <2>6, <2>8, <2>9 DEF EndOf
  <2>11. Rest(r)
    BY <2>8, <2>10, Zenon DEF Rest
  <2>12. r # <<>> /\ r[1] = "init"
    BY <2>1, <2>6, <2>8
  <2>13. \A n \in 1 .. 10 : ~Left(r, n)
    <3>. SUFFICES ASSUME NEW n \in 1 .. 10, Left(r, n) PROVE FALSE
      OBVIOUS
    <3>1. Left(r, 11)
      BY <2>11, <2>12, StepsLeft, Zenon DEF Left
    <3>. QED
      BY <3>1 DEF Left
  <2>14. ~Contains(r, "CloseSession")
    <3>. SUFFICES ASSUME NEW j \in 1 .. Len(r) PROVE r[j] # "CloseSession"
      BY Zenon DEF Contains
    <3>. DEFINE n == Len(r)
                m == n - j + 1
    <3>1. n \in Nat /\ 1 <= n /\ n <= Len(p) /\ p[n] = "init"
      BY <2>1, <2>8, <2>10, <2>12, FirstStep, Zenon
    <3>2. m \in Nat /\ 1 <= m /\ m <= n
      BY <3>1
    <3>3. p[m] # "CloseSession"
      <4>. HIDE DEF n, m
      <4>. QED
        BY <3>1, <3>2, InitAt
    <3>. QED
      BY <2>9, <3>3
  <2>. QED
    BY <2>7, <2>11, <2>12, <2>13, <2>14
<1>2. CASE ~Contains(todo, "init") /\ Contains(todo, "connected")
  <2>1. StepsAfterFailure = ResetSteps
    BY <1>2, Zenon DEF StepsAfterFailure
  <2>2. /\ ResetSteps \in Seq(Steps) /\ Len(ResetSteps) = 2
        /\ ResetSteps[1] = "disconnect" /\ ResetSteps[2] = "init"
    BY DEF ResetSteps, Steps
  <2>3. EndOf(ResetSteps, ResetCall)
    BY <2>2, OtherCalls DEF EndOf
  <2>4. Rest(ResetSteps)
    BY <2>2, <2>3, Zenon DEF Rest, Calls
  <2>5. ~Contains(ResetSteps, "connected") /\ ~Contains(ResetSteps, "CloseSession")
    BY <2>2 DEF Contains
  <2>. QED
    BY <2>1, <2>2, <2>4, <2>5 DEF Left
<1>3. CASE ~Contains(todo, "init") /\ ~Contains(todo, "connected")
  <2>1. StepsAfterFailure = <<>>
    BY <1>3, Zenon DEF StepsAfterFailure
  <2>2. <<>> \in Seq(Steps) /\ Len(<<>>) = 0 /\ EndOf(<<>>, RenewCall)
    BY OtherCalls DEF EndOf
  <2>3. Rest(<<>>) /\ \A x : ~Contains(<<>>, x)
    BY <2>2 DEF Rest, Calls, Contains
  <2>. QED
    BY <2>1, <2>3, Zenon DEF Left
<1>. QED
  BY <1>1, <1>2, <1>3

\* The steps of UA_Client_connect,
LEMMA ConnectStepsAre ==
    ConnectSteps = <<"socket", "HEL", "OPN", "RENEW", "GetEndpoints", "RENEW", "CreateSession",
                     "RENEW", "ActivateSession", "connected">>
<1>1. ConnectSteps \in Seq(Steps)
  BY DEF ConnectSteps, Service, Steps, ServiceTypes
<1>2. /\ Len(ConnectSteps) = 10 /\ ConnectSteps[1] = "socket" /\ ConnectSteps[2] = "HEL"
      /\ ConnectSteps[3] = "OPN" /\ ConnectSteps[4] = "RENEW"
      /\ ConnectSteps[5] = "GetEndpoints" /\ ConnectSteps[6] = "RENEW"
      /\ ConnectSteps[7] = "CreateSession" /\ ConnectSteps[8] = "RENEW"
      /\ ConnectSteps[9] = "ActivateSession" /\ ConnectSteps[10] = "connected"
  BY DEF ConnectSteps, Service
<1>. QED
  BY <1>1, <1>2

\* and after a reset.
LEMMA ReconnectStepsAre ==
    ResetSteps \o ConnectSteps = <<"disconnect", "init", "socket", "HEL", "OPN", "RENEW",
                                    "GetEndpoints", "RENEW", "CreateSession", "RENEW",
                                    "ActivateSession", "connected">>
<1>. DEFINE s == ResetSteps \o ConnectSteps
<1>1. s \in Seq(Steps)
  BY DEF ConnectSteps, ResetSteps, Service, Steps, ServiceTypes
<1>2. /\ Len(s) = 12 /\ s[1] = "disconnect" /\ s[2] = "init" /\ s[3] = "socket" /\ s[4] = "HEL"
      /\ s[5] = "OPN" /\ s[6] = "RENEW" /\ s[7] = "GetEndpoints" /\ s[8] = "RENEW"
      /\ s[9] = "CreateSession" /\ s[10] = "RENEW" /\ s[11] = "ActivateSession"
      /\ s[12] = "connected"
  BY DEF ConnectSteps, ResetSteps, Service
<1>. HIDE DEF s
<1>3. s = <<"disconnect", "init", "socket", "HEL", "OPN", "RENEW", "GetEndpoints", "RENEW",
            "CreateSession", "RENEW", "ActivateSession", "connected">>
  BY <1>1, <1>2
<1>. QED
  BY <1>3 DEF s

\* Nothing has been taken yet of the steps of a call.
LEMMA RestBegin ==
    ASSUME NEW s \in {<<>>, ConnectSteps, ResetSteps \o ConnectSteps, Service("Read"), <<"RENEW">>,
                      <<"disconnect">>, ResetSteps}
    PROVE  /\ Rest(s)
           /\ \A n \in 1 .. 9 : ~Left(s, n)
           /\ Left(s, 10) => s = ConnectSteps
           /\ ~Contains(s, "CloseSession")
           /\ s # <<>> => s[1] \notin ServiceTypes
<1>1. CASE s = ConnectSteps
  <2>1. s = <<"socket", "HEL", "OPN", "RENEW", "GetEndpoints", "RENEW", "CreateSession", "RENEW",
              "ActivateSession", "connected">>
    BY <1>1, ConnectStepsAre
  <2>2. /\ s \in Seq(Steps) /\ Len(s) = 10 /\ Len(ConnectCall) = 12
        /\ s[1] \notin ServiceTypes
    BY <2>1 DEF Steps, ServiceTypes, ConnectCall
  <2>3. ASSUME NEW i \in 1 .. 10
        PROVE  s[i] = ConnectCall[10 - i + 1] /\ s[i] # "CloseSession"
    <3>1. i \in {1, 2, 3, 4, 5, 6, 7, 8, 9, 10}
      OBVIOUS
    <3>. QED
      BY <2>1, <3>1 DEF ConnectCall
  <2>4. EndOf(s, ConnectCall)
    BY <2>2, <2>3 DEF EndOf
  <2>5. Rest(s)
    BY <2>2, <2>4, Zenon DEF Rest, Calls
  <2>6. ~Contains(s, "CloseSession")
    BY <2>2, <2>3 DEF Contains
  <2>7. \A n \in 1 .. 9 : ~Left(s, n)
    BY <2>2 DEF Left
  <2>. QED
    BY <1>1, <2>2, <2>5, <2>6, <2>7
<1>2. CASE s = ResetSteps \o ConnectSteps
  <2>1. s = <<"disconnect", "init", "socket", "HEL", "OPN", "RENEW", "GetEndpoints", "RENEW",
              "CreateSession", "RENEW", "ActivateSession", "connected">>
    BY <1>2, ReconnectStepsAre
  <2>2. /\ s \in Seq(Steps) /\ Len(s) = 12 /\ Len(ConnectCall) = 12
        /\ s[1] \notin ServiceTypes
    BY <2>1 DEF Steps, ServiceTypes, ConnectCall
  <2>3. ASSUME NEW i \in 1 .. 12
        PROVE  s[i] = ConnectCall[12 - i + 1] /\ s[i] # "CloseSession"
    <3>1. i \in {1, 2, 3, 4, 5, 6, 7, 8, 9, 10, 11, 12}
      OBVIOUS
    <3>. QED
      BY <2>1, <3>1 DEF ConnectCall
  <2>4. EndOf(s, ConnectCall)
    BY <2>2, <2>3 DEF EndOf
  <2>5. Rest(s)
    BY <2>2, <2>4, Zenon DEF Rest, Calls
  <2>6. ~Contains(s, "CloseSession")
    BY <2>2, <2>3 DEF Contains
  <2>7. \A n \in 1 .. 10 : ~Left(s, n)
    BY <2>2 DEF Left
  <2>. QED
    BY <2>2, <2>5, <2>6, <2>7
<1>3. CASE s \in {<<>>, Service("Read"), <<"RENEW">>, <<"disconnect">>, ResetSteps}
  <2>1. /\ s \in Seq(Steps)
        /\ \A i \in 1 .. Len(s) : s[i] \in {"RENEW", "Read", "disconnect", "init"}
        /\ s # <<>> => s[1] \in {"RENEW", "disconnect"}
        /\ \E p \in {ReadCall, RenewCall, DisconnectCall, ResetCall} : EndOf(s, p)
    <3>1. CASE s = <<>>
      BY <3>1 DEF EndOf, ReadCall
    <3>2. CASE s = Service("Read")
      BY <3>2 DEF Service, Steps, ServiceTypes, EndOf, ReadCall
    <3>3. CASE s = <<"RENEW">>
      BY <3>3 DEF Steps, EndOf, RenewCall
    <3>4. CASE s = <<"disconnect">>
      BY <3>4 DEF Steps, EndOf, DisconnectCall
    <3>5. CASE s = ResetSteps
      BY <3>5 DEF ResetSteps, Steps, EndOf, ResetCall
    <3>. QED
      BY <1>3, <3>1, <3>2, <3>3, <3>4, <3>5
  <2>2. Rest(s)
    BY <2>1, Zenon DEF Rest, Calls
  <2>3. ~Contains(s, "CloseSession") /\ ~Contains(s, "connected")
    BY <2>1 DEF Contains
  <2>4. s # <<>> => s[1] \notin ServiceTypes
    BY <2>1 DEF ServiceTypes
  <2>5. \A n \in 1 .. 10 : ~Left(s, n)
    BY <2>3, Zenon DEF Left
  <2>. QED
    BY <2>2, <2>3, <2>4, <2>5
<1>. QED
  BY <1>1, <1>2, <1>3

\* The calls that begin with UA_Client_disconnect.
LEMMA DisconnectsAre ==
    ASSUME Rest(todo), todo # <<>>, todo[1] = "disconnect"
    PROVE  todo \in {<<"disconnect", "init", "socket", "HEL", "OPN", "RENEW", "GetEndpoints", "RENEW",
                       "CreateSession", "RENEW", "ActivateSession", "connected">>,
                     <<"disconnect", "init">>, <<"disconnect">>}
<1>0. PICK p \in Calls : todo \in Seq(Steps) /\ EndOf(todo, p)
  BY Zenon DEF Rest
<1>. DEFINE n == Len(todo)
<1>1. n \in Nat /\ 1 <= n /\ n <= Len(p) /\ p[n] = "disconnect"
  BY <1>0, FirstStep, CallsHaveLength
<1>1a. \A i \in 1 .. n : todo[i] = p[n - i + 1]
  BY <1>0 DEF EndOf
<1>. HIDE DEF n
<1>2. CASE p = ConnectCall
  <2>1. n = 12
    BY <1>1, <1>2 DEF ConnectCall
  <2>. QED
    BY <1>0, <1>1a, <1>2, <2>1 DEF n, ConnectCall
<1>3. CASE p = ReconnectCall
  BY <1>1, <1>3 DEF ReconnectCall
<1>4. CASE p = ResetCall
  <2>1. n = 2
    BY <1>1, <1>4 DEF ResetCall
  <2>. QED
    BY <1>0, <1>1a, <1>4, <2>1 DEF n, ResetCall
<1>5. CASE p = DisconnectCall
  <2>1. n = 1
    BY <1>1, <1>5 DEF DisconnectCall
  <2>. QED
    BY <1>0, <1>1a, <1>5, <2>1 DEF n, DisconnectCall
<1>6. CASE p = CloseResetCall \/ p = CloseCall \/ p = ReadCall \/ p = RenewCall
  BY <1>1, <1>6 DEF CloseResetCall, CloseCall, ReadCall, RenewCall
<1>. QED
  BY <1>2, <1>3, <1>4, <1>5, <1>6, Zenon DEF Calls

\* UA_Client_disconnect: the session and the channel are closed first.
LEMMA RestDisconnect ==
    ASSUME Rest(todo), todo # <<>>, todo[1] = "disconnect"
    PROVE  LET s == DisconnectSteps \o Tail(todo)
           IN  /\ Rest(s)
               /\ \A n \in 1 .. 10 : ~Left(s, n)
               /\ client.connection # "ESTABLISHED" => ~Contains(s, "CloseSession")
               /\ s # <<>> => s[1] \notin ServiceTypes
<1>. DEFINE s == DisconnectSteps \o Tail(todo)
            whole == <<"disconnect", "init", "socket", "HEL", "OPN", "RENEW", "GetEndpoints", "RENEW",
                       "CreateSession", "RENEW", "ActivateSession", "connected">>
<1>1. CASE client.connection = "ESTABLISHED" /\ todo = whole
  <2>1. s \in Seq(Steps)
    BY <1>1 DEF DisconnectSteps, Service, Steps, ServiceTypes
  <2>2. /\ Len(s) = 14 /\ s[1] = "RENEW" /\ s[2] = "CloseSession" /\ s[3] = "CLO" /\ s[4] = "init"
        /\ s[5] = "socket" /\ s[6] = "HEL" /\ s[7] = "OPN" /\ s[8] = "RENEW" /\ s[9] = "GetEndpoints"
        /\ s[10] = "RENEW" /\ s[11] = "CreateSession" /\ s[12] = "RENEW"
        /\ s[13] = "ActivateSession" /\ s[14] = "connected"
    BY <1>1 DEF DisconnectSteps, Service
  <2>. HIDE DEF s
  <2>3. Len(ReconnectCall) = 14
    BY DEF ReconnectCall
  <2>4. ASSUME NEW i \in 1 .. 14
        PROVE  s[i] = ReconnectCall[14 - i + 1]
    <3>1. i \in {1, 2, 3, 4, 5, 6, 7, 8, 9, 10, 11, 12, 13, 14}
      OBVIOUS
    <3>. QED
      BY <2>2, <3>1 DEF ReconnectCall
  <2>5. EndOf(s, ReconnectCall)
    BY <2>2, <2>3, <2>4 DEF EndOf
  <2>6. Rest(s)
    BY <2>1, <2>5, Zenon DEF Rest, Calls
  <2>7. s[1] \notin ServiceTypes /\ \A n \in 1 .. 10 : ~Left(s, n)
    BY <2>2 DEF Left, ServiceTypes
  <2>. QED
    BY <1>1, <2>6, <2>7 DEF s
<1>2. CASE client.connection = "ESTABLISHED" /\ todo \in {<<"disconnect", "init">>, <<"disconnect">>}
  <2>1. /\ s \in Seq(Steps) /\ s # <<>> /\ s[1] = "RENEW"
        /\ \A i \in 1 .. Len(s) : s[i] # "connected"
        /\ EndOf(s, CloseResetCall) \/ EndOf(s, CloseCall)
    <3>1. CASE todo = <<"disconnect", "init">>
      <4>1. s \in Seq(Steps)
        BY <1>2, <3>1 DEF DisconnectSteps, Service, Steps, ServiceTypes
      <4>2. /\ Len(s) = 4 /\ s[1] = "RENEW" /\ s[2] = "CloseSession" /\ s[3] = "CLO" /\ s[4] = "init"
        BY <1>2, <3>1 DEF DisconnectSteps, Service
      <4>. HIDE DEF s
      <4>3. s = <<"RENEW", "CloseSession", "CLO", "init">>
        BY <4>1, <4>2
      <4>. QED
        BY <4>1, <4>3 DEF EndOf, CloseResetCall
    <3>2. CASE todo = <<"disconnect">>
      <4>1. s \in Seq(Steps)
        BY <1>2, <3>2 DEF DisconnectSteps, Service, Steps, ServiceTypes
      <4>2. /\ Len(s) = 3 /\ s[1] = "RENEW" /\ s[2] = "CloseSession" /\ s[3] = "CLO"
        BY <1>2, <3>2 DEF DisconnectSteps, Service
      <4>. HIDE DEF s
      <4>3. s = <<"RENEW", "CloseSession", "CLO">>
        BY <4>1, <4>2
      <4>. QED
        BY <4>1, <4>3 DEF EndOf, CloseCall
    <3>. QED
      BY <1>2, <3>1, <3>2
  <2>. HIDE DEF s
  <2>2. Rest(s)
    BY <2>1, Zenon DEF Rest, Calls
  <2>3. s[1] \notin ServiceTypes
    BY <2>1 DEF ServiceTypes
  <2>4. \A n \in 1 .. 10 : ~Left(s, n)
    BY <2>1, Zenon DEF Left, Contains
  <2>. QED
    BY <1>2, <2>2, <2>3, <2>4 DEF s
<1>3. CASE client.connection # "ESTABLISHED"
  <2>1. Tail(todo) \in Seq(Steps)
    BY DEF Rest
  <2>2. s = Tail(todo)
    BY <1>3, <2>1 DEF DisconnectSteps
  <2>. HIDE DEF s
  <2>3. /\ Rest(s) /\ \A n \in 1 .. 13 : Left(s, n) <=> Left(todo, n + 1)
        /\ Contains(s, "CloseSession") => Contains(todo, "CloseSession")
        /\ s # <<>> => s[1] \notin ServiceTypes
    BY <2>2, RestTail, Zenon
  <2>4. \A n \in 1 .. 11 : ~Left(todo, n)
    BY StepsLeft, Zenon
  <2>5. \A n \in 1 .. 10 : ~Left(s, n)
    BY <2>3, <2>4
  <2>6. ~Contains(todo, "CloseSession")
    BY DisconnectsAre DEF Contains
  <2>. QED
    BY <2>3, <2>5, <2>6, SMTT(30) DEF s
<1>. QED
  BY <1>1, <1>2, <1>3, DisconnectsAre, Zenon

\* After a reset only the connect is left, if there is one.
LEMMA RestOfInit ==
    ASSUME NEW s, Rest(s), s # <<>>, s[1] = "init"
    PROVE  ~Contains(s, "CloseSession")
<1>0. PICK p \in Calls : s \in Seq(Steps) /\ EndOf(s, p)
  BY Zenon DEF Rest
<1>. SUFFICES ASSUME NEW i \in 1 .. Len(s) PROVE s[i] # "CloseSession"
  BY Zenon DEF Contains
<1>. DEFINE n == Len(s)
            m == n - i + 1
<1>1. n \in Nat /\ 1 <= n /\ n <= Len(p) /\ p[n] = "init"
  BY <1>0, CallsHaveLength, FirstStep
<1>2. m \in Nat /\ 1 <= m /\ m <= n
  BY <1>1
<1>3. p[m] # "CloseSession"
  <2>. HIDE DEF n, m
  <2>. QED
    BY <1>1, <1>2, InitAt
<1>. QED
  BY <1>0, <1>3 DEF EndOf

LEMMA LeftOnce ==
    ASSUME NEW s, NEW n, NEW m, Left(s, n), Left(s, m)
    PROVE  n = m
BY DEF Left

-----------------------------------------------------------------------------
(* The inductive invariant: types, calls and sockets *)

SentTypes == {"HEL", "OPN", "RENEW", "CLO"} \cup ServiceTypes
ReplyTypes == {"ACK", "OPN", "Fault", "Publish"} \cup ServiceTypes

ClientType ==
    [state : {"READY", "CONNECTED", "ERRORED"}, connection : {"CLOSED", "OPENING", "ESTABLISHED"},
     requestId : Nat, expires : 0 .. LifeTime, token : Nat, auth : Nat]
ServerType ==
    [open : BOOLEAN, hello : BOOLEAN, token : Nat, next : Nat, life : 0 .. LifeTime,
     nextLife : 0 .. LifeTime, again : BOOLEAN, session : {"none", "created", "activated"}, auth : Nat]
RequestType == [type : SentTypes, token : Nat, auth : Nat, id : Nat]
ReplyType == [type : ReplyTypes, id : Nat, good : BOOLEAN, token : Nat, auth : Nat]

Types ==
    /\ client \in ClientType
    /\ server \in ServerType
    /\ sockets \in [open : Nat, lost : Nat, twice : BOOLEAN]
    /\ toServer \in Seq(RequestType)
    /\ toClient \in Seq(ReplyType)
    /\ waiting = NoRequest \/ (waiting \in RequestType /\ waiting.type # "CLO")
    /\ gone \in BOOLEAN
    /\ calls \in 0 .. MaxCalls
    /\ stray \in 0 .. MaxStray
    /\ age \in 0 .. MaxDelay

\* A client is new until it opens a socket; it has none after a reset.
NewClient ==
    client.state = "READY" /\ (\A n \in 1 .. 9 : ~Left(todo, n)) =>
        client.connection = "CLOSED" /\ client.token = NoToken /\ client.expires = 0

\* UA_Client_connect is at a new client until its last step.
Connecting ==
    /\ \A n \in 1 .. 10 : Left(todo, n) => client.state = "READY"
    /\ \A n \in 1 .. 9 : Left(todo, n) => client.connection # "CLOSED"

\* A session is closed only by an application that disconnects.
Closing ==
    /\ Contains(todo, "CloseSession") => gone
    /\ \A i \in 1 .. Len(toServer) : toServer[i].type = "CloseSession" => gone

CallInv ==
    /\ Types
    /\ Rest(todo)
    /\ waiting # NoRequest => todo # <<>> /\ waiting.type = todo[1] /\ client.connection # "CLOSED"
    /\ SocketsReleased
    /\ NewClient
    /\ Connecting
    /\ Closing
    /\ ~server.open => toServer = <<>>

\* The step fails; c is the client before the state of the error.
Fails(c) ==
    /\ client' \in ClientType
    /\ client'.connection = c.connection /\ client'.token = c.token
    /\ client'.expires = c.expires /\ client'.auth = c.auth
    /\ client'.state \in {c.state, "ERRORED"}
    /\ Contains(todo, "connected") => client'.state = "ERRORED"
    /\ todo' = StepsAfterFailure
    /\ waiting' = NoRequest

LEMMA RefusedFails ==
    ASSUME NEW c \in ClientType, NEW status, Refused(c, status)
    PROVE  Fails(c)
<1>1. CASE Contains(todo, "connected")
  <2>1. client' = [c EXCEPT !.state = "ERRORED"] /\ todo' = StepsAfterFailure /\ waiting' = NoRequest
    BY <1>1 DEF Refused
  <2>. QED
    BY <1>1, <2>1 DEF ClientType, Fails
<1>2. CASE ~Contains(todo, "connected")
  <2>1. client' = c /\ todo' = StepsAfterFailure /\ waiting' = NoRequest
    BY <1>2 DEF Refused
  <2>. QED
    BY <1>2, <2>1 DEF Fails
<1>. QED
  BY <1>1, <1>2

LEMMA FailedFails ==
    ASSUME NEW c \in ClientType, NEW status, Failed(c, status)
    PROVE  Fails(c)
<1>. DEFINE d == IF FailsService THEN [c EXCEPT !.state = "ERRORED"] ELSE c
<1>1. /\ d \in ClientType /\ d.state \in {c.state, "ERRORED"} /\ d.connection = c.connection
      /\ d.token = c.token /\ d.expires = c.expires /\ d.auth = c.auth
  BY DEF ClientType
<1>2. Refused(d, status)
  BY DEF Failed
<1>. HIDE DEF d
<1>3. Fails(d)
  BY <1>1, <1>2, RefusedFails
<1>. QED
  BY <1>1, <1>3, Zenon DEF Fails

-----------------------------------------------------------------------------
(* The steps preserve it *)

LEMMA FailCall ==
    ASSUME CallInv, NEW c \in ClientType, Fails(c), c.state = client.state,
           c.connection \in {client.connection, "CLOSED"}, c.token = client.token,
           c.expires \in {client.expires, 0},
           sockets' \in [open : Nat, lost : Nat, twice : BOOLEAN],
           sockets'.open = IF c.connection = "CLOSED" THEN 0 ELSE 1,
           UNCHANGED <<gone, toServer, server, stray, calls>>,
           toClient' \in Seq(ReplyType), age' \in 0 .. MaxDelay
    PROVE  CallInv'
<1>1. /\ Rest(todo') /\ \A n \in 1 .. 10 : ~Left(todo', n)
      /\ ~Contains(todo', "CloseSession")
  BY RestAfterFailure, Zenon DEF CallInv, Fails
<1>2. Types'
  BY DEF CallInv, Types, Fails
<1>3. SocketsReleased'
  BY DEF SocketsReleased, Fails
<1>4. NewClient'
  <2>. SUFFICES ASSUME client'.state = "READY"
                PROVE  /\ client'.connection = "CLOSED" /\ client'.token = NoToken
                       /\ client'.expires = 0
    BY DEF NewClient
  <2>1. client.state = "READY" /\ ~Contains(todo, "connected")
    BY DEF Fails
  <2>2. \A n \in 1 .. 9 : ~Left(todo, n)
    BY <2>1, Zenon DEF Left
  <2>3. client.connection = "CLOSED" /\ client.token = NoToken /\ client.expires = 0
    BY <2>1, <2>2, Zenon DEF CallInv, NewClient
  <2>. QED
    BY <2>3 DEF Fails
<1>5. Connecting'
  <2>1. \A n \in 1 .. 9 : n \in 1 .. 10
    OBVIOUS
  <2>. QED
    BY <1>1, <2>1, Zenon DEF Connecting
<1>6. Closing'
  BY <1>1, Zenon DEF CallInv, Closing
<1>7. waiting' = NoRequest /\ (~server'.open => toServer' = <<>>)
  BY DEF CallInv, Fails
<1>. QED
  BY <1>1, <1>2, <1>3, <1>4, <1>5, <1>6, <1>7, Zenon DEF CallInv

\* The steps between the opening of the socket and the end of a connect.
LEMMA DoneLeft ==
    ASSUME Rest(todo), todo # <<>>, todo[1] \notin {"init", "socket", "connected"}, todo' = Tail(todo)
    PROVE  /\ Rest(todo')
           /\ \A n \in 1 .. 10 : Left(todo', n) => n + 1 \in 1 .. 9 /\ Left(todo, n + 1)
           /\ (\A n \in 1 .. 9 : ~Left(todo', n)) => \A n \in 1 .. 9 : ~Left(todo, n)
           /\ \A x : Contains(todo', x) => Contains(todo, x)
<1>1. Rest(todo') /\ (\A n \in 1 .. 13 : Left(todo', n) <=> Left(todo, n + 1))
      /\ \A x : Contains(todo', x) => Contains(todo, x)
  BY RestTail, Zenon
<1>2. ~Left(todo, 11) /\ ~Left(todo, 10) /\ ~Left(todo, 1)
  BY StepsLeft, Zenon
<1>3. ASSUME NEW n \in 1 .. 10, Left(todo', n)
      PROVE  n + 1 \in 1 .. 9 /\ Left(todo, n + 1)
  <2>1. Left(todo, n + 1)
    BY <1>1, <1>3, SMTT(30)
  <2>2. n + 1 # 11 /\ n + 1 # 10
    BY <1>2, <2>1
  <2>. QED
    BY <2>1, <2>2
<1>4. ASSUME \A n \in 1 .. 9 : ~Left(todo', n), NEW n \in 1 .. 9, Left(todo, n)
      PROVE  FALSE
  <2>1. n # 1
    BY <1>2, <1>4, Zenon
  <2>2. n - 1 \in 1 .. 9 /\ n - 1 \in 1 .. 13 /\ (n - 1) + 1 = n
    BY <2>1
  <2>3. Left(todo', n - 1)
    <3>1. Left(todo', n - 1) <=> Left(todo, (n - 1) + 1)
      BY <1>1, <2>2, Zenon
    <3>. QED
      BY <1>4, <2>2, <3>1
  <2>. QED
    BY <1>4, <2>2, <2>3, Zenon
<1>. QED
  BY <1>1, <1>3, <1>4, Zenon

LEMMA DoneCall ==
    ASSUME CallInv, todo # <<>>, todo[1] \notin {"init", "socket", "connected"}, todo' = Tail(todo),
           waiting' = NoRequest, client' \in ClientType, client'.state = client.state,
           client.connection = "CLOSED" <=> client'.connection = "CLOSED",
           client.connection = "CLOSED" => client'.token = client.token /\ client'.expires = client.expires,
           UNCHANGED <<sockets, gone, server, stray, calls>>,
           toServer' \in Seq(RequestType),
           \A i \in 1 .. Len(toServer') : toServer'[i].type = "CloseSession" => gone,
           ~server.open => toServer' = <<>>,
           toClient' \in Seq(ReplyType), age' \in 0 .. MaxDelay
    PROVE  CallInv'
<1>1. /\ Rest(todo')
      /\ \A n \in 1 .. 10 : Left(todo', n) => n + 1 \in 1 .. 9 /\ Left(todo, n + 1)
      /\ (\A n \in 1 .. 9 : ~Left(todo', n)) => \A n \in 1 .. 9 : ~Left(todo, n)
      /\ \A x : Contains(todo', x) => Contains(todo, x)
  BY DoneLeft, Zenon DEF CallInv
<1>2. Types'
  BY DEF CallInv, Types
<1>3. SocketsReleased'
  BY DEF CallInv, SocketsReleased
<1>4. NewClient'
  <2>. SUFFICES ASSUME client'.state = "READY", \A n \in 1 .. 9 : ~Left(todo', n)
                PROVE  /\ client'.connection = "CLOSED" /\ client'.token = NoToken
                       /\ client'.expires = 0
    BY Zenon DEF NewClient
  <2>1. client.connection = "CLOSED" /\ client.token = NoToken /\ client.expires = 0
    BY <1>1, Zenon DEF CallInv, NewClient
  <2>. QED
    BY <2>1
<1>5. Connecting'
  <2>1. \A n \in 1 .. 9 : n \in 1 .. 10
    OBVIOUS
  <2>2. ASSUME NEW n \in 1 .. 10, Left(todo', n)
        PROVE  client'.state = "READY" /\ client'.connection # "CLOSED"
    <3>1. client.state = "READY" /\ client.connection # "CLOSED"
      BY <1>1, <2>1, <2>2, Zenon DEF CallInv, Connecting
    <3>. QED
      BY <3>1, Zenon
  <2>. QED
    BY <2>1, <2>2, Zenon DEF Connecting
<1>6. Closing'
  BY <1>1, Zenon DEF CallInv, Closing
<1>. QED
  BY <1>1, <1>2, <1>3, <1>4, <1>5, <1>6, Zenon DEF CallInv

LEMMA BeginCall ==
    ASSUME CallInv, Application
    PROVE  CallInv'
<1>1. PICK s : /\ s \in {<<>>, ConnectSteps, ResetSteps \o ConnectSteps, Service("Read"), <<"RENEW">>,
                        <<"disconnect">>, ResetSteps}
               /\ Begin(s)
               /\ s = ConnectSteps => client.state \notin {"CONNECTED", "ERRORED"}
               /\ UNCHANGED <<client, gone>>
  <2>1. CASE Connect
    <3>1. PICK s : /\ Begin(s)
                   /\ s = CASE client.state = "CONNECTED" -> <<>>
                            [] client.state = "ERRORED" -> ResetSteps \o ConnectSteps
                            [] OTHER -> ConnectSteps
      BY <2>1, Zenon DEF Connect
    <3>2. s \in {<<>>, ConnectSteps, ResetSteps \o ConnectSteps}
      BY <3>1
    <3>3. ConnectSteps # <<>> /\ ResetSteps \o ConnectSteps # ConnectSteps
      BY ConnectStepsAre, ReconnectStepsAre
    <3>4. s = ConnectSteps => client.state \notin {"CONNECTED", "ERRORED"}
      BY <3>1, <3>3
    <3>. QED
      BY <2>1, <3>1, <3>2, <3>4, Zenon DEF Connect
  <2>2. CASE CallService \/ ManuallyRenew \/ Disconnect \/ Reset
    <3>1. ConnectSteps \notin {Service("Read"), <<"RENEW">>, <<"disconnect">>, ResetSteps}
      BY ConnectStepsAre DEF Service, ResetSteps
    <3>. QED
      BY <2>2, <3>1, Zenon DEF CallService, ManuallyRenew, Disconnect, Reset
  <2>. QED
    BY <2>1, <2>2, Zenon DEF Application
<1>2. /\ todo = <<>> /\ todo' = s /\ calls < MaxCalls /\ calls' = calls + 1
      /\ UNCHANGED <<waiting, sockets, toServer, toClient, age, server, stray>>
  BY <1>1 DEF Begin
<1>3. /\ Rest(s) /\ (\A n \in 1 .. 9 : ~Left(s, n)) /\ (Left(s, 10) => s = ConnectSteps)
      /\ ~Contains(s, "CloseSession")
  BY <1>1, RestBegin, Zenon
<1>4. Types'
  BY <1>1, <1>2, ClientAssumption DEF CallInv, Types
<1>5. waiting' = NoRequest /\ SocketsReleased' /\ (~server'.open => toServer' = <<>>)
  BY <1>1, <1>2 DEF CallInv, SocketsReleased
<1>6. NewClient'
  <2>1. \A n \in 1 .. 9 : ~Left(todo, n)
    BY <1>2 DEF Left
  <2>. QED
    BY <1>1, <1>2, <2>1, Zenon DEF CallInv, NewClient
<1>7. Connecting'
  <2>1. \A n \in 1 .. 10 : n = 10 \/ n \in 1 .. 9
    OBVIOUS
  <2>2. Left(s, 10) => client.state = "READY"
    BY <1>1, <1>3 DEF CallInv, Types, ClientType
  <2>3. client' = client /\ todo' = s
    BY <1>1, <1>2
  <2>. QED
    BY <1>3, <2>1, <2>2, <2>3, Zenon DEF Connecting
<1>8. Closing'
  BY <1>1, <1>2, <1>3, Zenon DEF CallInv, Closing
<1>. QED
  BY <1>2, <1>3, <1>4, <1>5, <1>6, <1>7, <1>8, Zenon DEF CallInv

\* No answer is awaited at a step that sends nothing.
LEMMA NothingAwaited ==
    ASSUME CallInv, todo # <<>>, todo[1] \notin SentTypes
    PROVE  waiting = NoRequest
BY DEF CallInv, Types, RequestType

LEMMA StepIs ==
    ASSUME NEW x, Step = x, x # "none"
    PROVE  todo # <<>> /\ todo[1] = x
BY DEF Step

LEMMA NoConnectionType == NoConnection \in ServerType
BY ClientAssumption DEF NoConnection, ServerType, NoToken

\* A socket is opened by a new client.
LEMMA AtSocket ==
    ASSUME CallInv, Step = "socket"
    PROVE  /\ todo # <<>> /\ todo[1] = "socket" /\ Left(todo, 10) /\ waiting = NoRequest
           /\ client.state = "READY" /\ client.connection = "CLOSED"
           /\ client.token = NoToken /\ client.expires = 0 /\ sockets.open = 0
<1>0. todo # <<>> /\ todo[1] = "socket" /\ Rest(todo)
  BY StepIs DEF CallInv
<1>1. Left(todo, 10)
  BY <1>0, StepsLeft, Zenon
<1>2. \A n \in 1 .. 9 : ~Left(todo, n)
  BY <1>1 DEF Left
<1>3. client.state = "READY"
  <2>1. 10 \in 1 .. 10
    OBVIOUS
  <2>. QED
    BY <1>1, <2>1, Zenon DEF CallInv, Connecting
<1>4. client.connection = "CLOSED" /\ client.token = NoToken /\ client.expires = 0
  BY <1>2, <1>3, Zenon DEF CallInv, NewClient
<1>5. sockets.open = 0
  BY <1>4 DEF CallInv, SocketsReleased
<1>6. waiting = NoRequest
  BY <1>0, NothingAwaited DEF SentTypes, ServiceTypes
<1>. QED
  BY <1>0, <1>1, <1>3, <1>4, <1>5, <1>6, Zenon

\* The socket is opened.
Opened ==
    /\ Step = "socket"
    /\ Succeeded([client EXCEPT !.connection = "OPENING"])
    /\ sockets' = [sockets EXCEPT !.open = @ + 1]
    /\ server' = [NoConnection EXCEPT !.open = TRUE]
    /\ toServer' = <<>> /\ toClient' = <<>> /\ age' = 0
    /\ UNCHANGED <<calls, gone, stray>>

LEMMA OpenedCall ==
    ASSUME CallInv, Opened
    PROVE  CallInv'
<1>0. /\ todo # <<>> /\ todo[1] = "socket" /\ Left(todo, 10) /\ client \in ClientType /\ Rest(todo)
      /\ client.state = "READY" /\ sockets \in [open : Nat, lost : Nat, twice : BOOLEAN] /\ sockets.open = 0
  BY AtSocket DEF Opened, CallInv, Types
<1>1. /\ client' = [client EXCEPT !.connection = "OPENING"] /\ todo' = Tail(todo)
      /\ waiting' = NoRequest
  BY DEF Opened, Succeeded
<1>2. client' \in ClientType /\ client'.connection = "OPENING" /\ client'.state = "READY"
  BY <1>0, <1>1 DEF ClientType
<1>3. server' \in ServerType /\ server'.open = TRUE
  BY NoConnectionType, Zenon DEF ServerType, Opened
<1>4. sockets' \in [open : Nat, lost : Nat, twice : BOOLEAN] /\ sockets'.open = 1
  BY <1>0 DEF Opened
<1>5. Types'
  BY <1>1, <1>2, <1>3, <1>4, ClientAssumption DEF CallInv, Types, Opened
<1>6. /\ Rest(todo') /\ (\A n \in 1 .. 13 : Left(todo', n) <=> Left(todo, n + 1))
      /\ \A x : Contains(todo', x) => Contains(todo, x)
  BY <1>0, <1>1, RestTail, Zenon
<1>7. Left(todo', 9)
  BY <1>0, <1>6
<1>8. NewClient' /\ Connecting' /\ SocketsReleased'
  <2>1. 9 \in 1 .. 9
    OBVIOUS
  <2>2. NewClient' /\ Connecting'
    BY <1>2, <1>7, <2>1, Zenon DEF NewClient, Connecting
  <2>. QED
    BY <1>2, <1>4, <2>2 DEF SocketsReleased
<1>9. Closing'
  <2>1. 1 .. Len(toServer') = {} /\ gone' = gone
    BY DEF Opened
  <2>. QED
    BY <1>6, <2>1, Zenon DEF CallInv, Closing
<1>10. toServer' = <<>>
  BY DEF Opened
<1>. QED
  BY <1>1, <1>5, <1>6, <1>8, <1>9, <1>10, Zenon DEF CallInv

-----------------------------------------------------------------------------
(* What a step of the client can be *)

\* What a step that fails does with the replies: the answer was refused, there
\* is none, or none was awaited.
Dropped ==
    \/ waiting = NoRequest /\ toClient' = toClient /\ age' = age
    \/ toClient = <<>> /\ ~server.open /\ toClient' = toClient /\ age' = age
    \/ /\ waiting # NoRequest
       /\ \E n \in 1 .. Len(toClient) : toClient' = SubSeq(toClient, n + 1, Len(toClient))
       /\ age' = IF toServer = <<>> THEN 0 ELSE age
       /\ toClient[1].type # "OPN" \/ todo[1] \notin Handshake \/ ~toClient[1].good

\* The step fails.
FailingStep ==
    /\ \E c \in ClientType :
         /\ Fails(c)
         /\ c.state = client.state /\ c.token = client.token
         /\ c.connection \in {client.connection, "CLOSED"}
         /\ c.expires \in {client.expires, 0}
         /\ c.auth = client.auth \/ Contains(todo, "connected")
    /\ todo # <<>>
    /\ sockets' \in [open : Nat, lost : Nat, twice : BOOLEAN]
    /\ sockets'.open = IF client'.connection = "CLOSED" THEN 0 ELSE 1
    /\ UNCHANGED <<gone, toServer, server, stray, calls>>
    /\ Dropped

\* The reply is accepted.
Took ==
    /\ waiting # NoRequest /\ todo' = Tail(todo) /\ waiting' = NoRequest
    /\ \E n \in 1 .. Len(toClient) : toClient' = SubSeq(toClient, n + 1, Len(toClient))
    /\ age' = IF toServer = <<>> THEN 0 ELSE age
    /\ UNCHANGED <<calls, sockets, gone, toServer, server, stray>>

TookAck ==
    /\ Took /\ todo[1] = "HEL"
    /\ client' = [client EXCEPT !.connection = "ESTABLISHED"]

TookOpen ==
    /\ Took /\ todo[1] \in Handshake /\ toClient[1].type = "OPN"
    /\ client' = [client EXCEPT !.expires = LifeTime, !.token = toClient[1].token]

TookResponse ==
    /\ Took /\ todo[1] \in ServiceTypes
    /\ toClient[1].type = todo[1]
    /\ client' = IF todo[1] = "CreateSession" THEN [client EXCEPT !.auth = toClient[1].auth] ELSE client

LEMMA DroppedTypes ==
    ASSUME Types, Dropped
    PROVE  toClient' \in Seq(ReplyType) /\ age' \in 0 .. MaxDelay
<1>1. age' \in 0 .. MaxDelay
  BY ClientAssumption DEF Types, Dropped
<1>2. CASE \E n \in 1 .. Len(toClient) : toClient' = SubSeq(toClient, n + 1, Len(toClient))
  <2>1. toClient \in Seq(ReplyType)
    BY DEF Types
  <2>. QED
    BY <1>1, <1>2, <2>1
<1>3. CASE toClient' = toClient
  BY <1>1, <1>3 DEF Types
<1>. QED
  BY <1>2, <1>3, Zenon DEF Dropped

LEMMA FailingCall ==
    ASSUME CallInv, FailingStep
    PROVE  CallInv'
<1>1. PICK c \in ClientType :
         /\ Fails(c)
         /\ c.state = client.state /\ c.token = client.token
         /\ c.connection \in {client.connection, "CLOSED"}
         /\ c.expires \in {client.expires, 0}
  BY Zenon DEF FailingStep
<1>2. /\ sockets' \in [open : Nat, lost : Nat, twice : BOOLEAN]
      /\ sockets'.open = IF c.connection = "CLOSED" THEN 0 ELSE 1
      /\ UNCHANGED <<gone, toServer, server, stray, calls>>
  BY <1>1 DEF FailingStep, Fails
<1>3. toClient' \in Seq(ReplyType) /\ age' \in 0 .. MaxDelay
  BY DroppedTypes DEF FailingStep, CallInv
<1>. QED
  BY <1>1, <1>2, <1>3, FailCall

\* A failure of the connection, or of a step that needs one, is a failing step.
LEMMA FailedIs ==
    ASSUME CallInv, NEW c \in ClientType, NEW status, Failed(c, status) \/ Refused(c, status),
           todo # <<>>,
           c.state = client.state, c.token = client.token,
           c.connection \in {client.connection, "CLOSED"},
           c.expires \in {client.expires, 0},
           c.auth = client.auth \/ Contains(todo, "connected"),
           sockets' \in [open : Nat, lost : Nat, twice : BOOLEAN],
           sockets'.open = IF c.connection = "CLOSED" THEN 0 ELSE 1,
           UNCHANGED <<gone, toServer, server, stray, calls>>,
           Dropped
    PROVE  FailingStep
<1>1. Fails(c)
  BY FailedFails, RefusedFails
<1>2. client'.connection = c.connection
  BY <1>1 DEF Fails
<1>. QED
  BY <1>1, <1>2 DEF FailingStep

LEMMA OpenSocketIs ==
    ASSUME CallInv, OpenSocket
    PROVE  Opened \/ FailingStep
<1>0. /\ todo # <<>> /\ waiting = NoRequest /\ client \in ClientType
      /\ sockets \in [open : Nat, lost : Nat, twice : BOOLEAN] /\ sockets.open = 0
  BY AtSocket DEF OpenSocket, CallInv, Types
<1>1. CASE /\ Failed([client EXCEPT !.connection = "CLOSED"], "BADCONNECTIONCLOSED")
           /\ sockets' = sockets \/ sockets' = [sockets EXCEPT !.lost = @ + 1]
           /\ UNCHANGED <<server, toServer, toClient, age>>
  <2>. DEFINE c == [client EXCEPT !.connection = "CLOSED"]
  <2>1. /\ c \in ClientType /\ c.state = client.state /\ c.connection = "CLOSED"
        /\ c.token = client.token /\ c.expires = client.expires /\ c.auth = client.auth
    BY <1>0 DEF ClientType
  <2>2. Failed(c, "BADCONNECTIONCLOSED")
    BY <1>1
  <2>. HIDE DEF c
  <2>4. sockets' \in [open : Nat, lost : Nat, twice : BOOLEAN] /\ sockets'.open = 0
    BY <1>0, <1>1
  <2>5. UNCHANGED <<gone, toServer, server, stray, calls>> /\ Dropped
    BY <1>0, <1>1 DEF OpenSocket, Dropped
  <2>. QED
    BY <1>0, <2>1, <2>2, <2>4, <2>5, FailedIs
<1>. QED
  BY <1>1 DEF OpenSocket, Opened

LEMMA LostIs ==
    ASSUME CallInv, todo # <<>>, client.connection # "CLOSED",
           Failed([client EXCEPT !.connection = "CLOSED"], "BADCONNECTIONCLOSED"),
           sockets' \in [open : Nat, lost : Nat, twice : BOOLEAN], sockets'.open = sockets.open - 1,
           UNCHANGED <<gone, toServer, server, stray, calls>>,
           Dropped
    PROVE  FailingStep
<1>. DEFINE c == [client EXCEPT !.connection = "CLOSED"]
<1>0. client \in ClientType /\ sockets \in [open : Nat, lost : Nat, twice : BOOLEAN] /\ sockets.open = 1
  BY DEF CallInv, Types, SocketsReleased
<1>1. /\ c \in ClientType /\ c.state = client.state /\ c.connection = "CLOSED"
      /\ c.token = client.token /\ c.expires = client.expires /\ c.auth = client.auth
  BY <1>0 DEF ClientType
<1>2. Failed(c, "BADCONNECTIONCLOSED")
  OBVIOUS
<1>3. sockets' \in [open : Nat, lost : Nat, twice : BOOLEAN] /\ sockets'.open = 0
  BY <1>0
<1>. HIDE DEF c
<1>. QED
  BY <1>1, <1>2, <1>3, FailedIs

LEMMA SendFailedIs ==
    ASSUME CallInv, SendFailed
    PROVE  FailingStep
<1>0. /\ todo # <<>> /\ waiting = NoRequest /\ client \in ClientType
      /\ sockets \in [open : Nat, lost : Nat, twice : BOOLEAN] /\ sockets.open = IF client.connection = "CLOSED" THEN 0 ELSE 1
      /\ UNCHANGED <<calls, gone, toServer, toClient, age, server, stray>>
  BY DEF SendFailed, SendingStep, Step, CallInv, Types, ServiceTypes, SocketsReleased
<1>1. Dropped
  BY <1>0 DEF Dropped
<1>2. CASE ~CanSend /\ Failed(client, "BADSERVERNOTCONNECTED") /\ UNCHANGED sockets
  BY <1>0, <1>1, <1>2, FailedIs
<1>3. CASE /\ CanSend /\ ~server.open
           /\ Failed([client EXCEPT !.connection = "CLOSED"], "BADCONNECTIONCLOSED")
           /\ sockets' = [sockets EXCEPT !.open = @ - 1, !.twice = TRUE]
  <2>1. client.connection # "CLOSED"
    BY <1>3 DEF CanSend
  <2>2. sockets.open = 1
    BY <1>0, <2>1
  <2>3. sockets \in [open : Nat, lost : Nat, twice : BOOLEAN]
    BY <1>0
  <2>4. sockets' = [sockets EXCEPT !.open = @ - 1, !.twice = TRUE]
    BY <1>3
  <2>5. sockets' \in [open : Nat, lost : Nat, twice : BOOLEAN] /\ sockets'.open = sockets.open - 1
    <3>1. sockets.open - 1 \in Nat
      BY <2>2
    <3>. QED
      BY <2>3, <2>4, <3>1, Zenon
  <2>. QED
    BY <1>0, <1>1, <1>3, <2>1, <2>5, LostIs
<1>. QED
  BY <1>2, <1>3 DEF SendFailed

LEMMA ReceiveFailedIs ==
    ASSUME CallInv, ReceiveFailed
    PROVE  FailingStep
<1>0. /\ todo # <<>> /\ client.connection # "CLOSED"
      /\ UNCHANGED <<calls, gone, toServer, toClient, age, server, stray>>
      /\ toClient = <<>> /\ ~server.open
      /\ Failed([client EXCEPT !.connection = "CLOSED"], "BADCONNECTIONCLOSED")
      /\ sockets' = [sockets EXCEPT !.open = @ - 1]
  BY DEF ReceiveFailed, CallInv
<1>1. Dropped
  BY <1>0, Zenon DEF Dropped
<1>2. sockets \in [open : Nat, lost : Nat, twice : BOOLEAN] /\ sockets.open = 1
  BY <1>0 DEF CallInv, Types, SocketsReleased
<1>3. sockets' \in [open : Nat, lost : Nat, twice : BOOLEAN] /\ sockets'.open = sockets.open - 1
  BY <1>0, <1>2
<1>. QED
  BY <1>0, <1>1, <1>3, LostIs

LEMMA ReceiveIs ==
    ASSUME CallInv, NEW n \in 1 .. Len(toClient), Receive(n)
    PROVE  FailingStep \/ TookAck \/ TookOpen \/ TookResponse
<1>. DEFINE r == toClient[1]
<1>0. /\ waiting # NoRequest /\ todo # <<>> /\ Step = todo[1] /\ waiting.type = todo[1]
      /\ client.connection # "CLOSED" /\ client \in ClientType /\ waiting \in RequestType
      /\ waiting.type # "CLO"
  BY DEF Receive, CallInv, Types, Step
<1>1. /\ toClient' = SubSeq(toClient, n + 1, Len(toClient))
      /\ age' = IF toServer = <<>> THEN 0 ELSE age
      /\ UNCHANGED <<calls, sockets, gone, toServer, server, stray>>
  BY DEF Receive
<1>2. /\ sockets' \in [open : Nat, lost : Nat, twice : BOOLEAN]
      /\ sockets'.open = IF client.connection = "CLOSED" THEN 0 ELSE 1
  BY <1>1 DEF CallInv, Types, SocketsReleased
<1>3. r \in ReplyType
  BY DEF CallInv, Types
<1>4. todo' = Tail(todo) /\ waiting' = NoRequest => Took
  BY <1>0, <1>1, Zenon DEF Took
<1>5. r.type # "OPN" \/ todo[1] \notin Handshake \/ ~r.good => Dropped
  BY <1>0, <1>1, Zenon DEF Dropped
<1>6. CASE Step = "HEL"
  <2>1. TakeAck
    BY <1>6 DEF Receive, Handshake
  <2>. QED
    BY <1>0, <1>4, <1>6, <2>1 DEF TakeAck, Succeeded, TookAck
<1>7. CASE Step \in Handshake
  <2>1. TakeOpen(r)
    BY <1>7 DEF Receive, Handshake
  <2>2. CASE r.type # "OPN"
    <3>1. Failed(client, "BADINTERNALERROR")
      BY <2>1, <2>2 DEF TakeOpen
    <3>. QED
      BY <1>0, <1>1, <1>2, <1>5, <2>2, <3>1, FailedIs
  <2>3. CASE r.type = "OPN" /\ ~r.good
    <3>. DEFINE c == [client EXCEPT !.expires = 0]
    <3>1. Failed(c, "BADRESULT")
      BY <2>1, <2>3 DEF TakeOpen
    <3>2. 0 \in 0 .. LifeTime
      BY ClientAssumption
    <3>3. /\ c \in ClientType /\ c.state = client.state /\ c.connection = client.connection
          /\ c.token = client.token /\ c.expires = 0 /\ c.auth = client.auth
      BY <1>0, <3>2, Zenon DEF ClientType
    <3>. HIDE DEF c
    <3>. QED
      BY <1>0, <1>1, <1>2, <1>5, <2>3, <3>1, <3>3, FailedIs
  <2>4. CASE r.type = "OPN" /\ r.good
    <3>1. Succeeded([client EXCEPT !.expires = LifeTime, !.token = r.token])
      BY <2>1, <2>4 DEF TakeOpen
    <3>. QED
      BY <1>0, <1>4, <1>7, <2>4, <3>1 DEF Succeeded, TookOpen
  <2>. QED
    BY <2>2, <2>3, <2>4
<1>8. CASE Step \notin Handshake \cup {"HEL"}
  <2>0. Step \in ServiceTypes
    BY <1>0, <1>8 DEF RequestType, SentTypes, Handshake
  <2>1. TakeResponse(r)
    BY <1>8 DEF Receive, Handshake
  <2>. DEFINE good == Answers(r) /\ r.good
              c    == IF Step = "CreateSession" THEN SessionHandshake(r, good) ELSE client
  <2>2. CASE good
    <3>1. todo' = Tail(todo) /\ waiting' = NoRequest /\ client' = c
      BY <2>1, <2>2 DEF TakeResponse
    <3>2. c = IF todo[1] = "CreateSession" THEN [client EXCEPT !.auth = r.auth] ELSE client
      BY <1>0, <2>2 DEF SessionHandshake
    <3>3. r.type = todo[1]
      BY <1>0, <2>2 DEF Answers
    <3>. HIDE DEF c
    <3>. QED
      BY <1>0, <1>4, <2>0, <3>1, <3>2, <3>3 DEF TookResponse
  <2>3. CASE ~good
    <3>1. PICK status : Refused(c, status)
      BY <2>1, <2>3, Zenon DEF TakeResponse
    <3>2. /\ c \in ClientType /\ c.state = client.state /\ c.connection = client.connection
          /\ c.token = client.token /\ c.expires = client.expires
      BY <1>0, <1>3, <2>3, Zenon DEF ClientType, ReplyType, SessionHandshake
    <3>3. c.auth = client.auth \/ Contains(todo, "connected")
      <4>1. CASE Step = "CreateSession"
        BY <1>0, <4>1, StepsLeft, Zenon DEF CallInv, Left
      <4>2. CASE Step # "CreateSession"
        BY <4>2
      <4>. QED
        BY <4>1, <4>2
    <3>. HIDE DEF c, good
    <3>4. Dropped
      BY <1>0, <1>5, <1>8, Zenon
    <3>. QED
      BY <1>0, <1>1, <1>2, <3>1, <3>2, <3>3, <3>4, FailedIs
  <2>. QED
    BY <2>2, <2>3
<1>. QED
  BY <1>6, <1>7, <1>8

LEMMA ClientStepIs ==
    ASSUME CallInv, ClientStep
    PROVE  \/ FailingStep \/ Opened \/ SkipRenewal \/ Send \/ CloseSecureChannel
           \/ TookAck \/ TookOpen \/ TookResponse \/ BeginDisconnect \/ Initialise \/ Connected
BY OpenSocketIs, SendFailedIs, ReceiveFailedIs, ReceiveIs, Zenon DEF ClientStep

LEMMA TookTypes ==
    ASSUME CallInv, Took
    PROVE  toClient' \in Seq(ReplyType) /\ age' \in 0 .. MaxDelay
<1>1. age' \in 0 .. MaxDelay
  BY ClientAssumption DEF CallInv, Types, Took
<1>2. toClient \in Seq(ReplyType) /\ \E n \in 1 .. Len(toClient) : toClient' = SubSeq(toClient, n + 1, Len(toClient))
  BY DEF CallInv, Types, Took
<1>. QED
  BY <1>1, <1>2

\* The reply that is taken, and the client after it.
LEMMA TookReply ==
    ASSUME CallInv, Took
    PROVE  /\ todo # <<>> /\ waiting \in RequestType /\ waiting.type = todo[1] /\ waiting.type # "CLO"
           /\ client.connection # "CLOSED" /\ toClient # <<>> /\ toClient[1] \in ReplyType
           /\ client \in ClientType
<1>1. toClient \in Seq(ReplyType) /\ \E n \in 1 .. Len(toClient) : TRUE
  BY DEF CallInv, Types, Took
<1>2. toClient # <<>> /\ toClient[1] \in ReplyType
  BY <1>1
<1>. QED
  BY <1>2 DEF CallInv, Types, Took

LEMMA TookCall ==
    ASSUME CallInv, TookAck \/ TookOpen \/ TookResponse
    PROVE  CallInv'
<1>1. Took
  BY DEF TookAck, TookOpen, TookResponse
<1>2. /\ todo # <<>> /\ todo[1] \in SentTypes /\ client.connection # "CLOSED"
      /\ toClient[1] \in ReplyType /\ client \in ClientType
  BY <1>1, TookReply DEF RequestType
<1>3. todo[1] \notin {"init", "socket", "connected"}
  BY <1>2 DEF SentTypes, ServiceTypes
<1>4. /\ client' \in ClientType /\ client'.state = client.state /\ client'.connection # "CLOSED"
  <2>1. CASE TookAck
    BY <1>2, <2>1 DEF ClientType, TookAck
  <2>2. CASE TookOpen
    <3>1. LifeTime \in 0 .. LifeTime /\ toClient[1].token \in Nat
      BY <1>2, ClientAssumption DEF ReplyType
    <3>. QED
      BY <1>2, <2>2, <3>1, Zenon DEF ClientType, TookOpen
  <2>3. CASE TookResponse
    <3>1. toClient[1].auth \in Nat
      BY <1>2 DEF ReplyType
    <3>. QED
      BY <1>2, <2>3, <3>1 DEF ClientType, TookResponse
  <2>. QED
    BY <2>1, <2>2, <2>3
<1>5. toClient' \in Seq(ReplyType) /\ age' \in 0 .. MaxDelay
  BY <1>1, TookTypes
<1>6. /\ toServer' \in Seq(RequestType)
      /\ \A i \in 1 .. Len(toServer') : toServer'[i].type = "CloseSession" => gone
      /\ ~server.open => toServer' = <<>>
  BY <1>1 DEF Took, CallInv, Closing, Types
<1>7. /\ todo' = Tail(todo) /\ waiting' = NoRequest
      /\ UNCHANGED <<sockets, gone, server, stray, calls>>
  BY <1>1 DEF Took
<1>. QED
  BY <1>2, <1>3, <1>4, <1>5, <1>6, <1>7, DoneCall

LEMMA SkipRenewalCall ==
    ASSUME CallInv, SkipRenewal
    PROVE  CallInv'
<1>1. todo # <<>> /\ todo[1] = "RENEW"
  BY StepIs DEF SkipRenewal
<1>2. /\ todo' = Tail(todo) /\ waiting' = NoRequest /\ client' = client
      /\ UNCHANGED <<calls, sockets, gone, toServer, toClient, age, server, stray>>
  BY DEF SkipRenewal, Succeeded
<1>3. /\ toServer' \in Seq(RequestType)
      /\ \A i \in 1 .. Len(toServer') : toServer'[i].type = "CloseSession" => gone
      /\ ~server.open => toServer' = <<>>
      /\ toClient' \in Seq(ReplyType) /\ age' \in 0 .. MaxDelay /\ client' \in ClientType
  BY <1>2 DEF CallInv, Closing, Types
<1>. QED
  BY <1>1, <1>2, <1>3, DoneCall

\* The request that is sent.
LEMMA RequestIs ==
    ASSUME CallInv, Sent
    PROVE  /\ todo # <<>> /\ Step = todo[1] /\ Request \in RequestType /\ Request.type = todo[1]
           /\ client.connection # "CLOSED" /\ waiting = NoRequest
           /\ [client EXCEPT !.requestId = Request.id] \in ClientType
           /\ age' \in 0 .. MaxDelay
<1>1. todo # <<>> /\ Step = todo[1] /\ todo[1] \in SentTypes /\ waiting = NoRequest
  BY DEF Sent, SendingStep, Step, SentTypes, ServiceTypes
<1>2. client \in ClientType /\ age \in 0 .. MaxDelay
  BY DEF CallInv, Types
<1>3. Request \in RequestType /\ Request.type = todo[1] /\ Request.id \in Nat
  BY <1>1, <1>2 DEF Request, RequestType, ClientType
<1>4. client.connection # "CLOSED"
  BY DEF Sent, CanSend
<1>5. age' \in 0 .. MaxDelay
  BY <1>2, ClientAssumption DEF Sent
<1>6. [client EXCEPT !.requestId = Request.id] \in ClientType
  BY <1>2, <1>3 DEF ClientType
<1>. QED
  BY <1>1, <1>3, <1>4, <1>5, <1>6

LEMMA SentRequests ==
    ASSUME CallInv, Sent
    PROVE  /\ toServer' \in Seq(RequestType)
           /\ \A i \in 1 .. Len(toServer') : toServer'[i].type = "CloseSession" => gone
           /\ ~server.open => toServer' = <<>>
<1>1. Request \in RequestType /\ Request.type = todo[1] /\ todo # <<>>
  BY RequestIs
<1>2. Request.type = "CloseSession" => gone
  <2>1. Rest(todo)
    BY DEF CallInv
  <2>2. 1 \in 1 .. Len(todo)
    BY <1>1, <2>1, StepsLeft
  <2>3. Request.type = "CloseSession" => Contains(todo, "CloseSession")
    BY <1>1, <2>2, Zenon DEF Contains
  <2>. QED
    BY <2>3, Zenon DEF CallInv, Closing
<1>3. /\ toServer \in Seq(RequestType)
      /\ \A i \in 1 .. Len(toServer) : toServer[i].type = "CloseSession" => gone
      /\ ~server.open => toServer = <<>>
      /\ toServer' = IF server.open THEN Append(toServer, Request) ELSE toServer
  BY DEF CallInv, Types, Closing, Sent
<1>. HIDE DEF Request
<1>4. CASE server.open
  BY <1>1, <1>2, <1>3, <1>4
<1>5. CASE ~server.open
  BY <1>3, <1>5
<1>. QED
  BY <1>4, <1>5

LEMMA CloseChannelCall ==
    ASSUME CallInv, CloseSecureChannel
    PROVE  CallInv'
<1>0. Sent
  BY DEF CloseSecureChannel
<1>1. /\ todo # <<>> /\ todo[1] = "CLO" /\ client.connection # "CLOSED"
      /\ client' \in ClientType /\ client' = [client EXCEPT !.requestId = Request.id]
      /\ age' \in 0 .. MaxDelay
  BY <1>0, RequestIs DEF CloseSecureChannel, Succeeded
<1>2. client'.state = client.state /\ client'.connection = client.connection
  BY <1>1 DEF CallInv, Types, ClientType
<1>3. /\ todo' = Tail(todo) /\ waiting' = NoRequest
      /\ UNCHANGED <<calls, sockets, gone, toClient, server, stray>>
  BY <1>0 DEF CloseSecureChannel, Succeeded, Sent
<1>4. toClient' \in Seq(ReplyType)
  BY <1>3 DEF CallInv, Types
<1>. QED
  BY <1>0, <1>1, <1>2, <1>3, <1>4, SentRequests, DoneCall

LEMMA SendCall ==
    ASSUME CallInv, Send
    PROVE  CallInv'
<1>0. Sent
  BY DEF Send
<1>1. /\ todo # <<>> /\ waiting' \in RequestType /\ waiting'.type = todo[1] /\ client.connection # "CLOSED"
      /\ client' \in ClientType /\ client' = [client EXCEPT !.requestId = Request.id]
      /\ age' \in 0 .. MaxDelay /\ waiting'.type # "CLO"
  BY <1>0, RequestIs DEF Send
<1>2. /\ client'.state = client.state /\ client'.connection = client.connection
      /\ client'.token = client.token /\ client'.expires = client.expires
  BY <1>1 DEF CallInv, Types, ClientType
<1>3. todo' = todo /\ UNCHANGED <<calls, sockets, gone, toClient, server, stray>>
  BY <1>0 DEF Send, Sent
<1>4. /\ toServer' \in Seq(RequestType)
      /\ \A i \in 1 .. Len(toServer') : toServer'[i].type = "CloseSession" => gone
      /\ ~server.open => toServer' = <<>>
  BY <1>0, SentRequests
<1>5. Types'
  BY <1>1, <1>3, <1>4 DEF CallInv, Types
<1>6. SocketsReleased' /\ NewClient' /\ Connecting' /\ Closing'
  <2>1. SocketsReleased'
    BY <1>2, <1>3 DEF CallInv, SocketsReleased
  <2>2. NewClient' /\ Connecting' /\ Closing'
    BY <1>2, <1>3, <1>4, Zenon DEF CallInv, NewClient, Connecting, Closing
  <2>. QED
    BY <2>1, <2>2
<1>. QED
  BY <1>1, <1>2, <1>3, <1>4, <1>5, <1>6 DEF CallInv

LEMMA BeginDisconnectCall ==
    ASSUME CallInv, BeginDisconnect
    PROVE  CallInv'
<1>0. todo # <<>> /\ todo[1] = "disconnect" /\ Rest(todo)
  BY StepIs DEF BeginDisconnect, CallInv
<1>1. /\ todo' = DisconnectSteps \o Tail(todo)
      /\ gone' = (gone \/ client.connection = "ESTABLISHED")
      /\ UNCHANGED <<client, waiting, calls, sockets, toServer, toClient, age, server, stray>>
  BY DEF BeginDisconnect
<1>2. /\ Rest(todo') /\ (\A n \in 1 .. 10 : ~Left(todo', n))
      /\ client.connection # "ESTABLISHED" => ~Contains(todo', "CloseSession")
  BY <1>0, <1>1, RestDisconnect
<1>3. waiting' = NoRequest
  BY <1>0, <1>1, NothingAwaited DEF SentTypes, ServiceTypes
<1>4. Types'
  BY <1>1, <1>3 DEF CallInv, Types
<1>5. SocketsReleased' /\ (~server'.open => toServer' = <<>>)
  BY <1>1 DEF CallInv, SocketsReleased
<1>6. NewClient'
  <2>1. \A n \in 1 .. 9 : ~Left(todo, n)
    <3>1. \A n \in 1 .. 11 : ~Left(todo, n)
      BY <1>0, StepsLeft, Zenon
    <3>2. \A n \in 1 .. 9 : n \in 1 .. 11
      OBVIOUS
    <3>. QED
      BY <3>1, <3>2, Zenon
  <2>. QED
    BY <1>1, <2>1, Zenon DEF CallInv, NewClient
<1>7. Connecting'
  <2>1. \A n \in 1 .. 9 : n \in 1 .. 10
    OBVIOUS
  <2>. QED
    BY <1>2, <2>1, Zenon DEF Connecting
<1>8. Closing'
  <2>1. Contains(todo', "CloseSession") => gone'
    BY <1>1, <1>2, Zenon
  <2>2. gone => gone'
    BY <1>1, Zenon
  <2>. QED
    BY <1>1, <2>1, <2>2, Zenon DEF CallInv, Closing
<1>. QED
  BY <1>2, <1>3, <1>4, <1>5, <1>6, <1>7, <1>8, Zenon DEF CallInv

LEMMA FreshClientType ==
    /\ FreshClient \in ClientType /\ FreshClient.state = "READY" /\ FreshClient.connection = "CLOSED"
    /\ FreshClient.token = NoToken /\ FreshClient.expires = 0
BY ClientAssumption DEF FreshClient, ClientType, NoToken

LEMMA NoConnectionIs ==
    /\ NoConnection \in ServerType /\ NoConnection.open = FALSE
    /\ NoConnection.session = "none" /\ NoConnection.auth = 0 /\ NoConnection.again = FALSE
    /\ NoConnection.token = NoToken /\ NoConnection.next = NoToken
BY NoConnectionType DEF NoConnection

LEMMA InitialiseCall ==
    ASSUME CallInv, Initialise
    PROVE  CallInv'
<1>0. todo # <<>> /\ todo[1] = "init" /\ Rest(todo)
  BY StepIs DEF Initialise, CallInv
<1>1. /\ todo' = Tail(todo) /\ waiting' = NoRequest /\ client' = FreshClient
      /\ server' = NoConnection /\ toServer' = <<>> /\ toClient' = <<>> /\ gone' = FALSE
      /\ UNCHANGED <<calls, age, stray>> /\ sockets' = SocketsClosed
  BY DEF Initialise, Succeeded
<1>2. /\ Rest(todo') /\ (\A n \in 1 .. 13 : Left(todo', n) <=> Left(todo, n + 1))
      /\ \A x : Contains(todo', x) => Contains(todo, x)
  BY <1>0, <1>1, RestTail, Zenon
<1>3. \A n \in 1 .. 9 : ~Left(todo', n)
  <2>. SUFFICES ASSUME NEW n \in 1 .. 9, Left(todo', n) PROVE FALSE
    OBVIOUS
  <2>1. Left(todo, n + 1)
    BY <1>2
  <2>2. Left(todo, 11)
    BY <1>0, <2>1, StepsLeft, Zenon DEF Left
  <2>3. n + 1 = 11
    BY <2>1, <2>2, LeftOnce, Zenon
  <2>. QED
    BY <2>3
<1>4. sockets' \in [open : Nat, lost : Nat, twice : BOOLEAN] /\ sockets'.open = 0
  BY <1>1 DEF CallInv, Types, SocketsReleased, SocketsClosed
<1>5. Types'
  <2>1. <<>> \in Seq(RequestType) /\ <<>> \in Seq(ReplyType) /\ FALSE \in BOOLEAN
    OBVIOUS
  <2>2. client' \in ClientType /\ server' \in ServerType
    BY <1>1, FreshClientType, NoConnectionType
  <2>3. calls' \in 0 .. MaxCalls /\ stray' \in 0 .. MaxStray /\ age' \in 0 .. MaxDelay
    BY <1>1 DEF CallInv, Types
  <2>. QED
    BY <1>1, <1>4, <2>1, <2>2, <2>3, Zenon DEF Types
<1>6. SocketsReleased' /\ NewClient'
  BY <1>1, <1>4, FreshClientType DEF SocketsReleased, NewClient
<1>7. Connecting'
  BY <1>1, <1>3, FreshClientType, Zenon DEF Connecting
<1>8. Closing'
  <2>1. ~Contains(todo', "CloseSession")
    BY <1>0, <1>2, RestOfInit, Zenon
  <2>2. 1 .. Len(toServer') = {}
    BY <1>1
  <2>. QED
    BY <2>1, <2>2, Zenon DEF Closing
<1>. QED
  BY <1>1, <1>2, <1>5, <1>6, <1>7, <1>8, Zenon DEF CallInv

LEMMA ConnectedCall ==
    ASSUME CallInv, Connected
    PROVE  CallInv'
<1>0. todo # <<>> /\ todo[1] = "connected" /\ Rest(todo) /\ client \in ClientType
  BY StepIs DEF Connected, CallInv, Types
<1>1. /\ todo' = Tail(todo) /\ waiting' = NoRequest
      /\ client' = [client EXCEPT !.connection = "ESTABLISHED", !.state = "CONNECTED"]
      /\ UNCHANGED <<calls, sockets, gone, toServer, toClient, age, server, stray>>
  BY DEF Connected, Succeeded
<1>2. Left(todo, 1)
  BY <1>0, StepsLeft, Zenon
<1>3. /\ Rest(todo') /\ (\A n \in 1 .. 13 : Left(todo', n) <=> Left(todo, n + 1))
      /\ \A x : Contains(todo', x) => Contains(todo, x)
  BY <1>0, <1>1, RestTail, Zenon
<1>4. \A n \in 1 .. 10 : ~Left(todo', n)
  <2>. SUFFICES ASSUME NEW n \in 1 .. 10, Left(todo', n) PROVE FALSE
    OBVIOUS
  <2>1. Left(todo, n + 1)
    BY <1>3
  <2>2. n + 1 = 1
    BY <1>2, <2>1, LeftOnce, Zenon
  <2>. QED
    BY <2>2
<1>5. client.connection # "CLOSED"
  <2>1. 1 \in 1 .. 9
    OBVIOUS
  <2>. QED
    BY <1>2, <2>1, Zenon DEF CallInv, Connecting
<1>6. client' \in ClientType /\ client'.connection = "ESTABLISHED" /\ client'.state = "CONNECTED"
  BY <1>0, <1>1, Zenon DEF ClientType
<1>7. Types'
  BY <1>1, <1>6 DEF CallInv, Types
<1>8. SocketsReleased' /\ NewClient' /\ (~server'.open => toServer' = <<>>)
  BY <1>1, <1>5, <1>6 DEF CallInv, SocketsReleased, NewClient
<1>9. Connecting'
  <2>1. \A n \in 1 .. 9 : n \in 1 .. 10
    OBVIOUS
  <2>. QED
    BY <1>4, <2>1, Zenon DEF Connecting
<1>10. Closing'
  BY <1>1, <1>3, Zenon DEF CallInv, Closing
<1>. QED
  BY <1>1, <1>3, <1>7, <1>8, <1>9, <1>10, Zenon DEF CallInv

LEMMA ClientCall ==
    ASSUME CallInv, ClientStep
    PROVE  CallInv'
BY ClientStepIs, FailingCall, OpenedCall, SkipRenewalCall, SendCall, CloseChannelCall, TookCall,
   BeginDisconnectCall, InitialiseCall, ConnectedCall, Zenon

-----------------------------------------------------------------------------
(* What a step of the server can be *)

\* The server answers the request at the head with the reply r.
Served(r) ==
    /\ server.open /\ toServer # <<>>
    /\ toServer' = Tail(toServer)
    /\ toClient' = Append(toClient, r)
    /\ age' = 0
    /\ server'.open
    /\ r \in ReplyType /\ r.id = toServer[1].id /\ r.auth = toServer[1].id
    /\ UNCHANGED <<client, todo, waiting, result, taken, calls, sockets, gone, stray>>

ServedHello ==
    /\ toServer[1].type = "HEL"
    /\ server' = [server EXCEPT !.hello = TRUE]
    /\ \E r : Served(r) /\ r.type = "ACK"

ServedOpen ==
    /\ toServer[1].type = "OPN"
    /\ server' = [server EXCEPT !.token = toServer[1].id, !.life = LifeTime]
    /\ \E r : Served(r) /\ r.type = "OPN" /\ r.good /\ r.token = toServer[1].id

ServedRenew ==
    /\ toServer[1].type = "RENEW" /\ server.token # NoToken
    /\ server' = Renewed(toServer[1])
    /\ \E r : Served(r) /\ r.type = "OPN" /\ r.good /\ r.token = server'.next

\* The service is carried out, or refused with a fault.
ServedMessage ==
    /\ toServer[1].type \in ServiceTypes
    /\ toServer[1].token \in {server.token, server.next} \ {NoToken}
    /\ \E r : /\ Served(r)
              /\ \/ /\ server' = SessionAfter(toServer[1], Revolved(toServer[1]))
                    /\ SessionFits(toServer[1]) /\ r.type \in {toServer[1].type, "Fault"}
                 \/ server' = Revolved(toServer[1]) /\ r.type = "Fault"

\* The server closes the connection.
Closed ==
    /\ server.open
    /\ server' = NoConnection
    /\ toServer' = <<>> /\ toClient' = toClient
    /\ age' \in {0, age}
    /\ UNCHANGED <<client, todo, waiting, result, taken, calls, sockets, gone, stray>>

LEMMA HeadType ==
    ASSUME Types, toServer # <<>>
    PROVE  Head(toServer) = toServer[1] /\ toServer[1] \in RequestType /\ Len(toServer) \in Nat \ {0}
<1>1. toServer \in Seq(RequestType)
  BY DEF Types
<1>. QED
  BY <1>1

LEMMA ReplyIs ==
    ASSUME NEW m \in RequestType, NEW type \in ReplyTypes
    PROVE  /\ Reply(m, type, TRUE) \in ReplyType /\ Reply(m, type, FALSE) \in ReplyType
           /\ Reply(m, type, TRUE).type = type /\ Reply(m, type, FALSE).type = type
           /\ Reply(m, type, TRUE).id = m.id /\ Reply(m, type, FALSE).id = m.id
           /\ Reply(m, type, TRUE).auth = m.id /\ Reply(m, type, FALSE).auth = m.id
           /\ Reply(m, type, TRUE).good /\ Reply(m, type, TRUE).token = m.id
BY DEF Reply, ReplyType, RequestType

LEMMA ServeIs ==
    ASSUME CallInv, server.open, toServer # <<>>, NEW s, s.open, NEW r \in ReplyType, Serve(s, <<r>>),
           r.id = toServer[1].id, r.auth = toServer[1].id
    PROVE  Served(r) /\ server' = s
<1>1. toClient \o <<r>> = Append(toClient, r)
  <2>1. toClient \in Seq(ReplyType)
    BY DEF CallInv, Types
  <2>. QED
    BY <2>1
<1>. QED
  BY <1>1 DEF Serve, Served

LEMMA ServeCloses ==
    ASSUME CallInv, server.open, Serve(NoConnection, <<>>)
    PROVE  Closed
<1>1. toClient \o <<>> = toClient
  <2>1. toClient \in Seq(ReplyType)
    BY DEF CallInv, Types
  <2>. QED
    BY <2>1
<1>2. ~NoConnection.open
  BY NoConnectionIs
<1>. QED
  BY <1>1, <1>2, Zenon DEF Serve, Closed

LEMMA RenewedIs ==
    ASSUME NEW m \in RequestType, server \in ServerType
    PROVE  /\ Renewed(m) \in ServerType /\ Renewed(m).open = server.open
           /\ Renewed(m).session = server.session /\ Renewed(m).auth = server.auth
<1>1. m.id \in Nat /\ LifeTime \in 0 .. LifeTime
  BY ClientAssumption DEF RequestType
<1>2. CASE server.next = NoToken
  BY <1>1, <1>2, Zenon DEF Renewed, ServerType
<1>3. CASE server.next # NoToken
  BY <1>3, ZenonT(30) DEF Renewed, ServerType
<1>. QED
  BY <1>2, <1>3

LEMMA RevolvedIs ==
    ASSUME NEW m \in RequestType, server \in ServerType
    PROVE  /\ Revolved(m) \in ServerType /\ Revolved(m).open = server.open
           /\ Revolved(m).session = server.session /\ Revolved(m).auth = server.auth
           /\ Revolved(m).again = server.again
<1>1. NoToken \in Nat /\ 0 \in 0 .. LifeTime
  BY ClientAssumption DEF NoToken
<1>2. CASE m.token = server.token
  BY <1>2 DEF Revolved, ServerType
<1>3. CASE m.token # server.token
  BY <1>1, <1>3, Zenon DEF Revolved, ServerType
<1>. QED
  BY <1>2, <1>3

\* A service leaves the tokens alone.
LEMMA SessionAfterIs ==
    ASSUME NEW m \in RequestType, NEW s \in ServerType
    PROVE  /\ SessionAfter(m, s) \in ServerType /\ SessionAfter(m, s).open = s.open
           /\ SessionAfter(m, s).token = s.token /\ SessionAfter(m, s).next = s.next
           /\ SessionAfter(m, s).life = s.life /\ SessionAfter(m, s).nextLife = s.nextLife
           /\ SessionAfter(m, s).again = s.again
<1>1. CASE m.type = "CreateSession"
  BY <1>1, Zenon DEF SessionAfter, ServerType, RequestType
<1>2. CASE m.type = "ActivateSession"
  BY <1>2 DEF SessionAfter, ServerType
<1>3. CASE m.type = "CloseSession"
  BY <1>3, Zenon DEF SessionAfter, ServerType
<1>4. CASE m.type \notin {"CreateSession", "ActivateSession", "CloseSession"}
  BY <1>4 DEF SessionAfter
<1>. QED
  BY <1>1, <1>2, <1>3, <1>4

LEMMA HandshakeIs ==
    ASSUME CallInv, ServeHandshake
    PROVE  ServedHello \/ ServedOpen \/ ServedRenew \/ Closed
<1>. DEFINE m == toServer[1]
<1>0. /\ server.open /\ toServer # <<>> /\ m \in RequestType /\ Head(toServer) = m /\ server \in ServerType
      /\ m.id \in Nat
  BY HeadType DEF ServeHandshake, CallInv, Types, RequestType
<1>1. CASE m.type = "HEL"
  <2>1. Serve([server EXCEPT !.hello = TRUE], <<Reply(m, "ACK", TRUE)>>)
    BY <1>0, <1>1 DEF ServeHandshake
  <2>2. [server EXCEPT !.hello = TRUE].open
    BY <1>0 DEF ServerType
  <2>3. Reply(m, "ACK", TRUE) \in ReplyType /\ Reply(m, "ACK", TRUE).type = "ACK"
        /\ Reply(m, "ACK", TRUE).id = m.id /\ Reply(m, "ACK", TRUE).auth = m.id
    <3>1. "ACK" \in ReplyTypes
      BY DEF ReplyTypes
    <3>. QED
      BY <1>0, <3>1, ReplyIs, Zenon
  <2>. QED
    BY <1>0, <1>1, <2>1, <2>2, <2>3, ServeIs, Zenon DEF ServedHello
<1>2. CASE m.type = "OPN"
  <2>. DEFINE s == [server EXCEPT !.token = m.id, !.life = LifeTime]
  <2>1. Serve(s, <<Reply(m, "OPN", TRUE)>>) \/ Serve(NoConnection, <<>>)
    BY <1>0, <1>2, Zenon DEF ServeHandshake
  <2>2. s.open
    BY <1>0 DEF ServerType
  <2>3. Reply(m, "OPN", TRUE) \in ReplyType /\ Reply(m, "OPN", TRUE).type = "OPN"
        /\ Reply(m, "OPN", TRUE).good /\ Reply(m, "OPN", TRUE).token = m.id
        /\ Reply(m, "OPN", TRUE).id = m.id /\ Reply(m, "OPN", TRUE).auth = m.id
    <3>1. "OPN" \in ReplyTypes
      BY DEF ReplyTypes
    <3>. QED
      BY <1>0, <3>1, ReplyIs, Zenon
  <2>4. CASE Serve(s, <<Reply(m, "OPN", TRUE)>>)
    BY <1>0, <1>2, <2>4, <2>2, <2>3, ServeIs, Zenon DEF ServedOpen
  <2>. QED
    BY <1>0, <2>1, <2>4, ServeCloses, Zenon
<1>3. CASE m.type = "RENEW"
  <2>1. CASE server.token = NoToken
    <3>1. Serve(NoConnection, <<>>)
      BY <1>0, <1>3, <2>1 DEF ServeHandshake
    <3>. QED
      BY <1>0, <3>1, ServeCloses
  <2>2. CASE server.token # NoToken
    <3>. DEFINE q == Reply(m, "OPN", TRUE)
                r == [q EXCEPT !.token = Renewed(m).next]
    <3>1. Serve(Renewed(m), <<r>>)
      BY <1>0, <1>3, <2>2 DEF ServeHandshake
    <3>2. Renewed(m).open /\ Renewed(m).next \in Nat
      BY <1>0, RenewedIs, Zenon DEF ServerType
    <3>3. q \in ReplyType /\ q.type = "OPN" /\ q.good /\ q.id = m.id /\ q.auth = m.id
      <4>1. "OPN" \in ReplyTypes
        BY DEF ReplyTypes
      <4>. QED
        BY <1>0, <4>1, ReplyIs, Zenon
    <3>. HIDE DEF q
    <3>4. /\ r \in ReplyType /\ r.type = "OPN" /\ r.good /\ r.id = m.id /\ r.auth = m.id
          /\ r.token = Renewed(m).next
      BY <3>2, <3>3 DEF ReplyType
    <3>. HIDE DEF r
    <3>5. Served(r) /\ server' = Renewed(m)
      BY <1>0, <3>1, <3>2, <3>4, ServeIs
    <3>6. r.good /\ r.token = server'.next
      BY <3>4, <3>5
    <3>. QED
      BY <1>3, <2>2, <3>4, <3>5, <3>6, Zenon DEF ServedRenew
  <2>. QED
    BY <2>1, <2>2
<1>4. CASE m.type = "CLO"
  <2>1. Serve(NoConnection, <<>>)
    BY <1>0, <1>4 DEF ServeHandshake
  <2>. QED
    BY <1>0, <2>1, ServeCloses
<1>5. CASE m.type \notin {"HEL", "OPN", "RENEW", "CLO"}
  BY <1>0, <1>5 DEF ServeHandshake
<1>. QED
  BY <1>1, <1>2, <1>3, <1>4, <1>5, Zenon

LEMMA MessageIs ==
    ASSUME CallInv, ServeMessage
    PROVE  ServedMessage \/ Closed
<1>. DEFINE m == toServer[1]
<1>0. /\ server.open /\ toServer # <<>> /\ m \in RequestType /\ Head(toServer) = m /\ server \in ServerType
      /\ m.type \in ServiceTypes
  BY HeadType DEF ServeMessage, CallInv, Types
<1>1. CASE m.token \notin {server.token, server.next} \ {NoToken}
  <2>1. Serve(NoConnection, <<>>)
    BY <1>0, <1>1, Zenon DEF ServeMessage
  <2>. QED
    BY <1>0, <2>1, ServeCloses
<1>2. CASE m.token \in {server.token, server.next} \ {NoToken}
  <2>0. \/ /\ SessionFits(m)
           /\ \E type \in {m.type, "Fault"} :
                Serve(SessionAfter(m, Revolved(m)), <<Reply(m, type, type # "Fault")>>)
        \/ Serve(Revolved(m), <<Reply(m, "Fault", FALSE)>>)
    BY <1>0, <1>2, Zenon DEF ServeMessage
  <2>1. /\ Revolved(m) \in ServerType /\ Revolved(m).open
        /\ SessionAfter(m, Revolved(m)).open
    BY <1>0, RevolvedIs, SessionAfterIs, Zenon
  <2>2. ASSUME NEW type \in {m.type, "Fault"}
        PROVE  LET r == Reply(m, type, type # "Fault")
               IN  r \in ReplyType /\ r.type = type /\ r.id = m.id /\ r.auth = m.id
    <3>1. type \in ReplyTypes
      BY <1>0 DEF ReplyTypes
    <3>. QED
      BY <1>0, <3>1 DEF Reply, ReplyType, RequestType
  <2>3. CASE Serve(Revolved(m), <<Reply(m, "Fault", FALSE)>>)
    <3>. DEFINE r == Reply(m, "Fault", FALSE)
    <3>1. r \in ReplyType /\ r.type = "Fault" /\ r.id = m.id /\ r.auth = m.id
      <4>1. "Fault" \in ReplyTypes
        BY DEF ReplyTypes
      <4>. QED
        BY <1>0, <4>1, ReplyIs, Zenon
    <3>. HIDE DEF r
    <3>2. Served(r) /\ server' = Revolved(m)
      BY <1>0, <2>1, <2>3, <3>1, ServeIs, Zenon DEF r
    <3>. QED
      BY <1>0, <1>2, <3>1, <3>2, Zenon DEF ServedMessage
  <2>4. ASSUME NEW type \in {m.type, "Fault"}, SessionFits(m),
               Serve(SessionAfter(m, Revolved(m)), <<Reply(m, type, type # "Fault")>>)
        PROVE  ServedMessage
    <3>. DEFINE r == Reply(m, type, type # "Fault")
    <3>1. r \in ReplyType /\ r.type = type /\ r.id = m.id /\ r.auth = m.id
      BY <2>2, Zenon
    <3>. HIDE DEF r
    <3>2. Served(r) /\ server' = SessionAfter(m, Revolved(m))
      BY <1>0, <2>1, <2>4, <3>1, ServeIs, Zenon DEF r
    <3>. QED
      BY <1>0, <1>2, <2>4, <3>1, <3>2, Zenon DEF ServedMessage
  <2>. QED
    BY <2>0, <2>3, <2>4, Zenon
<1>. QED
  BY <1>1, <1>2

LEMMA ServingIs ==
    ASSUME CallInv, Serving \/ ServerCloses
    PROVE  ServedHello \/ ServedOpen \/ ServedRenew \/ ServedMessage \/ Closed
<1>1. CASE ServerCloses
  <2>1. age' \in {0, age}
    BY <1>1 DEF ServerCloses
  <2>. QED
    BY <1>1, <2>1, Zenon DEF ServerCloses, Closed
<1>. QED
  BY <1>1, HandshakeIs, MessageIs, Zenon DEF Serving

\* The server's steps touch only the messages and its own state.
LEMMA ServerCall ==
    ASSUME CallInv, UNCHANGED <<client, todo, waiting, calls, sockets>>,
           gone' \in BOOLEAN, gone => gone', server' \in ServerType, toClient' \in Seq(ReplyType), toServer' \in Seq(RequestType),
           \A i \in 1 .. Len(toServer') : toServer'[i].type = "CloseSession" => gone,
           ~server'.open => toServer' = <<>>,
           stray' \in 0 .. MaxStray, age' \in 0 .. MaxDelay
    PROVE  CallInv'
<1>1. Types'
  BY DEF CallInv, Types
<1>2. Rest(todo') /\ SocketsReleased' /\ NewClient' /\ Connecting'
  BY DEF CallInv, SocketsReleased, NewClient, Connecting
<1>3. Closing'
  BY Zenon DEF CallInv, Closing
<1>4. waiting' # NoRequest => todo' # <<>> /\ waiting'.type = todo'[1] /\ client'.connection # "CLOSED"
  BY DEF CallInv
<1>. QED
  BY <1>1, <1>2, <1>3, <1>4, Zenon DEF CallInv

LEMMA ServedTypes ==
    ASSUME CallInv, NEW r, Served(r)
    PROVE  /\ toClient' \in Seq(ReplyType) /\ toServer' \in Seq(RequestType) /\ age' \in 0 .. MaxDelay
           /\ \A i \in 1 .. Len(toServer') : toServer'[i].type = "CloseSession" => gone
           /\ Len(toServer) \in Nat \ {0} /\ Len(toServer') = Len(toServer) - 1
           /\ \A i \in 1 .. Len(toServer') : i + 1 \in 1 .. Len(toServer) /\ toServer'[i] = toServer[i + 1]
           /\ toServer[1] \in RequestType /\ server \in ServerType
<1>1. toServer \in Seq(RequestType) /\ toClient \in Seq(ReplyType) /\ toServer # <<>> /\ server \in ServerType
  BY DEF CallInv, Types, Served
<1>2. toServer' = Tail(toServer) /\ toClient' = Append(toClient, r) /\ age' = 0 /\ r \in ReplyType
  BY DEF Served
<1>3. toClient' \in Seq(ReplyType) /\ toServer' \in Seq(RequestType) /\ age' \in 0 .. MaxDelay
  BY <1>1, <1>2, ClientAssumption
<1>4. Len(toServer) \in Nat \ {0} /\ toServer[1] \in RequestType /\ Len(toServer') = Len(toServer) - 1
  BY <1>1, <1>2
<1>5. \A i \in 1 .. Len(toServer') : i + 1 \in 1 .. Len(toServer) /\ toServer'[i] = toServer[i + 1]
  BY <1>1, <1>2
<1>6. \A i \in 1 .. Len(toServer') : toServer'[i].type = "CloseSession" => gone
  BY <1>5, Zenon DEF CallInv, Closing
<1>. QED
  BY <1>1, <1>3, <1>4, <1>5, <1>6, Zenon

LEMMA ServingCall ==
    ASSUME CallInv, ServedHello \/ ServedOpen \/ ServedRenew \/ ServedMessage
    PROVE  CallInv'
<1>1. PICK r : Served(r)
  BY Zenon DEF ServedHello, ServedOpen, ServedRenew, ServedMessage
<1>. DEFINE m == toServer[1]
<1>2. /\ toClient' \in Seq(ReplyType) /\ toServer' \in Seq(RequestType) /\ age' \in 0 .. MaxDelay
      /\ \A i \in 1 .. Len(toServer') : toServer'[i].type = "CloseSession" => gone
      /\ m \in RequestType /\ server \in ServerType
  BY <1>1, ServedTypes, Zenon
<1>3. server' \in ServerType
  <2>0. m.id \in Nat /\ LifeTime \in 0 .. LifeTime
    BY <1>2, ClientAssumption DEF RequestType
  <2>1. CASE ServedHello
    BY <1>2, <2>1, Zenon DEF ServedHello, ServerType
  <2>2. CASE ServedOpen
    BY <1>2, <2>0, <2>2, Zenon DEF ServedOpen, ServerType
  <2>3. CASE ServedRenew
    BY <1>2, <2>3, RenewedIs, Zenon DEF ServedRenew
  <2>4. CASE ServedMessage
    <3>1. Revolved(m) \in ServerType /\ SessionAfter(m, Revolved(m)) \in ServerType
      BY <1>2, RevolvedIs, SessionAfterIs, Zenon
    <3>. QED
      BY <2>4, <3>1, Zenon DEF ServedMessage
  <2>. QED
    BY <2>1, <2>2, <2>3, <2>4
<1>4. server'.open /\ UNCHANGED <<client, todo, waiting, calls, sockets, gone, stray>>
  BY <1>1 DEF Served
<1>5. stray' \in 0 .. MaxStray
  BY <1>4 DEF CallInv, Types
<1>. QED
  BY <1>2, <1>3, <1>4, <1>5, ServerCall DEF CallInv, Types

LEMMA ClosedCall ==
    ASSUME CallInv, Closed
    PROVE  CallInv'
<1>1. /\ toServer' = <<>> /\ toClient' = toClient /\ server' = NoConnection
      /\ UNCHANGED <<client, todo, waiting, calls, sockets, gone, stray>>
  BY DEF Closed
<1>2. age' \in 0 .. MaxDelay /\ stray' \in 0 .. MaxStray /\ toClient' \in Seq(ReplyType)
  BY <1>1, ClientAssumption DEF CallInv, Types, Closed
<1>3. toServer' \in Seq(RequestType) /\ 1 .. Len(toServer') = {}
  BY <1>1
<1>. QED
  BY <1>1, <1>2, <1>3, NoConnectionType, ServerCall DEF CallInv, Types

LEMMA OtherCall ==
    ASSUME CallInv, Cleanup \/ SessionExpires \/ PublishResponse
    PROVE  CallInv'
<1>1. /\ UNCHANGED <<client, todo, waiting, calls, sockets, toServer, age>>
      /\ server.open /\ gone' \in BOOLEAN /\ (gone => gone')
  BY DEF Cleanup, SessionExpires, PublishResponse, CallInv, Types
<1>2. /\ toServer' \in Seq(RequestType) /\ age' \in 0 .. MaxDelay
      /\ \A i \in 1 .. Len(toServer') : toServer'[i].type = "CloseSession" => gone
  BY <1>1 DEF CallInv, Types, Closing
<1>0. server \in ServerType /\ toClient \in Seq(ReplyType) /\ stray \in 0 .. MaxStray
  BY DEF CallInv, Types
<1>3. CASE Cleanup
  <2>1. server' \in ServerType /\ server'.open
    <3>1. NoToken \in Nat /\ 0 \in 0 .. LifeTime
      BY ClientAssumption DEF NoToken
    <3>. QED
      BY <1>0, <1>1, <1>3, <3>1, Zenon DEF Cleanup, ServerType
  <2>2. toClient' = toClient /\ stray' = stray
    BY <1>3 DEF Cleanup
  <2>. QED
    BY <1>0, <1>1, <1>2, <2>1, <2>2, ServerCall
<1>5. CASE SessionExpires
  <2>1. server' \in ServerType /\ server'.open
    <3>1. "none" \in {"none", "created", "activated"} /\ 0 \in Nat
      OBVIOUS
    <3>. QED
      BY <1>0, <1>1, <1>5, <3>1, Zenon DEF SessionExpires, ServerType
  <2>2. toClient' = toClient /\ stray' = stray
    BY <1>5 DEF SessionExpires
  <2>. QED
    BY <1>0, <1>1, <1>2, <2>1, <2>2, ServerCall
<1>4. CASE PublishResponse
  <2>. DEFINE r == [type |-> "Publish", id |-> 0, good |-> TRUE, token |-> NoToken, auth |-> 0]
  <2>1. r \in ReplyType
    BY DEF ReplyType, ReplyTypes, NoToken
  <2>2. toClient' = Append(toClient, r) /\ stray < MaxStray /\ stray' = stray + 1 /\ server' = server
    BY <1>4 DEF PublishResponse
  <2>. HIDE DEF r
  <2>3. toClient' \in Seq(ReplyType) /\ stray' \in 0 .. MaxStray
    BY <1>0, <2>1, <2>2, ClientAssumption
  <2>. QED
    BY <1>0, <1>1, <1>2, <2>2, <2>3, ServerCall
<1>. QED
  BY <1>3, <1>4, <1>5

\* What a tick leaves.
LEMMA TickIs ==
    ASSUME CallInv, Tick
    PROVE  /\ client' \in ClientType /\ client'.state = client.state /\ client'.connection = client.connection
           /\ client'.token = client.token /\ client'.auth = client.auth
           /\ client'.expires = OneLess(client.expires)
           /\ server' \in ServerType /\ server'.open = server.open /\ server'.session = server.session
           /\ server'.auth = server.auth /\ server'.token = server.token /\ server'.next = server.next
           /\ server'.again = server.again
           /\ server'.life = OneLess(server.life) /\ server'.nextLife = OneLess(server.nextLife)
           /\ age' \in 0 .. MaxDelay
<1>1. client \in ClientType /\ server \in ServerType /\ age \in 0 .. MaxDelay
  BY DEF CallInv, Types
<1>2. /\ client' = [client EXCEPT !.expires = OneLess(@)]
      /\ server' = [server EXCEPT !.life = OneLess(@), !.nextLife = OneLess(@)]
  BY DEF Tick
<1>3. /\ OneLess(client.expires) \in 0 .. LifeTime
      /\ OneLess(server.life) \in 0 .. LifeTime /\ OneLess(server.nextLife) \in 0 .. LifeTime
  BY <1>1, ClientAssumption DEF OneLess, ClientType, ServerType
<1>4. age' \in 0 .. MaxDelay
  BY <1>1, ClientAssumption DEF Tick
<1>. QED
  BY <1>1, <1>2, <1>3, <1>4, Zenon DEF ClientType, ServerType

LEMMA TickCall ==
    ASSUME CallInv, Tick
    PROVE  CallInv'
<1>1. /\ client' \in ClientType /\ client'.state = client.state /\ client'.connection = client.connection
      /\ client'.token = client.token /\ server' \in ServerType /\ server'.open = server.open
      /\ age' \in 0 .. MaxDelay /\ client'.expires = OneLess(client.expires)
  BY TickIs, Zenon
<1>2. UNCHANGED <<todo, waiting, calls, sockets, gone, toServer, toClient, stray>>
  BY DEF Tick
<1>3. Types'
  BY <1>1, <1>2 DEF CallInv, Types
<1>4. NewClient'
  <2>1. client.expires = 0 => client'.expires = 0
    BY <1>1 DEF OneLess
  <2>. QED
    BY <1>1, <1>2, <2>1, Zenon DEF CallInv, NewClient
<1>5. SocketsReleased'
  BY <1>1, <1>2 DEF CallInv, SocketsReleased
<1>6. Connecting' /\ Closing' /\ Rest(todo')
  BY <1>1, <1>2, Zenon DEF CallInv, Connecting, Closing
<1>. QED
  BY <1>1, <1>2, <1>3, <1>4, <1>5, <1>6 DEF CallInv

LEMMA InitCall == Init => CallInv
<1>. SUFFICES ASSUME Init PROVE CallInv
  OBVIOUS
<1>1. /\ client = FreshClient /\ todo = <<>> /\ waiting = NoRequest /\ server = NoConnection
      /\ toServer = <<>> /\ toClient = <<>>
      /\ sockets.open = 0 /\ sockets \in [open : Nat, lost : Nat, twice : BOOLEAN]
  BY DEF Init
<1>2. Types
  <2>1. <<>> \in Seq(RequestType) /\ <<>> \in Seq(ReplyType)
    OBVIOUS
  <2>3. gone \in BOOLEAN
    BY Zenon DEF Init
  <2>2. calls \in 0 .. MaxCalls /\ stray \in 0 .. MaxStray /\ age \in 0 .. MaxDelay
    BY ClientAssumption DEF Init
  <2>. QED
    BY <1>1, <2>1, <2>2, <2>3, FreshClientType, NoConnectionType, Zenon DEF Types
<1>3. Rest(todo) /\ (\A n \in 1 .. 10 : ~Left(todo, n)) /\ ~Contains(todo, "CloseSession")
  <2>1. Len(<<>>) = 0 /\ 1 .. Len(<<>>) = {} /\ <<>> \in Seq(Steps)
    OBVIOUS
  <2>2. EndOf(<<>>, RenewCall)
    BY <2>1, OtherCalls DEF EndOf
  <2>3. RenewCall \in Calls
    BY DEF Calls
  <2>4. Rest(todo) /\ ~Contains(todo, "CloseSession")
    BY <1>1, <2>1, <2>2, <2>3, Zenon DEF Rest, Contains
  <2>5. \A n \in 1 .. 10 : ~Left(todo, n)
    BY <1>1, <2>1 DEF Left
  <2>. QED
    BY <2>4, <2>5
<1>4. SocketsReleased /\ NewClient /\ Connecting
  BY <1>1, <1>3, FreshClientType DEF SocketsReleased, NewClient, Connecting
<1>5. Closing
  <2>1. 1 .. Len(toServer) = {}
    BY <1>1
  <2>. QED
    BY <1>3, <2>1, Zenon DEF Closing
<1>. QED
  BY <1>1, <1>2, <1>3, <1>4, <1>5, Zenon DEF CallInv

LEMMA NextCall ==
    ASSUME CallInv, [Next]_vars
    PROVE  CallInv'
<1>1. CASE UNCHANGED vars
  <2>1. UNCHANGED <<client, todo, waiting, calls, sockets, gone, toServer, toClient, age, server, stray>>
    BY <1>1 DEF vars
  <2>2. /\ server' \in ServerType /\ toClient' \in Seq(ReplyType) /\ toServer' \in Seq(RequestType)
        /\ \A i \in 1 .. Len(toServer') : toServer'[i].type = "CloseSession" => gone
        /\ ~server'.open => toServer' = <<>>
        /\ stray' \in 0 .. MaxStray /\ age' \in 0 .. MaxDelay /\ gone' \in BOOLEAN
    BY <2>1 DEF CallInv, Types, Closing
  <2>. QED
    BY <2>1, <2>2, ServerCall
<1>2. CASE Serving \/ ServerCloses
  BY <1>2, ServingIs, ServingCall, ClosedCall, Zenon
<1>. QED
  BY <1>1, <1>2, BeginCall, ClientCall, OtherCall, TickCall, Zenon DEF Next

LEMMA CallSound == Init /\ [][Next]_vars => []CallInv
BY InitCall, NextCall, PTL

-----------------------------------------------------------------------------
(* One request at a time *)

\* Besides the closing of a channel nothing is under way but the request whose
\* answer is awaited, or that answer, and publish responses behind it.
OneMessage ==
    /\ \A i \in 1 .. Len(toServer) :
          toServer[i].type # "CLO" => i = Len(toServer) /\ waiting = toServer[i] /\ toClient = <<>>
    /\ toClient # <<>> => /\ waiting # NoRequest /\ toClient[1].id = waiting.id
                          /\ toClient[1].type = "OPN" => waiting.type \in Handshake
                          /\ toClient[1].type \in ServiceTypes => toClient[1].type = waiting.type
    /\ \A i \in 2 .. Len(toClient) : toClient[i].type = "Publish"

OnlyClosing == \A i \in 1 .. Len(toServer) : toServer[i].type = "CLO"

LEMMA QuietOne ==
    ASSUME OnlyClosing, toClient = <<>>
    PROVE  OneMessage
<1>1. 2 .. Len(toClient) = {}
  OBVIOUS
<1>. QED
  BY <1>1, Zenon DEF OneMessage, OnlyClosing

LEMMA NoRequestNot ==
    ASSUME Types, NEW i \in 1 .. Len(toServer)
    PROVE  toServer[i] # NoRequest
<1>1. toServer \in Seq(RequestType)
  BY DEF Types
<1>2. toServer[i] \in RequestType
  BY <1>1
<1>. QED
  BY <1>2 DEF RequestType, SentTypes, ServiceTypes, NoRequest

\* Nothing is under way when no answer is awaited,
LEMMA IdleOne ==
    ASSUME Types, OneMessage, waiting = NoRequest
    PROVE  OnlyClosing /\ toClient = <<>>
BY NoRequestNot, Zenon DEF OneMessage, OnlyClosing

\* and no request when there is an answer.
LEMMA RepliedOne ==
    ASSUME OneMessage, toClient # <<>>
    PROVE  OnlyClosing
BY Zenon DEF OneMessage, OnlyClosing

\* The only answer is taken out of the socket.
LEMMA ReadAll ==
    ASSUME Types, Len(toClient) <= 1,
           NEW n \in 1 .. Len(toClient), toClient' = SubSeq(toClient, n + 1, Len(toClient))
    PROVE  toClient' = <<>> /\ toClient # <<>>
<1>1. toClient \in Seq(ReplyType) /\ Len(toClient) \in Nat
  BY DEF Types
<1>2. n = 1 /\ Len(toClient) = 1
  <2>. DEFINE k == Len(toClient)
  <2>1. k \in Nat /\ k <= 1 /\ n \in 1 .. k
    BY <1>1
  <2>. HIDE DEF k
  <2>2. n = 1 /\ k = 1
    BY <2>1
  <2>. QED
    BY <2>2 DEF k
<1>. QED
  BY <1>1, <1>2

LEMMA TookOne ==
    ASSUME CallInv, OneMessage, Len(toClient) <= 1, Took
    PROVE  OneMessage' /\ toClient' = <<>> /\ OnlyClosing /\ OnlyClosing'
<1>1. Types
  BY DEF CallInv
<1>2. PICK n \in 1 .. Len(toClient) : toClient' = SubSeq(toClient, n + 1, Len(toClient))
  BY DEF Took
<1>3. toClient' = <<>> /\ toClient # <<>>
  BY <1>1, <1>2, ReadAll
<1>4. OnlyClosing
  BY <1>3, RepliedOne
<1>5. OnlyClosing'
  BY <1>4 DEF Took, OnlyClosing
<1>6. OneMessage'
  <2>1. 2 .. Len(toClient') = {}
    BY <1>3
  <2>. QED
    BY <1>3, <1>5, <2>1, Zenon DEF OneMessage, OnlyClosing
<1>. QED
  BY <1>3, <1>4, <1>5, <1>6

LEMMA SendOne ==
    ASSUME CallInv, OneMessage, Send
    PROVE  OneMessage' /\ toClient' = <<>>
<1>1. Types /\ waiting = NoRequest /\ Request \in RequestType /\ waiting' = Request
  BY RequestIs DEF CallInv, Send
<1>2. OnlyClosing /\ toClient = <<>>
  BY <1>1, IdleOne
<1>3. toClient' = <<>> /\ toServer' = IF server.open THEN Append(toServer, Request) ELSE toServer
  BY <1>2 DEF Send, Sent
<1>4. toServer \in Seq(RequestType)
  BY <1>1 DEF Types
<1>5. \A i \in 1 .. Len(toServer') : toServer'[i].type # "CLO" => i = Len(toServer') /\ waiting' = toServer'[i]
  <2>. HIDE DEF Request
  <2>. SUFFICES ASSUME NEW i \in 1 .. Len(toServer'), toServer'[i].type # "CLO"
                PROVE  i = Len(toServer') /\ waiting' = toServer'[i]
    OBVIOUS
  <2>1. CASE server.open
    <3>1. toServer' = Append(toServer, Request)
      BY <1>3, <2>1
    <3>2. i \notin 1 .. Len(toServer)
      BY <1>2, <1>4, <3>1 DEF OnlyClosing
    <3>. QED
      BY <1>1, <1>4, <3>1, <3>2
  <2>2. CASE ~server.open
    BY <1>2, <1>3, <2>2 DEF OnlyClosing
  <2>. QED
    BY <2>1, <2>2
<1>6. 2 .. Len(toClient') = {}
  BY <1>3
<1>. QED
  BY <1>3, <1>5, <1>6, Zenon DEF OneMessage

\* The answer fits the request.
Fits(r) ==
    /\ toServer[1].type # "CLO"
    /\ r.type = "OPN" => toServer[1].type \in Handshake
    /\ r.type \in ServiceTypes => r.type = toServer[1].type

LEMMA ServedFits ==
    /\ ServedHello => \E r : Served(r) /\ Fits(r) /\ r.type = "ACK"
    /\ ServedOpen => \E r : Served(r) /\ Fits(r) /\ r.type = "OPN" /\ r.good /\ r.token = toServer[1].id
    /\ ServedRenew => \E r : Served(r) /\ Fits(r) /\ r.type = "OPN" /\ r.good /\ r.token = server'.next
    /\ ServedMessage => \E r : Served(r) /\ Fits(r) /\ r.type \in {toServer[1].type, "Fault"}
<1>1. "ACK" \notin ServiceTypes \cup {"OPN"} /\ "OPN" \notin ServiceTypes /\ "OPN" \in Handshake /\ "RENEW" \in Handshake
      /\ "Fault" \notin ServiceTypes \cup {"OPN"} /\ "CLO" \notin ServiceTypes
      /\ "HEL" # "CLO" /\ "OPN" # "CLO" /\ "RENEW" # "CLO"
  BY DEF ServiceTypes, Handshake
<1>2. ServedHello => \E r : Served(r) /\ Fits(r) /\ r.type = "ACK"
  BY <1>1 DEF ServedHello, Fits
<1>3. ServedOpen => \E r : Served(r) /\ Fits(r) /\ r.type = "OPN" /\ r.good /\ r.token = toServer[1].id
  BY <1>1 DEF ServedOpen, Fits
<1>4. ServedRenew => \E r : Served(r) /\ Fits(r) /\ r.type = "OPN" /\ r.good /\ r.token = server'.next
  BY <1>1 DEF ServedRenew, Fits
<1>5. ServedMessage => \E r : Served(r) /\ Fits(r) /\ r.type \in {toServer[1].type, "Fault"}
  <2>. SUFFICES ASSUME ServedMessage PROVE \E r : Served(r) /\ Fits(r) /\ r.type \in {toServer[1].type, "Fault"}
    OBVIOUS
  <2>1. PICK r : Served(r) /\ r.type \in {toServer[1].type, "Fault"}
    BY Zenon DEF ServedMessage
  <2>2. toServer[1].type \in ServiceTypes
    BY DEF ServedMessage
  <2>3. Fits(r)
    BY <1>1, <2>1, <2>2 DEF Fits
  <2>. QED
    BY <2>1, <2>3
<1>. QED
  BY <1>2, <1>3, <1>4, <1>5

LEMMA ServeOne ==
    ASSUME CallInv, OneMessage, NEW r, Served(r), Fits(r)
    PROVE  /\ OneMessage' /\ toServer' = <<>> /\ waiting = toServer[1] /\ todo # <<>> /\ todo[1] = toServer[1].type
           /\ Len(toClient') = 1 /\ toClient'[1] = r /\ toClient = <<>>
<1>1. /\ toServer \in Seq(RequestType) /\ toServer # <<>> /\ toServer' = Tail(toServer)
      /\ toClient' = Append(toClient, r) /\ waiting' = waiting
  BY DEF CallInv, Types, Served
<1>2. 1 \in 1 .. Len(toServer) /\ Len(toServer) \in Nat
  BY <1>1
<1>3. 1 = Len(toServer) /\ waiting = toServer[1] /\ toClient = <<>>
  BY <1>2, Zenon DEF OneMessage, Fits
<1>4. toServer' = <<>>
  BY <1>1, <1>3
<1>5. toClient' = <<r>>
  BY <1>1, <1>3
<1>6. Len(toClient') = 1 /\ toClient'[1] = r /\ 2 .. Len(toClient') = {} /\ 1 .. Len(toServer') = {}
  BY <1>4, <1>5
<1>7. waiting # NoRequest
  BY <1>2, <1>3, NoRequestNot DEF CallInv
<1>8. r.id = waiting.id
  BY <1>3 DEF Served
<1>9. OneMessage'
  BY <1>1, <1>3, <1>6, <1>7, <1>8, Zenon DEF OneMessage, Fits
<1>10. todo # <<>> /\ todo[1] = toServer[1].type
  BY <1>3, <1>7 DEF CallInv
<1>. QED
  BY <1>3, <1>4, <1>6, <1>9, <1>10

\* A publish response is behind the answer.
LEMMA PublishOne ==
    ASSUME CallInv, OneMessage, toClient # <<>>, PublishResponse
    PROVE  OneMessage' /\ toClient' # <<>> /\ toClient'[1] = toClient[1]
<1>. DEFINE r == [type |-> "Publish", id |-> 0, good |-> TRUE, token |-> NoToken, auth |-> 0]
<1>1. /\ toClient \in Seq(ReplyType) /\ toClient' = Append(toClient, r) /\ r.type = "Publish"
      /\ UNCHANGED <<waiting, toServer>>
  BY DEF CallInv, Types, PublishResponse
<1>. HIDE DEF r
<1>2. OnlyClosing
  BY RepliedOne
<1>3. toClient' # <<>> /\ toClient'[1] = toClient[1]
  BY <1>1
<1>4. \A i \in 2 .. Len(toClient') : toClient'[i].type = "Publish"
  <2>. SUFFICES ASSUME NEW i \in 2 .. Len(toClient') PROVE toClient'[i].type = "Publish"
    OBVIOUS
  <2>1. CASE i \in 2 .. Len(toClient)
    <3>1. toClient'[i] = toClient[i]
      BY <1>1, <2>1
    <3>. QED
      BY <2>1, <3>1, Zenon DEF OneMessage
  <2>2. CASE i \notin 2 .. Len(toClient)
    BY <1>1, <2>2
  <2>. QED
    BY <2>1, <2>2
<1>. QED
  BY <1>1, <1>2, <1>3, <1>4, ZenonT(30) DEF OneMessage, OnlyClosing

LEMMA ClosedOne ==
    ASSUME OneMessage, toServer' = <<>>, toClient' = toClient, waiting' = waiting
    PROVE  OneMessage'
<1>1. 1 .. Len(toServer') = {}
  OBVIOUS
<1>. QED
  BY <1>1, Zenon DEF OneMessage

LEMMA SameOne ==
    ASSUME OneMessage, UNCHANGED <<toServer, toClient, waiting>>
    PROVE  OneMessage'
BY DEF OneMessage

-----------------------------------------------------------------------------
(* The session of a connected client *)

HasSession == server.open => server.session = "activated" /\ server.auth = client.auth

\* While UA_Client_connect is at work one message is under way,
Alone == \A n \in 2 .. 9 : Left(todo, n) => OneMessage
\* and the server has no activated session before the client has asked for it.
NotYet ==
    /\ \A n \in 3 .. 9 : Left(todo, n) => Len(toClient) <= 1 /\ server.session # "activated"
    /\ Left(todo, 2) /\ toClient = <<>> => server.session # "activated"

\* The answers to CreateSession and ActivateSession, and the session between them, as
\* long as it does not time out.
Creating ==
    Left(todo, 4) /\ server.open /\ toClient # <<>> /\ toClient[1].type = "CreateSession" =>
       gone \/ toClient[1].auth = server.auth
Created ==
    Left(todo, 3) \/ Left(todo, 2) => (server.open => gone \/ server.auth = client.auth)
Activating ==
    Left(todo, 2) /\ server.open /\ toClient # <<>> /\ toClient[1].type = "ActivateSession" =>
       gone \/ server.session = "activated"

\* No request changes the session of a connected client but the one to close it.
Activated ==
    client.state = "CONNECTED" \/ Left(todo, 1) =>
       /\ gone \/ HasSession
       /\ \A i \in 1 .. Len(toServer) : toServer[i].type \notin {"CreateSession", "ActivateSession"}

SessionInv == Alone /\ NotYet /\ Creating /\ Created /\ Activating /\ Activated

\* Nothing but the last conjunct is left to show when no connect is at work.
LEMMA NoConnectSession ==
    ASSUME \A n \in 1 .. 9 : ~Left(todo', n), Activated'
    PROVE  SessionInv'
<1>1. /\ \A n \in 2 .. 9 : ~Left(todo', n)
      /\ \A n \in 3 .. 9 : ~Left(todo', n)
      /\ ~Left(todo', 2) /\ ~Left(todo', 3) /\ ~Left(todo', 4)
  OBVIOUS
<1>. QED
  BY <1>1, Zenon DEF SessionInv, Alone, NotYet, Creating, Created, Activating

\* The messages and the session stay as they are.
LEMMA KeptActivated ==
    ASSUME Activated, ~Left(todo', 1), client'.state = client.state, client'.auth = client.auth,
           UNCHANGED server, gone => gone',
           \A i \in 1 .. Len(toServer') : toServer'[i].type \in {"CreateSession", "ActivateSession"} =>
              i \in 1 .. Len(toServer) /\ toServer'[i] = toServer[i]
    PROVE  Activated'
BY Zenon DEF Activated, HasSession

LEMMA FailingSession ==
    ASSUME CallInv, SessionInv, FailingStep
    PROVE  SessionInv'
<1>1. PICK c \in ClientType :
         /\ Fails(c) /\ c.state = client.state
         /\ c.auth = client.auth \/ Contains(todo, "connected")
  BY Zenon DEF FailingStep
<1>2. \A n \in 1 .. 10 : ~Left(todo', n)
  BY <1>1, RestAfterFailure, Zenon DEF CallInv, Fails
<1>3. \A n \in 1 .. 9 : ~Left(todo', n)
  BY <1>2
<1>4. ~Left(todo', 1)
  BY <1>2
<1>5. UNCHANGED <<gone, toServer, server>>
  BY DEF FailingStep
<1>6. client'.state = "CONNECTED" => client.state = "CONNECTED" /\ client'.auth = client.auth
  BY <1>1 DEF Fails
<1>7. Activated'
  BY <1>4, <1>5, <1>6, Zenon DEF SessionInv, Activated, HasSession
<1>. QED
  BY <1>3, <1>7, NoConnectSession

LEMMA OpenedSession ==
    ASSUME CallInv, SessionInv, Opened
    PROVE  SessionInv'
<1>0. todo # <<>> /\ Left(todo, 10) /\ Rest(todo) /\ client \in ClientType /\ client.state = "READY"
  BY AtSocket DEF Opened, CallInv, Types
<1>1. /\ client' = [client EXCEPT !.connection = "OPENING"] /\ todo' = Tail(todo)
      /\ toServer' = <<>> /\ toClient' = <<>> /\ server' = [NoConnection EXCEPT !.open = TRUE]
  BY DEF Opened, Succeeded
<1>2. Left(todo', 9)
  <2>1. \A n \in 1 .. 13 : Left(todo', n) <=> Left(todo, n + 1)
    BY <1>0, <1>1, RestTail, Zenon
  <2>. QED
    BY <1>0, <2>1
<1>3. ~Left(todo', 1) /\ ~Left(todo', 2) /\ ~Left(todo', 3) /\ ~Left(todo', 4)
  BY <1>2 DEF Left
<1>4. client'.state = "READY"
  BY <1>0, <1>1 DEF ClientType
<1>5. server'.session = "none" /\ Len(toClient') = 0
  BY <1>1 DEF NoConnection
<1>6. OneMessage'
  <2>1. 1 .. Len(toServer') = {} /\ 2 .. Len(toClient') = {}
    BY <1>1
  <2>. QED
    BY <1>1, <2>1, Zenon DEF OneMessage
<1>7. NotYet'
  BY <1>3, <1>5 DEF NotYet
<1>. QED
  BY <1>3, <1>4, <1>6, <1>7, Zenon DEF SessionInv, Alone, Creating, Created, Activating, Activated

LEMMA SkipSession ==
    ASSUME CallInv, SessionInv, SkipRenewal
    PROVE  SessionInv'
<1>0. todo # <<>> /\ todo[1] = "RENEW" /\ Rest(todo) /\ Types
  BY StepIs DEF SkipRenewal, CallInv
<1>1. /\ todo' = Tail(todo) /\ client' = client /\ waiting = NoRequest /\ waiting' = NoRequest
      /\ UNCHANGED <<gone, toServer, toClient, server>>
  BY DEF SkipRenewal, Succeeded
<1>2. \A n \in 1 .. 10 : Left(todo', n) => n + 1 \in 1 .. 9 /\ Left(todo, n + 1)
  BY <1>0, <1>1, DoneLeft, SMTT(30)
<1>3. ~Left(todo, 2)
  BY <1>0, StepsLeft
<1>4. ~Left(todo', 1)
  BY <1>2, <1>3
<1>5. ASSUME NEW n \in 2 .. 9, Left(todo', n)
      PROVE  /\ OneMessage' /\ toClient' = <<>> /\ server'.session # "activated"
             /\ n = 2 => (server'.open => gone' \/ server'.auth = client'.auth)
             /\ n # 3
  <2>1. n + 1 \in 3 .. 9 /\ n + 1 \in 2 .. 9 /\ Left(todo, n + 1)
    BY <1>2, <1>5
  <2>2. OneMessage /\ server.session # "activated"
    BY <2>1 DEF SessionInv, Alone, NotYet
  <2>3. OneMessage'
    BY <1>1, <2>2, SameOne
  <2>4. toClient = <<>>
    BY <1>0, <1>1, <2>2, IdleOne
  <2>5. n = 2 => (server.open => gone \/ server.auth = client.auth)
    BY <2>1 DEF SessionInv, Created
  <2>6. n # 3
    BY <1>0, <2>1, StepsLeft
  <2>. QED
    BY <1>1, <2>2, <2>3, <2>4, <2>5, <2>6
<1>6. \A i \in 1 .. Len(toServer') : i \in 1 .. Len(toServer) /\ toServer'[i] = toServer[i]
  BY <1>1
<1>7. Activated'
  BY <1>1, <1>4, Zenon DEF SessionInv, Activated, HasSession
<1>8. Alone'
  BY <1>5, Zenon DEF Alone
<1>9. NotYet'
  <2>1. ASSUME NEW n \in 3 .. 9, Left(todo', n)
        PROVE  Len(toClient') <= 1 /\ server'.session # "activated"
    <3>1. toClient' = <<>> /\ server'.session # "activated"
      BY <1>5, <2>1
    <3>2. Len(<<>>) <= 1
      OBVIOUS
    <3>. QED
      BY <3>1, <3>2
  <2>2. Left(todo', 2) => server'.session # "activated"
    BY <1>5
  <2>. QED
    BY <2>1, <2>2, Zenon DEF NotYet
<1>10. Creating' /\ Created' /\ Activating'
  <2>1. Left(todo', 4) => toClient' = <<>>
    BY <1>5
  <2>2. Left(todo', 2) => toClient' = <<>> /\ (server'.open => gone' \/ server'.auth = client'.auth)
    BY <1>5
  <2>3. ~Left(todo', 3)
    BY <1>5
  <2>. QED
    BY <2>1, <2>2, <2>3, Zenon DEF Creating, Created, Activating
<1>. QED
  BY <1>7, <1>8, <1>9, <1>10 DEF SessionInv

LEMMA SendSession ==
    ASSUME CallInv, SessionInv, Send
    PROVE  SessionInv'
<1>0. Sent /\ Rest(todo)
  BY DEF Send, CallInv
<1>1. /\ todo # <<>> /\ Request \in RequestType /\ Request.type = todo[1] /\ waiting = NoRequest
      /\ client' = [client EXCEPT !.requestId = Request.id] /\ client \in ClientType
  BY <1>0, RequestIs DEF Send, CallInv, Types
<1>2. client'.state = client.state /\ client'.auth = client.auth
  BY <1>1 DEF ClientType
<1>3. todo' = todo /\ UNCHANGED <<gone, server, toClient>>
  BY <1>0 DEF Send, Sent
<1>4. ASSUME NEW n \in 2 .. 9, Left(todo, n)
      PROVE  OneMessage' /\ toClient' = <<>>
  <2>1. OneMessage
    BY <1>4, Zenon DEF SessionInv, Alone
  <2>. QED
    BY <2>1, SendOne
<1>5. Alone' /\ NotYet' /\ Created'
  BY <1>2, <1>3, <1>4, Zenon DEF SessionInv, Alone, NotYet, Created
<1>6. Creating' /\ Activating'
  <2>1. 2 \in 2 .. 9 /\ 4 \in 2 .. 9
    OBVIOUS
  <2>. QED
    BY <1>3, <1>4, <2>1, Zenon DEF Creating, Activating
<1>7. Activated'
  <2>. SUFFICES ASSUME client'.state = "CONNECTED" \/ Left(todo', 1)
                PROVE  /\ gone' \/ HasSession'
                       /\ \A i \in 1 .. Len(toServer') : toServer'[i].type \notin {"CreateSession", "ActivateSession"}
    BY Zenon DEF Activated
  <2>1. client.state = "CONNECTED" \/ Left(todo, 1)
    BY <1>2, <1>3
  <2>2. /\ gone' \/ HasSession'
        /\ \A i \in 1 .. Len(toServer) : toServer[i].type \notin {"CreateSession", "ActivateSession"}
    BY <1>2, <1>3, <2>1, Zenon DEF SessionInv, Activated, HasSession
  <2>3. Request.type \notin {"CreateSession", "ActivateSession"}
    <3>1. CASE Left(todo, 1)
      BY <1>0, <1>1, <3>1, StepsLeft
    <3>2. CASE client.state = "CONNECTED"
      <4>1. ~Left(todo, 4) /\ ~Left(todo, 2)
        BY <3>2 DEF CallInv, Connecting
      <4>. QED
        BY <1>0, <1>1, <4>1, StepsLeft
    <3>. QED
      BY <2>1, <3>1, <3>2
  <2>4. toServer \in Seq(RequestType) /\ toServer' \in {Append(toServer, Request), toServer}
    BY <1>0 DEF CallInv, Types, Sent
  <2>5. \A i \in 1 .. Len(toServer') : toServer'[i].type \notin {"CreateSession", "ActivateSession"}
    <3>. HIDE DEF Request
    <3>. QED
      BY <1>1, <2>2, <2>3, <2>4
  <2>. QED
    BY <2>2, <2>5
<1>. QED
  BY <1>5, <1>6, <1>7 DEF SessionInv

LEMMA CloseChannelSession ==
    ASSUME CallInv, SessionInv, CloseSecureChannel
    PROVE  SessionInv'
<1>0. Sent /\ Rest(todo)
  BY DEF CloseSecureChannel, CallInv
<1>1. /\ todo # <<>> /\ todo[1] = "CLO" /\ Request \in RequestType /\ Request.type = "CLO"
      /\ client' = [client EXCEPT !.requestId = Request.id] /\ client \in ClientType
      /\ todo' = Tail(todo)
  BY <1>0, RequestIs DEF CloseSecureChannel, CallInv, Types, Succeeded
<1>2. client'.state = client.state /\ client'.auth = client.auth
  BY <1>1 DEF ClientType
<1>3. UNCHANGED <<gone, server, toClient>>
  BY <1>0 DEF Sent
<1>4. \A n \in 1 .. 10 : ~Left(todo', n)
  <2>1. \A n \in 1 .. 11 : ~Left(todo, n)
    BY <1>0, <1>1, StepsLeft, Zenon
  <2>2. \A n \in 1 .. 10 : Left(todo', n) => n + 1 \in 1 .. 9 /\ Left(todo, n + 1)
    BY <1>0, <1>1, DoneLeft
  <2>. QED
    BY <2>1, <2>2
<1>5. ~Left(todo', 1) /\ \A n \in 1 .. 9 : ~Left(todo', n)
  BY <1>4
<1>6. toServer \in Seq(RequestType) /\ toServer' \in {Append(toServer, Request), toServer}
  BY <1>0 DEF CallInv, Types, Sent
<1>7. \A i \in 1 .. Len(toServer') : toServer'[i].type \in {"CreateSession", "ActivateSession"} =>
         i \in 1 .. Len(toServer) /\ toServer'[i] = toServer[i]
  <2>. HIDE DEF Request
  <2>. QED
    BY <1>1, <1>6
<1>8. Activated'
  BY <1>2, <1>3, <1>5, <1>7, KeptActivated DEF SessionInv
<1>. QED
  BY <1>5, <1>8, NoConnectSession

\* The other steps of a client that is not connecting.
LEMMA ApartSession ==
    ASSUME CallInv, SessionInv, Application \/ BeginDisconnect
    PROVE  SessionInv'
<1>1. \A n \in 1 .. 9 : ~Left(todo', n)
  <2>1. CASE BeginDisconnect
    <3>1. todo # <<>> /\ todo[1] = "disconnect" /\ Rest(todo) /\ todo' = DisconnectSteps \o Tail(todo)
      BY <2>1, StepIs DEF BeginDisconnect, CallInv
    <3>2. \A n \in 1 .. 10 : ~Left(todo', n)
      BY <3>1, RestDisconnect, Zenon
    <3>. QED
      BY <3>2
  <2>2. CASE Application
    <3>1. PICK s \in {<<>>, ConnectSteps, ResetSteps \o ConnectSteps, Service("Read"), <<"RENEW">>,
                      <<"disconnect">>, ResetSteps} : todo' = s
      <4>1. CASE Connect
        BY <4>1 DEF Connect, Begin
      <4>2. CASE CallService \/ ManuallyRenew \/ Disconnect \/ Reset
        BY <4>2, Zenon DEF CallService, ManuallyRenew, Disconnect, Reset, Begin
      <4>. QED
        BY <2>2, <4>1, <4>2, Zenon DEF Application
    <3>. QED
      BY <3>1, RestBegin, Zenon
  <2>. QED
    BY <2>1, <2>2
<1>2. UNCHANGED <<client, toServer, toClient, server>> /\ (gone => gone')
  <2>1. CASE Application
    <3>1. PICK s : Begin(s) /\ UNCHANGED <<client, gone>>
      BY <2>1, Zenon DEF Application, Connect, CallService, ManuallyRenew, Disconnect, Reset
    <3>. QED
      BY <3>1 DEF Begin
  <2>2. CASE BeginDisconnect
    BY <2>2, Zenon DEF BeginDisconnect
  <2>. QED
    BY <2>1, <2>2
<1>3. Activated'
  <2>1. ~Left(todo', 1)
    BY <1>1
  <2>. QED
    BY <1>2, <2>1, Zenon DEF SessionInv, Activated, HasSession
<1>. QED
  BY <1>1, <1>3, NoConnectSession

LEMMA InitialiseSession ==
    ASSUME CallInv, SessionInv, Initialise
    PROVE  SessionInv'
<1>0. todo # <<>> /\ todo[1] = "init" /\ Rest(todo) /\ todo' = Tail(todo) /\ client' = FreshClient
  BY StepIs DEF Initialise, CallInv, Succeeded
<1>1. \A n \in 1 .. 13 : Left(todo', n) <=> Left(todo, n + 1)
  BY <1>0, RestTail, Zenon
<1>2. \A n \in 1 .. 9 : ~Left(todo', n)
  <2>. SUFFICES ASSUME NEW n \in 1 .. 9, Left(todo', n) PROVE FALSE
    OBVIOUS
  <2>1. Left(todo, n + 1)
    BY <1>1
  <2>2. Left(todo, 11)
    BY <1>0, <2>1, StepsLeft, Zenon DEF Left
  <2>3. n + 1 = 11
    BY <2>1, <2>2, LeftOnce, Zenon
  <2>. QED
    BY <2>3
<1>3. Activated'
  <2>1. ~Left(todo', 1) /\ client'.state # "CONNECTED"
    BY <1>0, <1>2, FreshClientType
  <2>. QED
    BY <2>1, Zenon DEF Activated
<1>. QED
  BY <1>2, <1>3, NoConnectSession

LEMMA ConnectedSession ==
    ASSUME CallInv, SessionInv, Connected
    PROVE  SessionInv'
<1>0. todo # <<>> /\ todo[1] = "connected" /\ Rest(todo) /\ client \in ClientType
  BY StepIs DEF Connected, CallInv, Types
<1>1. /\ todo' = Tail(todo)
      /\ client' = [client EXCEPT !.connection = "ESTABLISHED", !.state = "CONNECTED"]
      /\ UNCHANGED <<gone, toServer, toClient, server>>
  BY DEF Connected, Succeeded
<1>2. Left(todo, 1)
  BY <1>0, StepsLeft, Zenon
<1>3. \A n \in 1 .. 9 : ~Left(todo', n)
  <2>1. \A n \in 1 .. 13 : Left(todo', n) <=> Left(todo, n + 1)
    BY <1>0, <1>1, RestTail, Zenon
  <2>. SUFFICES ASSUME NEW n \in 1 .. 9, Left(todo', n) PROVE FALSE
    OBVIOUS
  <2>2. Left(todo, n + 1)
    BY <2>1
  <2>3. n + 1 = 1
    BY <1>2, <2>2, LeftOnce, Zenon
  <2>. QED
    BY <2>3
<1>4. client'.auth = client.auth
  BY <1>0, <1>1 DEF ClientType
<1>5. Activated'
  BY <1>1, <1>2, <1>4, Zenon DEF SessionInv, Activated, HasSession
<1>. QED
  BY <1>3, <1>5, NoConnectSession

LEMMA TookSession ==
    ASSUME CallInv, SessionInv, TookAck \/ TookOpen \/ TookResponse
    PROVE  SessionInv'
<1>0. Took /\ Rest(todo) /\ Types
  BY DEF TookAck, TookOpen, TookResponse, CallInv
<1>1. /\ todo # <<>> /\ todo[1] \in SentTypes /\ toClient[1] \in ReplyType /\ client \in ClientType
      /\ toClient # <<>> /\ todo' = Tail(todo)
      /\ UNCHANGED <<gone, toServer, server>>
  BY <1>0, TookReply DEF RequestType, Took
<1>2. todo[1] \notin {"init", "socket", "connected"}
  BY <1>1 DEF SentTypes, ServiceTypes
<1>3. \A n \in 1 .. 10 : Left(todo', n) => n + 1 \in 1 .. 9 /\ Left(todo, n + 1)
  BY <1>0, <1>1, <1>2, DoneLeft
<1>4. client'.state = client.state
  BY <1>1, Zenon DEF ClientType, TookAck, TookOpen, TookResponse
<1>5. ~Left(todo, 4) => client'.auth = client.auth
  <2>1. ~Left(todo, 4) => todo[1] # "CreateSession"
    BY <1>0, <1>1, StepsLeft, Zenon
  <2>. QED
    BY <1>1, <2>1, Zenon DEF ClientType, TookAck, TookOpen, TookResponse
<1>6. ASSUME NEW n \in 2 .. 9, Left(todo', n)
      PROVE  /\ OneMessage' /\ toClient' = <<>> /\ server'.session # "activated"
             /\ n + 1 \in 3 .. 9 /\ Left(todo, n + 1)
  <2>1. n + 1 \in 3 .. 9 /\ n + 1 \in 2 .. 9 /\ Left(todo, n + 1)
    BY <1>3, <1>6
  <2>2. OneMessage /\ Len(toClient) <= 1 /\ server.session # "activated"
    BY <2>1, Zenon DEF SessionInv, Alone, NotYet
  <2>3. OneMessage' /\ toClient' = <<>>
    BY <1>0, <2>2, TookOne
  <2>. QED
    BY <1>1, <2>1, <2>2, <2>3
<1>7. Alone'
  BY <1>6, Zenon DEF Alone
<1>8. NotYet'
  <2>1. ASSUME NEW n \in 3 .. 9, Left(todo', n)
        PROVE  Len(toClient') <= 1 /\ server'.session # "activated"
    <3>1. toClient' = <<>> /\ server'.session # "activated"
      BY <1>6, <2>1
    <3>2. Len(<<>>) <= 1
      OBVIOUS
    <3>. QED
      BY <3>1, <3>2
  <2>2. Left(todo', 2) => server'.session # "activated"
    BY <1>6
  <2>. QED
    BY <2>1, <2>2, Zenon DEF NotYet
<1>9. Creating' /\ Activating'
  <2>1. 2 \in 2 .. 9 /\ 4 \in 2 .. 9
    OBVIOUS
  <2>. QED
    BY <1>6, <2>1, Zenon DEF Creating, Activating
<1>10. Created'
  <2>1. CASE Left(todo', 3)
    <3>1. Left(todo, 4)
      BY <1>3, <2>1
    <3>2. todo[1] = "CreateSession"
      BY <1>0, <1>1, <3>1, StepsLeft, Zenon
    <3>3. /\ toClient[1].type = "CreateSession" /\ client' = [client EXCEPT !.auth = toClient[1].auth]
      BY <3>2 DEF TookAck, TookOpen, TookResponse, Handshake
    <3>4. client'.auth = toClient[1].auth
      BY <1>1, <3>3 DEF ClientType
    <3>. QED
      BY <1>1, <3>1, <3>3, <3>4, Zenon DEF SessionInv, Creating, Created
  <2>2. CASE Left(todo', 2)
    <3>1. Left(todo, 3) /\ ~Left(todo, 4)
      BY <1>3, <2>2 DEF Left
    <3>. QED
      BY <1>1, <1>5, <3>1, Zenon DEF SessionInv, Created
  <2>. QED
    BY <2>1, <2>2, Zenon DEF Created
<1>11. Activated'
  <2>1. CASE Left(todo', 1)
    <3>1. Left(todo, 2) /\ ~Left(todo, 4)
      BY <1>3, <2>1 DEF Left
    <3>2. todo[1] = "ActivateSession"
      BY <1>0, <1>1, <3>1, StepsLeft, Zenon
    <3>3. toClient[1].type = "ActivateSession"
      BY <3>2 DEF TookAck, TookOpen, TookResponse, Handshake
    <3>4. gone \/ HasSession'
      BY <1>1, <1>5, <3>1, <3>3, Zenon DEF SessionInv, Created, Activating, HasSession
    <3>5. OnlyClosing
      <4>1. 2 \in 2 .. 9
        OBVIOUS
      <4>. QED
        BY <1>1, <3>1, <4>1, RepliedOne, Zenon DEF SessionInv, Alone
    <3>6. "CLO" \notin {"CreateSession", "ActivateSession"}
      OBVIOUS
    <3>. QED
      BY <1>1, <3>4, <3>5, <3>6, Zenon DEF Activated, OnlyClosing
  <2>2. CASE ~Left(todo', 1)
    <3>. SUFFICES ASSUME client'.state = "CONNECTED"
                  PROVE  Activated'
      BY <2>2, Zenon DEF Activated
    <3>1. ~Left(todo, 4)
      BY <1>4 DEF CallInv, Connecting
    <3>. QED
      BY <1>1, <1>4, <1>5, <3>1, Zenon DEF SessionInv, Activated, HasSession
  <2>. QED
    BY <2>1, <2>2
<1>. QED
  BY <1>7, <1>8, <1>9, <1>10, <1>11 DEF SessionInv

LEMMA ClientSession ==
    ASSUME CallInv, SessionInv, ClientStep
    PROVE  SessionInv'
BY ClientStepIs, FailingSession, OpenedSession, SkipSession, SendSession, CloseChannelSession, TookSession,
   ApartSession, InitialiseSession, ConnectedSession, ZenonT(30)

\* What the server does to the session for the client's request.
LEMMA ServedIs ==
    ASSUME CallInv, ServedHello \/ ServedOpen \/ ServedRenew \/ ServedMessage
    PROVE  /\ toServer[1].type \notin {"CreateSession", "CloseSession"} => server'.auth = server.auth
           /\ toServer[1].type \notin {"CreateSession", "ActivateSession", "CloseSession"} =>
                 server'.session = server.session
           /\ server'.session = "activated" => server.session = "activated" \/ toServer[1].type = "ActivateSession"
           /\ \E r : /\ Served(r) /\ Fits(r)
                     /\ r.type = "CreateSession" => r.auth = server'.auth
                     /\ r.type = "ActivateSession" => server'.session = "activated"
<1>. DEFINE m == toServer[1]
<1>0. server \in ServerType /\ m \in RequestType
  <2>1. PICK r : Served(r)
    BY Zenon DEF ServedHello, ServedOpen, ServedRenew, ServedMessage
  <2>. QED
    BY <2>1, ServedTypes, Zenon
<1>1. CASE ServedHello \/ ServedOpen \/ ServedRenew
  <2>1. server'.auth = server.auth /\ server'.session = server.session
    <3>1. CASE ServedHello
      BY <1>0, <3>1 DEF ServedHello, ServerType
    <3>2. CASE ServedOpen
      BY <1>0, <3>2, Zenon DEF ServedOpen, ServerType
    <3>3. CASE ServedRenew
      BY <1>0, <3>3, RenewedIs, Zenon DEF ServedRenew
    <3>. QED
      BY <1>1, <3>1, <3>2, <3>3
  <2>2. \E r : Served(r) /\ Fits(r) /\ r.type \in {"ACK", "OPN"}
    BY <1>1, ServedFits
  <2>. QED
    BY <2>1, <2>2
<1>2. CASE ServedMessage
  <2>1. Revolved(m) \in ServerType /\ Revolved(m).session = server.session /\ Revolved(m).auth = server.auth
    BY <1>0, RevolvedIs, Zenon
  <2>. DEFINE s == Revolved(m)
  <2>2. /\ m.type = "CreateSession" => SessionAfter(m, s).session = "created" /\ SessionAfter(m, s).auth = m.id
        /\ m.type = "ActivateSession" => SessionAfter(m, s).session = "activated" /\ SessionAfter(m, s).auth = s.auth
        /\ m.type = "CloseSession" => SessionAfter(m, s).session = "none"
        /\ m.type \notin {"CreateSession", "ActivateSession", "CloseSession"} => SessionAfter(m, s) = s
    <3>1. s \in ServerType
      BY <2>1
    <3>. HIDE DEF s
    <3>. QED
      BY <3>1 DEF SessionAfter, ServerType
  <2>3. PICK r : /\ Served(r)
                 /\ \/ server' = SessionAfter(m, s) /\ r.type \in {m.type, "Fault"}
                    \/ server' = s /\ r.type = "Fault"
    BY <1>2, ZenonT(30) DEF ServedMessage
  <2>4. r.auth = m.id /\ m.type \in ServiceTypes
    BY <1>2, <2>3 DEF Served, ServedMessage
  <2>5. Fits(r)
    BY <2>3, <2>4, ZenonT(30) DEF Fits, ServiceTypes
  <2>. HIDE DEF s, m
  <2>6. CASE server' = s
    <3>1. server'.session = server.session /\ server'.auth = server.auth
      BY <2>1, <2>6 DEF s
    <3>2. CASE r.type = "Fault"
      BY <2>3, <2>5, <3>1, <3>2, ZenonT(30) DEF m
    <3>3. CASE r.type # "Fault"
      <4>1. server' = SessionAfter(m, s) /\ r.type = m.type
        BY <2>3, <3>3
      <4>2. m.type = "CreateSession" => r.auth = server'.auth
        BY <2>2, <2>4, <4>1
      <4>3. m.type = "ActivateSession" => server'.session = "activated"
        BY <2>2, <4>1
      <4>. QED
        BY <2>3, <2>5, <3>1, <4>1, <4>2, <4>3 DEF m
    <3>. QED
      BY <3>2, <3>3
  <2>7. CASE server' = SessionAfter(m, s)
    <3>1. r.type \in {m.type, "Fault"}
      BY <2>3
    <3>2. r.type = "CreateSession" => r.auth = server'.auth
      BY <2>2, <2>4, <2>7, <3>1
    <3>3. r.type = "ActivateSession" => server'.session = "activated"
      BY <2>2, <2>7, <3>1
    <3>4. m.type \notin {"CreateSession", "CloseSession"} => server'.auth = server.auth
      BY <2>1, <2>2, <2>7 DEF s
    <3>5. m.type \notin {"CreateSession", "ActivateSession", "CloseSession"} => server'.session = server.session
      BY <2>1, <2>2, <2>7 DEF s
    <3>6. server'.session = "activated" => server.session = "activated" \/ m.type = "ActivateSession"
      BY <2>2, <2>7, <3>5
    <3>. QED
      BY <2>3, <2>5, <3>2, <3>3, <3>4, <3>5, <3>6, ZenonT(30) DEF m
  <2>. QED
    BY <2>3, <2>6, <2>7
<1>. QED
  BY <1>1, <1>2

LEMMA ServedSession ==
    ASSUME CallInv, SessionInv, ServedHello \/ ServedOpen \/ ServedRenew \/ ServedMessage
    PROVE  SessionInv'
<1>. DEFINE m == toServer[1]
<1>1. PICK r : /\ Served(r) /\ Fits(r)
               /\ r.type = "CreateSession" => r.auth = server'.auth
               /\ r.type = "ActivateSession" => server'.session = "activated"
  BY ServedIs, Zenon
<1>2. /\ m.type \notin {"CreateSession", "CloseSession"} => server'.auth = server.auth
      /\ m.type \notin {"CreateSession", "ActivateSession", "CloseSession"} => server'.session = server.session
      /\ server'.session = "activated" => server.session = "activated" \/ m.type = "ActivateSession"
  BY ServedIs, Zenon
<1>3. todo' = todo /\ client' = client /\ UNCHANGED <<waiting, gone>> /\ server.open
  BY <1>1 DEF Served
<1>4. Rest(todo)
  BY DEF CallInv
<1>5. ASSUME NEW n \in 2 .. 9, Left(todo, n)
      PROVE  /\ OneMessage' /\ todo # <<>> /\ todo[1] = m.type /\ Len(toClient') = 1 /\ toClient'[1] = r
  <2>1. OneMessage
    BY <1>5, Zenon DEF SessionInv, Alone
  <2>. QED
    BY <1>1, <2>1, ServeOne
<1>6. Alone'
  BY <1>3, <1>5, Zenon DEF Alone
<1>7. NotYet'
  <2>1. ASSUME NEW n \in 3 .. 9, Left(todo', n)
        PROVE  Len(toClient') <= 1 /\ server'.session # "activated"
    <3>1. n \in 2 .. 9 /\ Left(todo, n) /\ n # 2
      BY <1>3, <2>1
    <3>2. todo # <<>> /\ todo[1] = m.type /\ Len(toClient') = 1
      BY <1>5, <3>1, Zenon
    <3>3. todo[1] # "ActivateSession"
      BY <1>4, <3>1, <3>2, StepsLeft, LeftOnce, Zenon
    <3>4. server.session # "activated"
      BY <2>1, <3>1, Zenon DEF SessionInv, NotYet
    <3>5. server'.session # "activated"
      BY <1>2, <3>2, <3>3, <3>4
    <3>. QED
      BY <3>2, <3>5
  <2>2. ~(Left(todo', 2) /\ toClient' = <<>>)
    <3>1. Left(todo', 2) => Len(toClient') = 1
      BY <1>3, <1>5
    <3>2. Len(<<>>) # 1
      OBVIOUS
    <3>. QED
      BY <3>1, <3>2, Zenon
  <2>. QED
    BY <2>1, <2>2, Zenon DEF NotYet
<1>8. Creating' /\ Activating'
  <2>1. 2 \in 2 .. 9 /\ 4 \in 2 .. 9
    OBVIOUS
  <2>. QED
    BY <1>1, <1>3, <1>5, <2>1, Zenon DEF Creating, Activating
<1>9. Created'
  <2>. SUFFICES ASSUME Left(todo, 3) \/ Left(todo, 2)
                PROVE  gone \/ server'.auth = client.auth
    BY <1>3, Zenon DEF Created
  <2>1. todo # <<>> /\ todo[1] = m.type
    BY <1>5
  <2>2. todo[1] \in {"RENEW", "ActivateSession"}
    BY <1>4, <2>1, StepsLeft
  <2>3. server'.auth = server.auth
    BY <1>2, <2>1, <2>2
  <2>. QED
    BY <1>3, <2>3, Zenon DEF SessionInv, Created
<1>10. Activated'
  <2>. SUFFICES ASSUME client.state = "CONNECTED" \/ Left(todo, 1)
                PROVE  /\ gone \/ HasSession'
                       /\ \A i \in 1 .. Len(toServer') : toServer'[i].type \notin {"CreateSession", "ActivateSession"}
    BY <1>3, Zenon DEF Activated
  <2>1. /\ gone \/ HasSession
        /\ \A i \in 1 .. Len(toServer) : toServer[i].type \notin {"CreateSession", "ActivateSession"}
    BY Zenon DEF SessionInv, Activated
  <2>2. /\ \A i \in 1 .. Len(toServer') : i + 1 \in 1 .. Len(toServer) /\ toServer'[i] = toServer[i + 1]
        /\ 1 \in 1 .. Len(toServer)
    <3>1. /\ \A i \in 1 .. Len(toServer') : i + 1 \in 1 .. Len(toServer) /\ toServer'[i] = toServer[i + 1]
          /\ Len(toServer) \in Nat \ {0}
      BY <1>1, ServedTypes, Zenon
    <3>. QED
      BY <3>1
  <2>3. \A i \in 1 .. Len(toServer') : toServer'[i].type \notin {"CreateSession", "ActivateSession"}
    BY <2>1, <2>2, Zenon
  <2>4. m.type \notin {"CreateSession", "ActivateSession"} /\ (m.type = "CloseSession" => gone)
    BY <2>1, <2>2, Zenon DEF CallInv, Closing
  <2>5. m.type # "CloseSession" => server'.auth = server.auth /\ server'.session = server.session
    BY <1>2, <2>4
  <2>6. gone \/ HasSession'
    BY <1>3, <2>1, <2>4, <2>5, Zenon DEF HasSession
  <2>. QED
    BY <2>3, <2>6
<1>. QED
  BY <1>6, <1>7, <1>8, <1>9, <1>10 DEF SessionInv

LEMMA ClosedSession ==
    ASSUME CallInv, SessionInv, Closed
    PROVE  SessionInv'
<1>1. /\ toServer' = <<>> /\ toClient' = toClient /\ waiting' = waiting /\ todo' = todo /\ client' = client
      /\ gone' = gone
  BY DEF Closed
<1>2. ~server'.open /\ server'.session # "activated"
  BY NoConnectionIs DEF Closed
<1>3. 1 .. Len(toServer') = {}
  BY <1>1
<1>4. Alone'
  BY <1>1, ClosedOne, Zenon DEF SessionInv, Alone
<1>5. NotYet'
  BY <1>1, <1>2, Zenon DEF SessionInv, NotYet
<1>. QED
  BY <1>2, <1>3, <1>4, <1>5, ZenonT(30) DEF SessionInv, Creating, Created, Activating, Activated, HasSession

\* Neither the clock nor the tokens matter to the session.
LEMMA QuietSession ==
    ASSUME CallInv, SessionInv, UNCHANGED <<toServer, toClient, waiting, todo, gone>>,
           client'.state = client.state, client'.auth = client.auth,
           server'.open = server.open, server'.session = server.session, server'.auth = server.auth
    PROVE  SessionInv'
<1>1. Alone'
  BY SameOne, Zenon DEF SessionInv, Alone
<1>2. NotYet' /\ Creating' /\ Created'
  BY Zenon DEF SessionInv, NotYet, Creating, Created
<1>3. Activating' /\ Activated'
  BY Zenon DEF SessionInv, Activating, Activated, HasSession
<1>. QED
  BY <1>1, <1>2, <1>3, Zenon DEF SessionInv

LEMMA PublishSession ==
    ASSUME CallInv, SessionInv, PublishResponse
    PROVE  SessionInv'
<1>1. /\ server.session = "activated"
      /\ UNCHANGED <<client, todo, waiting, gone, toServer, server>>
  BY DEF PublishResponse
<1>2. \A n \in 3 .. 9 : ~Left(todo, n)
  BY <1>1, Zenon DEF SessionInv, NotYet
<1>3. ~Left(todo, 3) /\ ~Left(todo, 4)
  BY <1>2
<1>4. Left(todo, 2) => toClient # <<>> /\ OneMessage
  <2>1. 2 \in 2 .. 9
    OBVIOUS
  <2>. QED
    BY <1>1, <2>1, Zenon DEF SessionInv, NotYet, Alone
<1>5. Left(todo, 2) => OneMessage' /\ toClient' # <<>> /\ toClient'[1] = toClient[1]
  BY <1>4, PublishOne
<1>6. \A n \in 2 .. 9 : n = 2 \/ n \in 3 .. 9
  OBVIOUS
<1>7. Alone' /\ NotYet'
  BY <1>1, <1>2, <1>5, <1>6, Zenon DEF Alone, NotYet
<1>8. Creating' /\ Created' /\ Activating'
  BY <1>1, <1>3, <1>4, <1>5, Zenon DEF SessionInv, Creating, Created, Activating
<1>9. Activated'
  BY <1>1, Zenon DEF SessionInv, Activated, HasSession
<1>. QED
  BY <1>7, <1>8, <1>9 DEF SessionInv

\* A session that times out is gone.
LEMMA ExpiresSession ==
    ASSUME CallInv, SessionInv, SessionExpires
    PROVE  SessionInv'
<1>1. gone' /\ UNCHANGED <<client, todo, waiting, toServer, toClient>>
  BY DEF SessionExpires
<1>2. server'.session # "activated"
  <2>1. server \in ServerType
    BY DEF CallInv, Types
  <2>. QED
    BY <2>1 DEF SessionExpires, ServerType
<1>3. Alone'
  BY <1>1, SameOne, Zenon DEF SessionInv, Alone
<1>4. NotYet'
  BY <1>1, <1>2, Zenon DEF SessionInv, NotYet
<1>5. Creating' /\ Created' /\ Activating'
  BY <1>1, Zenon DEF Creating, Created, Activating
<1>6. Activated'
  BY <1>1, Zenon DEF SessionInv, Activated
<1>. QED
  BY <1>3, <1>4, <1>5, <1>6 DEF SessionInv

LEMMA InitSession == Init => SessionInv
<1>. SUFFICES ASSUME Init PROVE SessionInv
  OBVIOUS
<1>1. client = FreshClient /\ todo = <<>>
  BY DEF Init
<1>2. \A n \in 1 .. 9 : ~Left(todo, n)
  BY <1>1 DEF Left
<1>3. client.state # "CONNECTED"
  BY <1>1, FreshClientType
<1>4. /\ \A n \in 2 .. 9 : ~Left(todo, n)
      /\ \A n \in 3 .. 9 : ~Left(todo, n)
      /\ ~Left(todo, 1) /\ ~Left(todo, 2) /\ ~Left(todo, 3) /\ ~Left(todo, 4)
  BY <1>2
<1>. QED
  BY <1>3, <1>4, Zenon DEF SessionInv, Alone, NotYet, Creating, Created, Activating, Activated

LEMMA NextSession ==
    ASSUME CallInv, SessionInv, [Next]_vars
    PROVE  SessionInv'
<1>1. CASE UNCHANGED vars
  <2>1. UNCHANGED <<toServer, toClient, waiting, todo, gone, client, server>>
    BY <1>1 DEF vars
  <2>. QED
    BY <2>1, QuietSession
<1>2. CASE Serving \/ ServerCloses
  BY <1>2, ServingIs, ServedSession, ClosedSession, Zenon
<1>3. CASE Cleanup
  <2>1. server \in ServerType
    BY DEF CallInv, Types
  <2>2. server'.open = server.open /\ server'.session = server.session /\ server'.auth = server.auth
    BY <1>3, <2>1, Zenon DEF Cleanup, ServerType
  <2>3. UNCHANGED <<toServer, toClient, waiting, todo, gone, client>>
    BY <1>3 DEF Cleanup
  <2>. QED
    BY <2>2, <2>3, QuietSession
<1>4. CASE Tick
  <2>1. UNCHANGED <<toServer, toClient, waiting, todo, gone>>
    BY <1>4 DEF Tick
  <2>2. /\ client'.state = client.state /\ client'.auth = client.auth
        /\ server'.open = server.open /\ server'.session = server.session /\ server'.auth = server.auth
    BY <1>4, TickIs, Zenon
  <2>. QED
    BY <2>1, <2>2, QuietSession
<1>. QED
  BY <1>1, <1>2, <1>3, <1>4, ApartSession, ClientSession, ExpiresSession, PublishSession, Zenon DEF Next

-----------------------------------------------------------------------------
(* The theorems about connections and answers *)

LEMMA SessionSound == Init /\ [][Next]_vars => [](CallInv /\ SessionInv)
BY InitCall, InitSession, NextCall, NextSession, PTL

LEMMA InvGivesConnection ==
    ASSUME CallInv, SessionInv
    PROVE  ConnectionInv
<1>1. TypeOK
  <2>1. /\ client \in ClientType /\ server \in ServerType /\ sockets \in [open : Nat, lost : Nat, twice : BOOLEAN]
        /\ calls \in 0 .. MaxCalls /\ stray \in 0 .. MaxStray /\ age \in 0 .. MaxDelay
    BY DEF CallInv, Types
  <2>2. \A i \in DOMAIN todo : todo[i] \in Steps
    <3>1. todo \in Seq(Steps)
      BY DEF CallInv, Rest
    <3>. QED
      BY <3>1
  <2>3. waiting # NoRequest => waiting.type = Step
    BY DEF CallInv, Step
  <2>4. /\ client.state \in {"READY", "CONNECTED", "ERRORED"}
        /\ client.connection \in {"CLOSED", "OPENING", "ESTABLISHED"}
        /\ client.expires \in 0 .. LifeTime
        /\ server.life \in 0 .. LifeTime /\ server.nextLife \in 0 .. LifeTime
        /\ server.session \in {"none", "created", "activated"}
        /\ sockets.open \in Nat /\ sockets.lost \in Nat /\ sockets.twice \in BOOLEAN
    BY <2>1 DEF ClientType, ServerType
  <2>. QED
    BY <2>1, <2>2, <2>3, <2>4, Zenon DEF TypeOK
<1>2. SocketsReleased
  BY DEF CallInv
<1>3. ConnectedHasSession
  BY Zenon DEF SessionInv, Activated, HasSession, ConnectedHasSession
<1>. QED
  BY <1>1, <1>2, <1>3 DEF ConnectionInv

\* Whichever step of a call fails, the client has exactly the sockets of its
\* connection, and a client that believes to be connected has an activated
\* session under the authentication token it sends, unless the server closed the
\* connection, the session timed out there or the application disconnected: for
\* any number of calls, publish responses and ticks.
THEOREM ConnectionsSound == Spec => []ConnectionInv
<1>1. Spec => [](CallInv /\ SessionInv)
  BY SessionSound, PTL DEF Spec
<1>2. CallInv /\ SessionInv => ConnectionInv
  BY InvGivesConnection
<1>. QED
  BY <1>1, <1>2, PTL

-----------------------------------------------------------------------------
(* Services that succeed *)

\* An answer without an error is given for a request that was carried out.
GoodReplies ==
    \A i \in 1 .. Len(toClient) :
        toClient[i].good /\ toClient[i].type \in ServiceTypes => toClient[i].id \in carried

ServedInv == GoodMeansServed /\ GoodReplies

LEMMA SameServed ==
    ASSUME ServedInv, UNCHANGED <<taken, carried, toClient>>
    PROVE  ServedInv'
BY DEF ServedInv, GoodMeansServed, GoodReplies

\* The server adds a reply.
LEMMA ReplyServed ==
    ASSUME CallInv, ServedInv, NEW r, toClient' = Append(toClient, r), taken' = taken,
           carried \subseteq carried', r.good /\ r.type \in ServiceTypes => r.id \in carried'
    PROVE  ServedInv'
<1>1. toClient \in Seq(ReplyType)
  BY DEF CallInv, Types
<1>2. /\ Len(toClient') = Len(toClient) + 1 /\ toClient'[Len(toClient) + 1] = r /\ Len(toClient) \in Nat
      /\ \A i \in 1 .. Len(toClient) : toClient'[i] = toClient[i]
  BY <1>1
<1>3. \A i \in 1 .. Len(toClient') : i \in 1 .. Len(toClient) \/ i = Len(toClient) + 1
  BY <1>2
<1>4. GoodReplies'
  <2>. SUFFICES ASSUME NEW i \in 1 .. Len(toClient'), toClient'[i].good, toClient'[i].type \in ServiceTypes
                PROVE  toClient'[i].id \in carried'
    BY DEF GoodReplies
  <2>1. CASE i \in 1 .. Len(toClient)
    <3>1. toClient[i].id \in carried
      BY <1>2, <2>1 DEF ServedInv, GoodReplies
    <3>. QED
      BY <1>2, <2>1, <3>1
  <2>2. CASE i = Len(toClient) + 1
    BY <1>2, <2>2
  <2>. QED
    BY <1>3, <2>1, <2>2
<1>. QED
  BY <1>4 DEF ServedInv, GoodMeansServed

LEMMA HandshakeServed ==
    ASSUME CallInv, ServedInv, ServeHandshake
    PROVE  ServedInv'
<1>1. carried' = carried
  BY DEF ServeHandshake
<1>2. CASE Closed
  BY <1>1, <1>2, SameServed DEF Closed
<1>3. CASE ServedHello \/ ServedOpen \/ ServedRenew
  <2>1. PICK r : Served(r) /\ r.type \in {"ACK", "OPN"}
    BY <1>3, Zenon DEF ServedHello, ServedOpen, ServedRenew
  <2>2. r.type \notin ServiceTypes
    BY <2>1 DEF ServiceTypes
  <2>3. toClient' = Append(toClient, r) /\ taken' = taken
    BY <2>1 DEF Served
  <2>. QED
    BY <1>1, <2>2, <2>3, ReplyServed
<1>. QED
  BY <1>2, <1>3, HandshakeIs

LEMMA MessageServed ==
    ASSUME CallInv, ServedInv, ServeMessage
    PROVE  ServedInv'
<1>. DEFINE m == toServer[1]
<1>0. /\ server.open /\ toServer # <<>> /\ m \in RequestType /\ Head(toServer) = m /\ m.type \in ServiceTypes
      /\ toClient \in Seq(ReplyType)
  BY HeadType DEF ServeMessage, CallInv, Types
<1>1. CASE Serve(NoConnection, <<>>) /\ UNCHANGED carried
  <2>1. Closed
    BY <1>0, <1>1, ServeCloses
  <2>. QED
    BY <1>1, <2>1, SameServed DEF Closed
<1>2. ASSUME NEW s, NEW type \in {m.type, "Fault"}, NEW good \in BOOLEAN, Serve(s, <<Reply(m, type, good)>>),
             carried \subseteq carried', good => m.id \in carried'
      PROVE  ServedInv'
  <2>. DEFINE r == Reply(m, type, good)
  <2>1. r.id = m.id /\ r.good = good
    BY DEF Reply
  <2>. HIDE DEF r
  <2>2. toClient' = Append(toClient, r) /\ taken' = taken
    <3>1. toClient' = toClient \o <<r>> /\ taken' = taken
      BY <1>2, Zenon DEF Serve, r
    <3>. QED
      BY <1>0, <3>1
  <2>3. r.good /\ r.type \in ServiceTypes => r.id \in carried'
    BY <1>2, <2>1, Zenon
  <2>. QED
    BY <1>2, <2>2, <2>3, ReplyServed, Zenon
<1>3. CASE Serve(Revolved(m), <<Reply(m, "Fault", FALSE)>>) /\ UNCHANGED carried
  <2>1. carried \subseteq carried' /\ "Fault" \in {m.type, "Fault"} /\ FALSE \in BOOLEAN
    BY <1>3
  <2>. QED
    BY <1>2, <1>3, <2>1, Zenon
<1>4. ASSUME NEW type \in {m.type, "Fault"}, carried' = carried \cup {m.id},
             Serve(SessionAfter(m, Revolved(m)), <<Reply(m, type, type # "Fault")>>)
      PROVE  ServedInv'
  <2>1. (type # "Fault") \in BOOLEAN /\ m.id \in carried' /\ carried \subseteq carried'
    BY <1>4
  <2>. QED
    BY <1>2, <1>4, <2>1, Zenon
<1>. QED
  BY <1>0, <1>1, <1>3, <1>4, Zenon DEF ServeMessage

\* A service takes the answer to its request, or leaves what it took before.
LEMMA ReceiveServed ==
    ASSUME CallInv, ServedInv, NEW n \in 1 .. Len(toClient), Receive(n)
    PROVE  ServedInv'
<1>. DEFINE r == toClient[1]
<1>0. /\ toClient \in Seq(ReplyType) /\ carried' = carried /\ waiting # NoRequest
      /\ waiting.type = Step /\ toClient' = SubSeq(toClient, n + 1, Len(toClient))
  BY DEF Receive, CallInv, Types, Step
<1>1. /\ Len(toClient') = Len(toClient) - n
      /\ \A i \in 1 .. Len(toClient') : i + n \in 1 .. Len(toClient) /\ toClient'[i] = toClient[i + n]
  BY <1>0
<1>2. GoodReplies'
  BY <1>0, <1>1, Zenon DEF ServedInv, GoodReplies
<1>3. taken' = taken \/ (Answers(r) /\ r.good /\ taken' = waiting.id /\ Step \notin Handshake \cup {"HEL"})
  <2>1. CASE Step = "HEL"
    <3>1. TakeAck
      BY <2>1 DEF Receive, Handshake
    <3>. QED
      BY <3>1, Zenon DEF TakeAck
  <2>2. CASE Step \in Handshake
    <3>1. TakeOpen(r)
      BY <2>2 DEF Receive, Handshake
    <3>. QED
      BY <3>1, Zenon DEF TakeOpen, Failed, Refused
  <2>3. CASE Step \notin Handshake \cup {"HEL"}
    <3>1. TakeResponse(r)
      BY <2>3 DEF Receive
    <3>. QED
      BY <2>3, <3>1, Zenon DEF TakeResponse, Refused
  <2>. QED
    BY <2>1, <2>2, <2>3
<1>4. CASE taken' = taken
  BY <1>0, <1>2, <1>4 DEF ServedInv, GoodMeansServed
<1>5. CASE Answers(r) /\ r.good /\ taken' = waiting.id /\ Step \notin Handshake \cup {"HEL"}
  <2>1. waiting.type \in ServiceTypes
    BY <1>0, <1>5 DEF CallInv, Types, RequestType, SentTypes, Handshake
  <2>2. r.type \in ServiceTypes /\ r.id = waiting.id
    BY <1>5, <2>1 DEF Answers
  <2>3. 1 \in 1 .. Len(toClient)
    BY <1>0
  <2>4. r.id \in carried
    BY <1>5, <2>2, <2>3 DEF ServedInv, GoodReplies
  <2>. QED
    BY <1>0, <1>2, <1>5, <2>2, <2>4 DEF ServedInv, GoodMeansServed
<1>. QED
  BY <1>3, <1>4, <1>5

\* The other steps of the client take no answer.
LEMMA ClientServed ==
    ASSUME CallInv, ServedInv, ClientStep
    PROVE  ServedInv'
<1>1. CASE OpenSocket
  <2>1. taken' = taken /\ carried' = carried /\ toClient' \in {toClient, <<>>}
    BY <1>1, Zenon DEF OpenSocket, Failed, Refused
  <2>2. CASE toClient' = <<>>
    <3>1. 1 .. Len(toClient') = {}
      BY <2>2
    <3>. QED
      BY <2>1, <3>1, Zenon DEF ServedInv, GoodMeansServed, GoodReplies
  <2>. QED
    BY <2>1, <2>2, SameServed
<1>2. CASE SkipRenewal \/ Send \/ CloseSecureChannel \/ BeginDisconnect \/ Connected
  BY <1>2, SameServed, Zenon DEF SkipRenewal, Send, CloseSecureChannel, Sent, BeginDisconnect, Connected
<1>3. CASE SendFailed \/ ReceiveFailed
  BY <1>3, SameServed, Zenon DEF SendFailed, ReceiveFailed, Failed, Refused
<1>4. CASE Initialise
  <2>1. taken' = 0 /\ toClient' = <<>>
    BY <1>4 DEF Initialise
  <2>2. 1 .. Len(toClient') = {}
    BY <2>1
  <2>. QED
    BY <2>1, <2>2 DEF ServedInv, GoodMeansServed, GoodReplies
<1>. QED
  BY <1>1, <1>2, <1>3, <1>4, ReceiveServed, Zenon DEF ClientStep

LEMMA NextServed ==
    ASSUME CallInv, ServedInv, [Next]_vars
    PROVE  ServedInv'
<1>1. CASE UNCHANGED vars
  BY <1>1, SameServed DEF vars
<1>2. CASE Application
  BY <1>2, SameServed, Zenon DEF Application, Connect, CallService, ManuallyRenew, Disconnect, Reset, Begin
<1>3. CASE Cleanup \/ ServerCloses \/ SessionExpires \/ Tick
  BY <1>3, SameServed DEF Cleanup, ServerCloses, SessionExpires, Tick
<1>4. CASE PublishResponse
  <2>. DEFINE r == [type |-> "Publish", id |-> 0, good |-> TRUE, token |-> NoToken, auth |-> 0]
  <2>1. r.type \notin ServiceTypes
    BY DEF ServiceTypes
  <2>2. toClient' = Append(toClient, r) /\ taken' = taken /\ carried' = carried
    BY <1>4 DEF PublishResponse
  <2>. HIDE DEF r
  <2>. QED
    BY <2>1, <2>2, ReplyServed
<1>. QED
  BY <1>1, <1>2, <1>3, <1>4, HandshakeServed, MessageServed, ClientServed, Zenon DEF Next, Serving

\* A service that returns GOOD was carried out by the server: __UA_Client_Service compares
\* the type and the id of every response, so that neither a publish response nor the
\* answer to an earlier request, which the server may have given long ago, passes for
\* its own.
THEOREM GoodServicesServed == Spec => []GoodMeansServed
<1>1. Init => ServedInv
  <2>. SUFFICES ASSUME Init PROVE ServedInv
    OBVIOUS
  <2>1. taken = 0 /\ 1 .. Len(toClient) = {}
    BY DEF Init
  <2>. QED
    BY <2>1 DEF ServedInv, GoodMeansServed, GoodReplies
<1>2. Init /\ [][Next]_vars => [](CallInv /\ ServedInv)
  BY <1>1, InitCall, NextCall, NextServed, PTL
<1>3. ServedInv => GoodMeansServed
  BY DEF ServedInv
<1>. QED
  BY <1>2, <1>3, PTL DEF Spec
=============================================================================
