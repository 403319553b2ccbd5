----------------------------- MODULE MCNetwork -----------------------------
(* Network with two peers.  The streams have messages of one header's length *)
(* and longer ones, a CLO with something behind it, messages before the      *)
(* connection is established, garbage and a message that is too long.        *)
EXTENDS Network, TLC

CONSTANTS p1, p2

HEL == [type |-> "HEL", len |-> 2]
OPN == [type |-> "OPN", len |-> 2]
MSG == [type |-> "MSG", len |-> 3]
CLO == [type |-> "CLO", len |-> 2]
ACK == [type |-> "ACK", len |-> 2]
Garbage == [type |-> "BAD", len |-> 2]
TooLong == [type |-> "MSG", len |-> 5]

MCScenarios ==
    { p1 :> <<HEL, MSG>> @@ p2 :> <<>>,
      p1 :> <<HEL>> @@ p2 :> <<MSG>>,
      p1 :> <<CLO, ACK>> @@ p2 :> <<>>,
      p1 :> <<TooLong>> @@ p2 :> <<>>,
      p1 :> <<Garbage, HEL>> @@ p2 :> <<>>,
      p1 :> <<OPN, HEL>> @@ p2 :> <<>>,
      p1 :> <<HEL, OPN>> @@ p2 :> <<>> }
=============================================================================
