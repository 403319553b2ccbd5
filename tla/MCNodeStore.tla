---------------------------- MODULE MCNodeStore ----------------------------
(***************************************************************************)
(* NodeStore with two small primes and the hash values of the code: the    *)
(* hash of id i in namespace 1 is (i + 1) * 2654435761 modulo 2^32.  Only  *)
(* its remainders by a table size and by the size minus two matter, so it  *)
(* is given modulo 5 * 3 * 17 * 15.  A table of 17 shrinks when it is left  *)
(* with two nodes, one of 5 grows when it has four.                        *)
(***************************************************************************)
EXTENDS NodeStore

SmallPrimes == <<5, 17>>
SmallIds == 0 .. 16
MCHash == [i \in SmallIds |-> 
    <<511, 1, 512, 2, 3317, 3, 3318, 4, 3319, 2809, 3320, 2810, 2300, 2811, 2301, 2812, 2302>>[i + 1]]

=============================================================================
