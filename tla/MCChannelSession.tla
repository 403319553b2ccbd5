-------------------------- MODULE MCChannelSession --------------------------
(* Instances of ChannelSession for TLC. *)
EXTENDS ChannelSession

\* A timeout the server must replace and one it grants.
Timeouts == {-1, 1}
=============================================================================
