---------------------------- MODULE MCDelayedJobs ----------------------------
(* Small job arrays for DelayedJobs *)
EXTENDS DelayedJobs

\* A message, a delayed call; a message, two closed connections (detach now, free later).
Singles == {<<>>, <<"NORMAL">>, <<"DELAYED">>}
Closing == {<<>>, <<"NORMAL">>, <<"DELAYED">>, <<"NORMAL", "DELAYED">>}
\* A message; two connections closed after their detach jobs.
Pairs == {<<>>, <<"NORMAL">>, <<"DELAYED", "DELAYED">>}
\* Two connections closed at once.
TwoClosed == {<<>>, <<"NORMAL", "DELAYED", "NORMAL", "DELAYED">>}
\* What stop returns with no connection open, and with one.  It is called twice when the main
\* loop has called it already, which is undefined with a connection open (Network): the
\* connection is open in the other behaviours.
NoneOpen == {<<>>}
OneOpen == {<<"NORMAL", "DELAYED">>}
=============================================================================
