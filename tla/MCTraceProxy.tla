---------------------------- MODULE MCTraceProxy ----------------------------
(* TraceProxy with two sessions; the server of the second says nothing.      *)
EXTENDS TraceProxy

MCSpeakers == {<<"client", 1>>, <<"server", 1>>, <<"client", 2>>}

=============================================================================
