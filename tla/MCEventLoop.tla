---------------------------- MODULE MCEventLoop ----------------------------
(* EventLoop with small packets, a header of one byte and the other       *)
(* sections of one byte or none; with a client that wants to be served,    *)
(* and one that makes trouble.                                             *)
EXTENDS EventLoop, TLC

CONSTANTS c1, c2

MCSimpleLen(k) == IF k \in {"identify", "nolock", "region"} THEN 1 ELSE 0
MCRawLen(k) == IF k \in {"identify", "nolock"} THEN 1 ELSE 0

MCRepertoire ==
  (c1 :> {"identify", "region", "opacity"})
    @@ (c2 :> {"identify", "nolock", "set", "shutdown"})
MCMaxSent == (c1 :> 3) @@ (c2 :> 2)

=============================================================================
