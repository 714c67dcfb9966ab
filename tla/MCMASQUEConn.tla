----------------------------- MODULE MCMASQUEConn -----------------------------
(* processPackets and proxyTunToClient write, proxyClientToTun reads,       *)
(* cleanupClientSession and disconnectClient close.                         *)
EXTENDS ConnProperties
===============================================================================
