------------------------------- MODULE VPNSystem -------------------------------
(***************************************************************************)
(* The two processes: a client and the server it dials.  They share the    *)
(* QUIC connection.  It can be set up while the server listens.  When the  *)
(* server process ends, the client learns it from a CONNECTION_CLOSE, from *)
(* the stateless reset of a server started again, or after 60 seconds of   *)
(* silence (MaxIdleTimeout); what had arrived before can still be read.    *)
(***************************************************************************)
EXTENDS ClientProperties, ServerLifecycle

VARIABLE peer          \* the server process at the other end: "none", "here", "gone"

systemVars == <<vars, serverVars, peer>>

SystemInit == Init /\ ServerInit /\ peer = "none"

(* quic.Dial reaches a server that listens.                                *)
Connect ==
  /\ Dial /\ listener = "listening"
  /\ peer' = "here"
  /\ UNCHANGED serverVars

ClientStep ==
  /\ \/ Signal \/ QuicDies
     \/ DialFails \/ OpenStream \/ OpenStreamFails \/ Configure \/ ConfigureFails
     \/ ResponseAccepts \/ ResponseFails
     \/ TunToMasque \/ MasqueToTun \/ Stopping
  /\ UNCHANGED <<serverVars, peer>>

ServerProcess ==
  /\ ServerNext
  /\ peer' = IF peer = "here" /\ stage' = "exited" THEN "gone" ELSE peer
  /\ UNCHANGED vars

SystemNext == Connect \/ ClientStep \/ ServerProcess

(* Both processes are scheduled, and the loss of the peer is noticed.      *)
SystemFairness ==
  /\ Fairness
  /\ ServerFairness
  /\ WF_vars(peer = "gone" /\ QuicDies)

SystemSpec == SystemInit /\ [][SystemNext]_systemVars /\ SystemFairness
===============================================================================
