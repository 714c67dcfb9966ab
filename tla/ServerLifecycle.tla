--------------------------- MODULE ServerLifecycle ---------------------------
(***************************************************************************)
(* The server process (vpn_server/main.go, New and Run of server.go): from *)
(* its configuration to its exit.  main ends with logger.Fatal, or returns *)
(* when Run does; it never calls Server.Close.  The process can be killed  *)
(* and started again.  What it does while it serves is ServerCore's.       *)
(***************************************************************************)
EXTENDS AddressRange

CONSTANTS MaxListed,   \* addresses the memory of the process holds
          MaxRestarts  \* bounds the model

ASSUME ServerAssumption == MaxListed \in Nat /\ MaxRestarts \in Nat

VARIABLES serverTun,   \* the configuration names a TUN device
          stage,       \* "configuring", "listing", "creating", "addressing",
                       \* "created", "running", "serving", "exited"
          stopRequested, \* the context of NotifyContext is done
          device,      \* the TUN device: "none", "bare", "up"
          listener,    \* the ListenAndServe goroutine: "none", "starting",
                       \* "listening", "ended"
          runErr,      \* errChan of Run
          restarts

processVars == <<stopRequested, device, listener, runErr>>
serverVars == <<rangeVars, serverTun, stage, processVars, restarts>>

ServerInit ==
  /\ RangeInit /\ serverTun \in BOOLEAN
  /\ stage = "configuring" /\ restarts = 0
  /\ stopRequested = FALSE /\ device = "none"
  /\ listener = "none" /\ runErr = <<>>

(* The process ends; the operating system takes back what it held.         *)
Exit ==
  /\ stage' = "exited"
  /\ stopRequested' = FALSE /\ device' = "none"
  /\ listener' = "none" /\ runErr' = <<>>
  /\ UNCHANGED <<rangeVars, serverTun, restarts>>

GoTo(s) == stage' = s /\ UNCHANGED <<serverTun, restarts>>
-------------------------------------------------------------------------------
(* The file cannot be read, a required value is missing, or assign_cidr is *)
(* no prefix.                                                              *)
ConfigurationFails == stage = "configuring" /\ Exit

(* New: NewNetworkInfo, and NewIPPool up to its loop.                      *)
ReadConfiguration ==
  /\ stage = "configuring"
  /\ StartListing
  /\ GoTo("listing")
  /\ UNCHANGED processVars

ListPool ==
  /\ stage = "listing" /\ Len(ips) < MaxListed
  /\ ListAddress
  /\ UNCHANGED <<serverTun, stage, processVars, restarts>>

(* The list outgrows the memory: a prefix of IPv6, or one that ends in the *)
(* last address of its family, where the loop starts over for ever.        *)
OutOfMemory == stage = "listing" /\ Len(ips) = MaxListed /\ ~Listed /\ Exit

PoolListed ==
  /\ stage = "listing" /\ Listed
  /\ GoTo(IF serverTun THEN "creating" ELSE "created")
  /\ UNCHANGED <<rangeVars, processVars>>

(* CreateTunDevice creates the device                                      *)
CreateDevice ==
  /\ stage = "creating"
  /\ device' = "bare"
  /\ GoTo("addressing")
  /\ UNCHANGED <<rangeVars, stopRequested, listener, runErr>>

(* and sets its address; New then starts processPackets.                   *)
AddressDevice ==
  /\ stage = "addressing"
  /\ device' = "up"
  /\ GoTo("created")
  /\ UNCHANGED <<rangeVars, stopRequested, listener, runErr>>

(* Either fails, the second with a Close of the device: main is told.      *)
DeviceFails == stage \in {"creating", "addressing"} /\ Exit

(* signal.NotifyContext: until here a signal kills the process.            *)
HandleSignals ==
  /\ stage = "created"
  /\ GoTo("running")
  /\ UNCHANGED <<rangeVars, processVars>>

(* Run: setupTLSConfig fails on a certificate, a key or the CA.            *)
SetupTLSFails == stage = "running" /\ Exit

(* It succeeds; two goroutines start.  That of the API logs its error and  *)
(* nobody waits for it.                                                    *)
StartServing ==
  /\ stage = "running"
  /\ listener' = "starting"
  /\ GoTo("serving")
  /\ UNCHANGED <<rangeVars, stopRequested, device, runErr>>

Listen ==
  /\ listener = "starting"
  /\ listener' = "listening"
  /\ UNCHANGED <<rangeVars, serverTun, stage, stopRequested, device, runErr, restarts>>

(* Mutant: the error of ListenAndServe is only logged.                     *)
ListenFailsUnreported ==
  /\ listener \in {"starting", "listening"}
  /\ listener' = "ended"
  /\ UNCHANGED <<rangeVars, serverTun, stage, stopRequested, device, runErr, restarts>>

(* ListenAndServe returns, at once or later.                               *)
ListenFails ==
  /\ listener \in {"starting", "listening"}
  /\ listener' = "ended" /\ runErr' = <<"error">>
  /\ UNCHANGED <<rangeVars, serverTun, stage, stopRequested, device, restarts>>

(* Run's select: the listener ended, or the context is done and the HTTP/3 *)
(* server is closed with all its connections.                              *)
RunHearsError == stage = "serving" /\ runErr # <<>> /\ Exit

(* Mutant: Run only waits for the listener.                                *)
RunIgnoresSignal == stage = "serving" /\ stopRequested /\ listener = "ended" /\ Exit

RunHearsSignal == stage = "serving" /\ stopRequested /\ Exit
-------------------------------------------------------------------------------
(* Mutant: NotifyContext comes first in main, New does not look at it.     *)
SignalServerHeld ==
  /\ stage # "exited"
  /\ stopRequested' = TRUE
  /\ UNCHANGED <<rangeVars, serverTun, stage, device, listener, runErr, restarts>>

(* SIGINT or SIGTERM.                                                      *)
SignalServer ==
  IF stage \in {"running", "serving"}
    THEN /\ stopRequested' = TRUE
         /\ UNCHANGED <<rangeVars, serverTun, stage, device, listener, runErr, restarts>>
    ELSE stage # "exited" /\ Exit

(* A crash: for one, the panic of a send on a closed connection.           *)
Crash == stage # "exited" /\ Exit

(* The operator, or the container's restart policy, starts it again with   *)
(* the same configuration.                                                 *)
Restart ==
  /\ stage = "exited" /\ restarts < MaxRestarts
  /\ stage' = "configuring" /\ restarts' = restarts + 1
  /\ UNCHANGED <<rangeVars, serverTun, processVars>>

ServerStep ==
  \/ ConfigurationFails \/ ReadConfiguration
  \/ ListPool \/ OutOfMemory \/ PoolListed
  \/ CreateDevice \/ AddressDevice \/ DeviceFails
  \/ HandleSignals \/ SetupTLSFails \/ StartServing
  \/ RunHearsError \/ RunHearsSignal

ServerNext ==
  \/ ServerStep \/ Listen \/ ListenFails
  \/ SignalServer \/ Crash \/ Restart

(* The goroutine of main goes on, that of ListenAndServe binds its address *)
(* or fails to.                                                            *)
ServerFairness ==
  /\ WF_serverVars(ServerStep)
  /\ WF_serverVars(listener = "starting" /\ (Listen \/ ListenFails))

ServerSpec == ServerInit /\ [][ServerNext]_serverVars /\ ServerFairness
===============================================================================
