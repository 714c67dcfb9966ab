------------------------------ MODULE MASQUEConn ------------------------------
(***************************************************************************)
(* One server-side MASQUEConn (common/masque_connectip.go): two buffered   *)
(* channels, the relay goroutine between them, and the goroutines that     *)
(* call WritePacket, ReadPacket and Close.                                 *)
(*                                                                         *)
(* ReadPacket and WritePacket test "closed" under the read lock, release   *)
(* it and only then use their channel; Close holds the write lock while it *)
(* closes readChan and then writeChan.  Those are the steps here.  A send  *)
(* on a closed channel panics, a receive from one returns at once.  A      *)
(* panic nobody recovers ends the process, and nothing happens after it.   *)
(***************************************************************************)
EXTENDS Naturals, Sequences, FiniteSets

CONSTANTS Writers,     \* goroutines that call WritePacket
          Recovering,  \* those that recover from a panic (proxyTunToClient)
          Closers,     \* goroutines that call Close (cleanup, disconnect)
          ChanCap,     \* capacity of the two channels (100 in the code)
          MaxPackets   \* packets a writer sends: bounds the model

ASSUME ConnAssumption ==
  /\ Recovering \subseteq Writers
  /\ ChanCap \in Nat \ {0}
  /\ MaxPackets \in Nat

Packets == Writers \X (1 .. MaxPackets)

VARIABLES closed,      \* the closed flag
          closing,     \* who holds the write lock, between the two closes of Close
          readChan, readClosed,
          writeChan, writeClosed,
          relay,       \* the relay goroutine: "receive", "forward", "exited", "panicked"
          held,        \* the packets the relay has in hand: one while it forwards
          wpc,         \* writer: "idle", "sending" (past the test), "panicked"
          sent,        \* packets a writer has passed to WritePacket so far
          rpc,         \* the reader: "idle", "receiving" (past the test)
          received,    \* packets ReadPacket has returned, in order
          cpc          \* closer: "idle", "between" the two closes, "done"

chanVars == <<readChan, readClosed, writeChan, writeClosed>>
lockVars == <<closed, closing>>
relayVars == <<relay, held>>
callVars == <<wpc, sent, rpc, received, cpc>>
vars == <<lockVars, chanVars, relayVars, callVars>>

Init ==
  /\ closed = FALSE /\ closing = {}
  /\ readChan = <<>> /\ readClosed = FALSE
  /\ writeChan = <<>> /\ writeClosed = FALSE
  /\ relay = "receive" /\ held = <<>>
  /\ wpc = [w \in Writers |-> "idle"]
  /\ sent = [w \in Writers |-> 0]
  /\ rpc = "idle" /\ received = <<>>
  /\ cpc = [k \in Closers |-> "idle"]

(* A panic that nobody recovers has ended the process: the relay has no    *)
(* deferred recover and neither has processPackets.                        *)
Crashed ==
  \/ relay = "panicked"
  \/ \E w \in Writers \ Recovering : wpc[w] = "panicked"

Alive == ~Crashed

LockFree == closing = {}
-------------------------------------------------------------------------------
(* WritePacket: the test of closed.  On a closed connection it returns an  *)
(* error, which changes nothing here.                                      *)
WriteCheck(w) ==
  /\ Alive /\ wpc[w] = "idle" /\ sent[w] < MaxPackets
  /\ LockFree /\ ~closed
  /\ wpc' = [wpc EXCEPT ![w] = "sending"]
  /\ sent' = [sent EXCEPT ![w] = @ + 1]
  /\ UNCHANGED <<lockVars, chanVars, relayVars, rpc, received, cpc>>

(* Mutant: a send that succeeded is tried again.                           *)
WriteSendAgain(w) ==
  /\ Alive /\ wpc[w] = "sending" /\ ~writeClosed
  /\ Len(writeChan) < ChanCap
  /\ writeChan' = Append(writeChan, <<w, sent[w]>>)
  /\ UNCHANGED <<lockVars, readChan, readClosed, writeClosed, relayVars, wpc, sent, rpc,
                 received, cpc>>

(* writeChan <- packetCopy                                                 *)
WriteSend(w) ==
  /\ Alive /\ wpc[w] = "sending" /\ ~writeClosed
  /\ Len(writeChan) < ChanCap
  /\ writeChan' = Append(writeChan, <<w, sent[w]>>)
  /\ wpc' = [wpc EXCEPT ![w] = "idle"]
  /\ UNCHANGED <<lockVars, readChan, readClosed, writeClosed, relayVars, sent, rpc,
                 received, cpc>>

(* The same send after Close has closed the channel.                       *)
WritePanic(w) ==
  /\ Alive /\ wpc[w] = "sending" /\ writeClosed
  /\ wpc' = [wpc EXCEPT ![w] = "panicked"]
  /\ UNCHANGED <<lockVars, chanVars, relayVars, sent, rpc, received, cpc>>

(* time.After(10 s) wins the select.                                       *)
WriteTimeout(w) ==
  /\ Alive /\ wpc[w] = "sending"
  /\ wpc' = [wpc EXCEPT ![w] = "idle"]
  /\ UNCHANGED <<lockVars, chanVars, relayVars, sent, rpc, received, cpc>>

-------------------------------------------------------------------------------
(* for packet := range writeChan                                           *)
RelayReceive ==
  /\ Alive /\ relay = "receive" /\ writeChan # <<>>
  /\ held' = <<Head(writeChan)>>
  /\ writeChan' = Tail(writeChan)
  /\ relay' = "forward"
  /\ UNCHANGED <<lockVars, readChan, readClosed, writeClosed, callVars>>

(* The range ends: the channel is closed and drained.                      *)
RelayExit ==
  /\ Alive /\ relay = "receive" /\ writeChan = <<>> /\ writeClosed
  /\ relay' = "exited"
  /\ UNCHANGED <<lockVars, chanVars, held, callVars>>

(* Mutants of the relay.  It waits for room instead of dropping:           *)
RelayForwardBlocking ==
  /\ Alive /\ relay = "forward" /\ ~readClosed
  /\ Len(readChan) < ChanCap
  /\ readChan' = readChan \o held
  /\ held' = <<>> /\ relay' = "receive"
  /\ UNCHANGED <<lockVars, readClosed, writeChan, writeClosed, callVars>>

(* it puts a packet it cannot forward back into its queue:                 *)
RelayForwardRequeue ==
  /\ Alive /\ relay = "forward" /\ ~readClosed
  /\ IF Len(readChan) < ChanCap
       THEN readChan' = readChan \o held /\ UNCHANGED writeChan
       ELSE writeChan' = writeChan \o held /\ UNCHANGED readChan
  /\ held' = <<>> /\ relay' = "receive"
  /\ UNCHANGED <<lockVars, readClosed, writeClosed, callVars>>

(* select { case readChan <- packet: default: }: a full channel drops it.  *)
RelayForward ==
  /\ Alive /\ relay = "forward" /\ ~readClosed
  /\ readChan' = IF Len(readChan) < ChanCap THEN readChan \o held ELSE readChan
  /\ held' = <<>> /\ relay' = "receive"
  /\ UNCHANGED <<lockVars, readClosed, writeChan, writeClosed, callVars>>

(* The send case of that select panics on a closed readChan, default or    *)
(* not.                                                                    *)
RelayPanic ==
  /\ Alive /\ relay = "forward" /\ readClosed
  /\ relay' = "panicked"
  /\ UNCHANGED <<lockVars, chanVars, held, callVars>>

-------------------------------------------------------------------------------
(* ReadPacket: the test of closed; a closed connection returns io.EOF.     *)
ReadCheck ==
  /\ Alive /\ rpc = "idle" /\ LockFree /\ ~closed
  /\ rpc' = "receiving"
  /\ UNCHANGED <<lockVars, chanVars, relayVars, wpc, sent, received, cpc>>

(* <-m.readChan with a packet in it, closed or not.                        *)
ReadReceive ==
  /\ Alive /\ rpc = "receiving" /\ readChan # <<>>
  /\ received' = Append(received, Head(readChan))
  /\ readChan' = Tail(readChan)
  /\ rpc' = "idle"
  /\ UNCHANGED <<lockVars, readClosed, writeChan, writeClosed, relayVars, wpc, sent, cpc>>

(* The same receive from a closed, empty channel: zero bytes, no error.    *)
ReadClosed ==
  /\ Alive /\ rpc = "receiving" /\ readChan = <<>> /\ readClosed
  /\ rpc' = "idle"
  /\ UNCHANGED <<lockVars, chanVars, relayVars, wpc, sent, received, cpc>>

(* time.After(30 s) wins the select.                                       *)
ReadTimeout ==
  /\ Alive /\ rpc = "receiving"
  /\ rpc' = "idle"
  /\ UNCHANGED <<lockVars, chanVars, relayVars, wpc, sent, received, cpc>>

-------------------------------------------------------------------------------
(* Mutants of Close.  It leaves readChan to the relay, which never closes  *)
(* it:                                                                     *)
CloseReadSkipped(k) ==
  /\ Alive /\ cpc[k] = "idle" /\ LockFree /\ ~closed
  /\ closed' = TRUE /\ closing' = {k}
  /\ cpc' = [cpc EXCEPT ![k] = "between"]
  /\ UNCHANGED <<chanVars, relayVars, wpc, sent, rpc, received>>

(* it forgets writeChan:                                                   *)
CloseWriteSkipped(k) ==
  /\ Alive /\ cpc[k] = "between"
  /\ closing' = {}
  /\ cpc' = [cpc EXCEPT ![k] = "done"]
  /\ UNCHANGED <<closed, chanVars, relayVars, wpc, sent, rpc, received>>

(* Close, up to close(readChan).                                           *)
CloseRead(k) ==
  /\ Alive /\ cpc[k] = "idle" /\ LockFree /\ ~closed
  /\ closed' = TRUE /\ closing' = {k} /\ readClosed' = TRUE
  /\ cpc' = [cpc EXCEPT ![k] = "between"]
  /\ UNCHANGED <<readChan, writeChan, writeClosed, relayVars, wpc, sent, rpc, received>>

(* close(writeChan) and the unlock.                                        *)
CloseWrite(k) ==
  /\ Alive /\ cpc[k] = "between"
  /\ writeClosed' = TRUE /\ closing' = {}
  /\ cpc' = [cpc EXCEPT ![k] = "done"]
  /\ UNCHANGED <<closed, readChan, readClosed, writeChan, relayVars, wpc, sent, rpc, received>>

(* Close of a closed connection returns nil.                               *)
CloseAgain(k) ==
  /\ Alive /\ cpc[k] = "idle" /\ LockFree /\ closed
  /\ cpc' = [cpc EXCEPT ![k] = "done"]
  /\ UNCHANGED <<lockVars, chanVars, relayVars, wpc, sent, rpc, received>>

WriterStep(w) == WriteCheck(w) \/ WriteSend(w) \/ WritePanic(w) \/ WriteTimeout(w)
RelayStep == RelayReceive \/ RelayExit \/ RelayForward \/ RelayPanic
ReaderStep == ReadCheck \/ ReadReceive \/ ReadClosed \/ ReadTimeout
CloserStep(k) == CloseRead(k) \/ CloseWrite(k) \/ CloseAgain(k)

Next ==
  \/ \E w \in Writers : WriterStep(w)
  \/ RelayStep
  \/ ReaderStep
  \/ \E k \in Closers : CloserStep(k)

(* A goroutine that can go on does.  Nothing makes the reader call         *)
(* ReadPacket, the writers WritePacket or the closers Close, and no        *)
(* property counts on a timer.  A full writeChan serves its blocked        *)
(* senders in order, so a send that is possible again and again happens.   *)
Fairness ==
  /\ WF_vars(RelayStep)
  /\ WF_vars(ReadReceive \/ ReadClosed)
  /\ \A w \in Writers : SF_vars(WriteSend(w)) /\ WF_vars(WritePanic(w))
  /\ \A k \in Closers : WF_vars(CloseWrite(k))

Spec == Init /\ [][Next]_vars /\ Fairness
===============================================================================
