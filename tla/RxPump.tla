------------------------------- MODULE RxPump -------------------------------
(***************************************************************************)
(* The two-thread receive pump of a streamed push in source/httpsrv.c.  The *)
(* net thread (rx_net_fn) receives the body into the slots of a bounded    *)
(* ring, the writer (rx_wr_fn) writes them to the .part, and the UI thread *)
(* starts the pair, polls for the end (rx_finalize), or stops it early:    *)
(* rx_stop only asks, rx_join (abort, close, rebind) waits.  If the threads *)
(* cannot start, the UI thread drains the socket itself.                   *)
(*                                                                         *)
(* A critical section of the ring's mutex is one action; condition         *)
(* variables keep a thread "parked" until it is woken, never spuriously.   *)
(* rx_cancel is read and written without the mutex, in steps of its own.   *)
(* Byte k of the file is the number k, so the content of a slot or of the  *)
(* .part says where each byte came from; 0 is a byte not yet received.     *)
(* Offsets are in the whole file: a resumed push starts behind the bytes   *)
(* the card already holds (resume_base).                                   *)
(*                                                                         *)
(* A definition marked "Variant" is the next one with a plausible slip;    *)
(* no behaviour uses it, it shows which property would notice.             *)
(***************************************************************************)
EXTENDS Integers

CONSTANTS
  Total,     \* bytes of the file
  NBuf,      \* RX_NBUF
  SlotSize,  \* RX_SLOT
  StallMax   \* receive timeouts in a row that end a transfer (stall_max)

ASSUME PumpAssumption ==
  /\ Total \in Nat \ {0} /\ NBuf \in Nat \ {0} /\ SlotSize \in Nat \ {0}
  /\ StallMax \in Nat \ {0}

VARIABLES
  sock,      \* bytes of the file taken out of the socket
  slot,      \* the ring's buffers
  len,       \* bytes published in each slot
  head,      \* next slot the writer drains
  tail,      \* next slot the net thread fills
  count,     \* filled slots
  received,  \* bytes published to the ring, those before the pump included
  netdone,   \* the net thread fills no more slots
  net,       \* where the net thread is
  filled,    \* ... bytes it has put in the slot at tail
  stalls,    \* ... receive timeouts in a row
  netst,     \* ... its outcome (net_status)
  wr,        \* where the writer is
  wrst,      \* ... its outcome (wr_status)
  live,      \* threads that have not passed rx_thread_exit
  cancel,    \* rx_cancel
  done,      \* rx_done
  status,    \* rx_status
  file,      \* the .part
  written,   \* resume_base + cbody_len
  resumable, \* resume_id is set
  asked,     \* a resume query has stopped the pump (a history variable)
  ui,        \* what the UI thread is doing with this push
  result     \* how the push ended

vars == <<sock, slot, len, head, tail, count, received, netdone, net, filled,
          stalls, netst, wr, wrst, live, cancel, done, status, file, written,
          resumable, asked, ui, result>>
buf  == <<sock, slot, len>>
ring == <<head, tail, count, received, netdone>>
nloc == <<filled, stalls, netst>>    \* locals of the net thread
nvar == <<net, nloc>>
wvar == <<wr, wrst>>
out  == <<done, status, live>>
disk == <<file, written>>
main == <<resumable, asked, ui, result>>
opts == <<resumable, asked>>

Index   == 0..NBuf-1
Bytes   == 1..Total
Next1(i) == (i + 1) % NBuf
Status  == {"RUNNING", "OK", "PEERCLOSED", "WRITEERR", "ERR", "CANCELLED"}

-----------------------------------------------------------------------------
(* The net thread *)

WakeWriter == wr' = IF wr = "parked" THEN "take" ELSE wr
WakeNet    == net' = IF net = "parked" THEN "claim" ELSE net
\* The net thread goes on, or stops with an outcome.
NetGo(pc)       == net' = pc /\ UNCHANGED nloc
NetStop(st, pc) == net' = pc /\ netst' = st /\ UNCHANGED <<filled, stalls>>

NetLoop ==
  /\ net = "loop"
  /\ IF received >= Total THEN NetGo("end")
     ELSE IF cancel THEN NetStop("CANCELLED", "end")
     ELSE NetGo("claim")
  /\ UNCHANGED <<buf, ring, wvar, out, cancel, disk, main>>

\* Claim a free slot, waiting if the writer is behind.
NetClaim ==
  /\ net = "claim"
  /\ IF cancel THEN NetStop("CANCELLED", "end")
     ELSE IF count = NBuf THEN NetGo("parked")
     ELSE net' = "fill" /\ filled' = 0 /\ UNCHANGED <<stalls, netst>>
  /\ UNCHANGED <<buf, ring, wvar, out, cancel, disk, main>>

\* Room in the slot for what is left of the body.
Wanted == IF SlotSize - filled < Total - received - filled
          THEN SlotSize - filled ELSE Total - received - filled

\* The cancel flag is looked at before each recv, not after it.
NetFill ==
  /\ net = "fill"
  /\ IF Wanted = 0 THEN NetGo("publish")
     ELSE IF cancel THEN NetStop("CANCELLED", "publish")
     ELSE NetGo("recv")
  /\ UNCHANGED <<buf, ring, wvar, out, cancel, disk, main>>

\* The slot at tail with r more bytes of the stream.
Extended(r) == [b \in 1..SlotSize |-> IF b \in filled+1..filled+r
                                       THEN sock + b - filled ELSE slot[tail][b]]

NetData ==
  /\ net = "recv"
  /\ \E r \in 1..Wanted :
       /\ slot' = [slot EXCEPT ![tail] = Extended(r)]
       /\ sock' = sock + r
       /\ filled' = filled + r
  /\ net' = "fill" /\ stalls' = 0
  /\ UNCHANGED <<len, ring, wvar, netst, out, cancel, disk, main>>

\* The receive timeout: StallMax of them in a row end the transfer.
NetQuiet ==
  /\ net = "recv"
  /\ IF stalls + 1 >= StallMax
     THEN NetStop("ERR", "publish")
     ELSE net' = "fill" /\ stalls' = stalls + 1 /\ UNCHANGED <<filled, netst>>
  /\ UNCHANGED <<buf, ring, wvar, out, cancel, disk, main>>

NetLost ==
  /\ net = "recv"
  /\ \E st \in {"PEERCLOSED", "ERR"} : NetStop(st, "publish")
  /\ UNCHANGED <<buf, ring, wvar, out, cancel, disk, main>>

Publish ==
  /\ len' = [len EXCEPT ![tail] = filled]
  /\ tail' = Next1(tail) /\ count' = count + 1 /\ received' = received + filled
  /\ WakeWriter /\ UNCHANGED <<head, netdone, wrst>>

\* What was received is handed over even when the transfer stops here.
NetPublish ==
  /\ net = "publish"
  /\ IF filled > 0 THEN Publish ELSE UNCHANGED <<len, ring, wvar>>
  /\ NetGo(IF netst = "OK" THEN "loop" ELSE "end")
  /\ UNCHANGED <<sock, slot, out, cancel, disk, main>>

NetEnd ==
  /\ net = "end"
  /\ netdone' = TRUE
  /\ WakeWriter /\ NetGo("exit")
  /\ UNCHANGED <<buf, head, tail, count, received, wrst, out, cancel, disk, main>>

\* rx_thread_exit: the last one out sets the outcome; a write error wins.
ThreadExit ==
  /\ live' = live - 1
  /\ IF live = 1
     THEN status' = (IF wrst # "OK" THEN wrst ELSE netst) /\ done' = TRUE
     ELSE UNCHANGED <<status, done>>

NetExit ==
  /\ net = "exit"
  /\ ThreadExit /\ NetGo("gone")
  /\ UNCHANGED <<buf, ring, wvar, cancel, disk, main>>

Net == \/ NetLoop \/ NetClaim \/ NetFill \/ NetData \/ NetQuiet \/ NetLost
       \/ NetPublish \/ NetEnd \/ NetExit

-----------------------------------------------------------------------------
(* The writer *)

WrGo(pc) == wr' = pc /\ UNCHANGED wrst

\* (Variants: the slot is released before it is written; the writer leaves as
\* soon as the net thread is done.)
WrTakeEarly ==
  /\ wr = "take"
  /\ IF count > 0
     THEN WrGo("write") /\ count' = count - 1
     ELSE WrGo(IF netdone \/ cancel THEN "exit" ELSE "parked") /\ UNCHANGED count
  /\ UNCHANGED <<buf, head, tail, received, netdone, nvar, out, cancel, disk, main>>
WrTakeUntilDone ==
  /\ wr = "take"
  /\ WrGo(IF netdone \/ cancel THEN "exit" ELSE IF count > 0 THEN "write" ELSE "parked")
  /\ UNCHANGED <<buf, ring, nvar, out, cancel, disk, main>>

WrTake ==
  /\ wr = "take"
  /\ WrGo(IF count > 0 THEN "write"
          ELSE IF netdone \/ cancel THEN "exit" ELSE "parked")
  /\ UNCHANGED <<buf, ring, nvar, out, cancel, disk, main>>

\* fwrite of the first n bytes of the slot at the end of what is written.
Append(n) ==
  file' = [k \in Bytes |-> IF k \in written+1..written+n
                           THEN slot[head][k - written] ELSE file[k]]

WrWrite ==
  /\ wr = "write"
  /\ Append(len[head])
  /\ written' = written + len[head]
  /\ WrGo("free")
  /\ UNCHANGED <<buf, ring, nvar, out, cancel, main>>

\* (Variant: the slot counts as written although the write was short.)
WrFailCounted ==
  /\ wr = "write"
  /\ \E n \in 0..len[head]-1 : Append(n)
  /\ written' = written + len[head]
  /\ wr' = "wake" /\ wrst' = "WRITEERR"
  /\ cancel' = TRUE
  /\ UNCHANGED <<buf, ring, nvar, out, main>>

\* A short write: part of the slot may have reached the card.
WrFail ==
  /\ wr = "write"
  /\ \E n \in 0..len[head]-1 : Append(n)
  /\ wr' = "wake" /\ wrst' = "WRITEERR"
  /\ cancel' = TRUE
  /\ UNCHANGED <<buf, ring, nvar, out, written, main>>

\* (Variant: a net thread waiting for room is not told.)
WrLeave ==
  /\ wr = "wake"
  /\ WrGo("exit")
  /\ UNCHANGED <<buf, ring, nvar, out, cancel, disk, main>>

WrWake ==
  /\ wr = "wake"
  /\ WakeNet /\ WrGo("exit")
  /\ UNCHANGED <<buf, ring, nloc, out, cancel, disk, main>>

WrFree ==
  /\ wr = "free"
  /\ head' = Next1(head) /\ count' = count - 1
  /\ WakeNet /\ WrGo("take")
  /\ UNCHANGED <<buf, tail, received, netdone, nloc, out, cancel, disk, main>>

WrExit ==
  /\ wr = "exit"
  /\ ThreadExit /\ WrGo("gone")
  /\ UNCHANGED <<buf, ring, nvar, cancel, disk, main>>

Wr == WrTake \/ WrWrite \/ WrFail \/ WrWake \/ WrFree \/ WrExit

-----------------------------------------------------------------------------
(* The UI thread: starting the pump, and doing without it *)

\* client_step starts the writer first.
StartWriter ==
  /\ ui = "spawn"
  /\ live' = 2 /\ status' = "RUNNING" /\ done' = FALSE /\ cancel' = FALSE
  /\ WrGo("take") /\ ui' = "half"
  /\ UNCHANGED <<buf, ring, nvar, disk, opts, result>>

StartNet ==
  /\ ui = "half"
  /\ NetGo("loop") /\ ui' = "pump"
  /\ UNCHANGED <<buf, ring, wvar, out, cancel, disk, opts, result>>

\* No memory or no threads: drain inline.
StartNone ==
  /\ ui = "spawn"
  /\ ui' = "inline"
  /\ UNCHANGED <<buf, ring, nvar, wvar, out, cancel, disk, opts, result>>

\* Only the net thread failed to start: the writer is dismissed first.
StartHalf ==
  /\ ui = "half"
  /\ netdone' = TRUE /\ cancel' = TRUE
  /\ WakeWriter /\ ui' = "lone"
  /\ UNCHANGED <<buf, head, tail, count, received, nvar, wrst, out, disk, opts, result>>

LoneJoined ==
  /\ ui = "lone" /\ wr = "gone"
  /\ cancel' = FALSE /\ ui' = "inline"
  /\ UNCHANGED <<buf, ring, nvar, wvar, out, disk, opts, result>>

InlineData ==
  /\ ui = "inline"
  /\ \E r \in 1..Total-written :
       /\ file' = [k \in Bytes |-> IF k \in written+1..written+r
                                   THEN sock + k - written ELSE file[k]]
       /\ sock' = sock + r
       /\ written' = written + r
  /\ UNCHANGED <<slot, len, ring, nvar, wvar, out, cancel, main>>

\* client_reset: the kept bytes are what cbody_len counted.
Reset(keep) == /\ ui' = "closed"
               /\ result' = IF keep /\ written > 0 THEN "kept" ELSE "removed"
\* fclose, then 200, or 507 when the last bytes did not reach the card.
Close == ui' = "closed" /\ result' \in {"ok", "removed"}

InlineEnd ==
  /\ ui = "inline" /\ written = Total
  /\ Close
  /\ UNCHANGED <<buf, ring, nvar, wvar, out, cancel, disk, opts>>

\* The peer is gone or idle, the user aborts, or the card is full.
InlineDrop ==
  /\ ui = "inline"
  /\ \E keep \in {resumable, FALSE} : Reset(keep)
  /\ UNCHANGED <<buf, ring, nvar, wvar, out, cancel, disk, opts>>

(* The UI thread: ending the pump *)

Joined == net = "gone" /\ wr = "gone"

Finalize ==
  /\ ui = "pump" /\ done /\ Joined
  /\ IF status = "OK" THEN Close ELSE Reset(resumable /\ status # "WRITEERR")
  /\ cancel' = FALSE /\ done' = FALSE
  /\ UNCHANGED <<buf, ring, nvar, wvar, live, status, disk, opts>>

\* rx_stop, for a resume query about the push being received.  A second one
\* would only wake the threads again.
Stop ==
  /\ ui = "pump" /\ resumable /\ ~cancel
  /\ cancel' = TRUE /\ asked' = TRUE /\ ui' = "stopping"
  /\ UNCHANGED <<buf, ring, nvar, wvar, out, disk, resumable, result>>

\* rx_join; an abort gives up the partial first, a close or rebind does not.
Join ==
  /\ ui = "pump"
  /\ resumable' \in {resumable, FALSE}
  /\ cancel' = TRUE /\ ui' = "joining"
  /\ UNCHANGED <<buf, ring, nvar, wvar, out, disk, asked, result>>

WakeAll ==
  /\ ui \in {"stopping", "joining"}
  /\ WakeNet /\ WakeWriter /\ UNCHANGED <<nloc, wrst>>
  /\ ui' = IF ui = "stopping" THEN "pump" ELSE "join"
  /\ UNCHANGED <<buf, ring, out, cancel, disk, opts, result>>

JoinEnd ==
  /\ ui = "join" /\ Joined
  /\ Reset(resumable)
  /\ cancel' = FALSE /\ done' = FALSE
  /\ UNCHANGED <<buf, ring, nvar, wvar, live, status, disk, opts>>

Ui == \/ StartWriter \/ StartNet \/ StartNone \/ StartHalf \/ LoneJoined
      \/ InlineData \/ InlineEnd \/ InlineDrop
      \/ Finalize \/ Stop \/ Join \/ WakeAll \/ JoinEnd

\* The push is over; nothing is left to do for it.
Over == ui = "closed" /\ UNCHANGED vars

-----------------------------------------------------------------------------
Init ==
  /\ written \in 0..Total-1 /\ resumable \in BOOLEAN /\ asked = FALSE
  /\ sock = written
  /\ file = [k \in Bytes |-> IF k <= written THEN k ELSE 0]
  /\ slot = [i \in Index |-> [b \in 1..SlotSize |-> 0]]
  /\ len = [i \in Index |-> 0]
  /\ head = 0 /\ tail = 0 /\ count = 0 /\ received = written /\ netdone = FALSE
  /\ net = "off" /\ filled = 0 /\ stalls = 0 /\ netst = "OK"
  /\ wr = "off" /\ wrst = "OK"
  /\ live = 0 /\ cancel = FALSE /\ done = FALSE /\ status = "RUNNING"
  /\ ui = "spawn" /\ result = "none"

Next == Net \/ Wr \/ Ui \/ Over
Spec == Init /\ [][Next]_vars

\* The threads run, recv returns at the latest after its timeout, fwrite
\* returns, and the UI thread polls every frame.
FairSpec ==
  /\ Spec
  /\ WF_vars(Net) /\ WF_vars(Wr)
  /\ WF_vars(StartWriter \/ StartNet) /\ WF_vars(LoneJoined)
  /\ WF_vars(InlineEnd \/ InlineDrop)
  /\ WF_vars(Finalize) /\ WF_vars(WakeAll) /\ WF_vars(JoinEnd)

-----------------------------------------------------------------------------
(* Properties *)

NetPcs == {"off", "loop", "claim", "parked", "fill", "recv", "publish", "end", "exit", "gone"}
WrPcs  == {"off", "take", "parked", "write", "wake", "free", "exit", "gone"}
UiPcs  == {"spawn", "half", "lone", "inline", "pump", "stopping", "joining", "join", "closed"}

\* Types, for every reachable state.
BuffersOK ==
  /\ slot \in [Index -> [1..SlotSize -> 0..Total]]
  /\ len \in [Index -> 0..SlotSize]
  /\ file \in [Bytes -> 0..Total]
CountersOK ==
  /\ sock \in 0..Total /\ written \in 0..Total /\ received \in 0..Total
  /\ head \in Index /\ tail \in Index /\ count \in 0..NBuf
  /\ filled \in 0..SlotSize /\ stalls \in 0..StallMax /\ live \in 0..2
ControlOK ==
  /\ net \in NetPcs /\ netst \in {"OK", "PEERCLOSED", "ERR", "CANCELLED"}
  /\ wr \in WrPcs /\ wrst \in {"OK", "WRITEERR"} /\ netdone \in BOOLEAN
  /\ cancel \in BOOLEAN /\ done \in BOOLEAN /\ status \in Status
  /\ resumable \in BOOLEAN /\ asked \in BOOLEAN /\ ui \in UiPcs
  /\ result \in {"none", "ok", "kept", "removed"}
TypeOK == BuffersOK /\ CountersOK /\ ControlOK

\* The net thread never receives into the slot the writer is writing out,
\* although neither holds the mutex meanwhile (rx_net_fn's recv against
\* rx_wr_fn's fwrite).
SlotsDisjoint == net = "recv" /\ wr = "write" => head # tail

\* Whatever happens to the transfer, the bytes counted by cbody_len are on the
\* card, in order and from the right place in the stream: what client_reset
\* records as "have" is exactly what a resume may skip.
CountedIsRight == \A k \in 1..written : file[k] = k

\* A push that is answered "200 received" is there to its last byte
\* (rx_finalize on RX_OK, and the inline drain).
ReceivedIsWhole == result = "ok" => written = Total

\* Seen from outside the ring, the push is PushStream, except that one stopped
\* by a resume query may be accepted short.
Stream == INSTANCE PushStream WITH landed <- written
AcceptShort == asked /\ result = "none" /\ result' = "ok" /\ UNCHANGED written
StreamUnlessStopped ==
  Stream!Init /\ [][Stream!Next \/ AcceptShort]_<<written, result>>

\* Every push ends, however its threads and its sender stop: no thread is left
\* parked on a condition variable nobody signals.
PushEnds == <>(ui = "closed")
=============================================================================
