----------------------------- MODULE MtpSession -----------------------------
(***************************************************************************)
(* The console as a USB (MTP) device: source/mtp/mtp.cpp and the command   *)
(* loop of source/mtp/responder.cpp, with the UI's frame that shows the    *)
(* transfers (UsbMtpTick in source/MainApplication.cpp).                   *)
(*                                                                         *)
(* Five parties: the host, which sends one command at a time; the          *)
(* responder thread; the worker that unpacks received archives; the worker *)
(* that carries out deletes; and the UI thread, which starts and stops     *)
(* them, mirrors the ring of transfers into Queue-tab cards, and passes a  *)
(* card's cancel on.  A frame reads the ring and calls                     *)
(* CancelCurrentTransfer in two steps, with the lock free between them.    *)
(*                                                                         *)
(* A transfer is known by its id; it also stands for the content it        *)
(* brings.  Ids go on over a restart here (the device counts anew, with    *)
(* UsbMtpStop having forgotten the old ones).  The bulk pipe holds what    *)
(* the host has yet to have read: a command with its data set ("info",     *)
(* "send", "delete"), the first packet of a file ("head"), the rest        *)
(* ("body"), and the empty packet that ends a full last one ("zlp").  A    *)
(* first packet that announces more than is to come is "long".             *)
(*                                                                         *)
(* A definition marked "Variant" is the next one with a plausible slip;    *)
(* no behaviour uses it, it shows which property would notice.             *)
(***************************************************************************)
EXTENDS Integers, Sequences, FiniteSets, Functions

CONSTANTS
  Files,      \* paths the host sends to
  Archives,   \* those whose name makes SendObject unpack them
  None,
  XferMax,    \* rows of the ring
  MaxIds,     \* bound: announcements
  Chunks,     \* bound: packets of a file
  MaxStarts,  \* bound: times the UI brings USB up
  MaxFaults   \* bound: failed threads, opens, writes and closes, dropped links, files
              \* that end early, cancels, deletes

ASSUME MtpAssumption ==
  /\ Archives \subseteq Files /\ None \notin Files
  /\ {XferMax, Chunks, MaxStarts} \subseteq Nat \ {0} /\ {MaxIds, MaxFaults} \subseteq Nat

VARIABLES
  wire,   \* the cable and the host: link, dropped, pipe, await, told
  life,   \* g_up, g_stopping, g_stop (ev); usb_bg (bg)
  ui,     \* where the UI thread is: "idle", "cancel", in Start or in Stop
  resp,   \* the responder: pc, c->pending (file, id) and the file it receives
  ext,    \* the extract worker: pc, g_exq, its job
  del,    \* the delete worker: pc, g_delq, g_delcur
  ring,   \* g_xfers, g_xcur (None or an id), g_xcancel, g_xseq
  cards,  \* usb_xslots: what became of each id; wants: cancelled by the user;
          \* last: the file of the card that ended last
  disk,   \* what each path holds: 0 nothing, an id all it brought, -id a part of it
  past,   \* ids: unpacked, acked, over (overwritten or deleted by the host), early
          \* (sent to a path with a job pending), cut (acked, and only a part of it on
          \* the card); torn: a failed open
  spent   \* faults and starts so far

vars == <<wire, life, ui, resp, ext, del, ring, cards, disk, past, spent>>

Ids   == 1..MaxIds
Fault == spent.faults < MaxFaults /\ spent' = [spent EXCEPT !.faults = @ + 1]

NoPending == [file |-> None, id |-> 0]
Recv      == [n |-> 0, cancelled |-> FALSE, wfail |-> FALSE]
Resp(pc)  == [pc |-> pc, pend |-> NoPending, recv |-> Recv, stopping |-> FALSE]

-----------------------------------------------------------------------------
(* The ring of transfers (g_xlock) *)

InRing(id) == \E i \in DOMAIN ring.rows : ring.rows[i].id = id
SetRow(rows, id, st) ==
  [i \in DOMAIN rows |-> IF rows[i].id = id THEN [rows[i] EXCEPT !.st = st] ELSE rows[i]]

XferBegin(f) ==
  LET kept == IF Len(ring.rows) = XferMax THEN Tail(ring.rows) ELSE ring.rows
      id   == ring.seq + 1
  IN ring' = [rows |-> Append(kept, [id |-> id, file |-> f, st |-> "active"]),
              cur |-> id, cancel |-> FALSE, seq |-> id]

XferEnd(ok) ==
  ring' = [ring EXCEPT !.rows = SetRow(@, ring.cur, IF ok THEN "done" ELSE "failed"),
                       !.cur = None, !.cancel = FALSE]

-----------------------------------------------------------------------------
(* The host *)

\* Configured by a host, which takes longer to enumerate the console than the
\* responder to see that the link went away.
LinkUp ==
  /\ wire.link = "down" /\ resp.pc # "none" /\ ~wire.dropped
  /\ wire' = [wire EXCEPT !.link = "up"]
  /\ UNCHANGED <<life, ui, resp, ext, del, ring, cards, disk, past, spent>>

LinkDrop ==
  /\ wire.link = "up" /\ Fault
  /\ wire' = [link |-> "down", dropped |-> resp.pc \notin {"none", "poll", "exit"},
              pipe |-> <<>>, await |-> FALSE, told |-> None]
  /\ UNCHANGED <<life, ui, resp, ext, del, ring, cards, disk, past>>

\* The next command, once the last was answered.
Ask(packets, told) ==
  /\ wire.link = "up" /\ ~wire.await
  /\ wire' = [wire EXCEPT !.pipe = @ \o packets, !.await = TRUE, !.told = told]

\* The host may also think better of a file it has announced.
HostAnnounce ==
  /\ ring.seq < MaxIds
  /\ IF wire.told = None THEN UNCHANGED spent ELSE Fault
  /\ \E f \in Files : Ask(<<"info">>, f)
  /\ UNCHANGED <<life, ui, resp, ext, del, ring, cards, disk, past>>

\* A file of k packets, with what comes before them and after.
Sent(before, first, k, after) ==
  <<"send">> \o before \o <<first>> \o [i \in 1..(k - 1) |-> "body"] \o after

\* A last packet that is full is followed by an empty one.
HostSend ==
  /\ resp.pend.file # None /\ wire.told = resp.pend.file
  /\ \E k \in 1..Chunks : LET zlp == IF k = Chunks THEN <<"zlp">> ELSE <<>>
                           IN Ask(Sent(zlp, "head", k, zlp), None)
  /\ UNCHANGED <<life, ui, resp, ext, del, ring, cards, disk, past, spent>>

\* It may send less than it says: an empty packet comes in place of the last.
HostSendLess ==
  /\ resp.pend.file # None /\ wire.told = resp.pend.file /\ Fault
  /\ \E k \in 1..(Chunks - 1) : Ask(Sent(<<>>, "long", k, <<"zlp">>), None)
  /\ UNCHANGED <<life, ui, resp, ext, del, ring, cards, disk, past>>

\* A file the host sees listed: DeletePending hides one that is on its way out.
DeletePending(f) == f = del.cur \/ f \in Range(del.q)

HostDelete ==
  /\ wire.told = None /\ Fault
  /\ \E f \in Files :
       /\ disk[f] # 0 /\ ~DeletePending(f)
       /\ Ask(<<"delete">>, f)
  /\ UNCHANGED <<life, ui, resp, ext, del, ring, cards, disk, past>>

Host == LinkUp \/ LinkDrop \/ HostAnnounce \/ HostSend \/ HostSendLess \/ HostDelete

-----------------------------------------------------------------------------
(* The responder thread *)

First(p)  == wire.pipe # <<>> /\ Head(wire.pipe) = p
Bodies    == {i \in DOMAIN wire.pipe : wire.pipe[i] = "body"}
Taken     == [wire EXCEPT !.pipe = Tail(@)]
Answered  == [wire EXCEPT !.pipe = Tail(@), !.await = FALSE]
\* WaitTransfer gives up: Stop was called, or the host went away.
Cut       == life.ev \/ wire.dropped
Receiving == resp.pc \in {"prime", "write", "reap", "close", "drop"}
Path      == resp.pend.file
\* Whose content a path holds, all of it or a part.
Of(f)     == IF disk[f] < 0 THEN -disk[f] ELSE disk[f]

\* Worker
RPoll ==
  /\ resp.pc = "poll"
  /\ \/ life.stopping /\ resp' = Resp("exit")
     \/ ~life.stopping /\ wire.link = "up" /\ resp' = Resp("cmd")
  /\ UNCHANGED <<wire, life, ui, ext, del, ring, cards, disk, past, spent>>

RLeave ==
  /\ resp.pc = "cmd" /\ Cut
  /\ resp' = Resp("poll") /\ wire' = [wire EXCEPT !.dropped = FALSE]
  /\ UNCHANGED <<life, ui, ext, del, ring, cards, disk, past, spent>>

\* The command loop drops a stray packet and whatever is not a command.
RSkip ==
  /\ resp.pc = "cmd" /\ (\E p \in {"zlp", "head", "long", "body"} : First(p))
  /\ wire' = Taken
  /\ UNCHANGED <<life, ui, resp, ext, del, ring, cards, disk, past, spent>>

\* SendObjectInfo: BeginSendObject
RInfo ==
  /\ resp.pc = "cmd" /\ First("info")
  /\ wire' = Answered
  /\ XferBegin(wire.told)
  /\ resp' = [resp EXCEPT !.pend = [file |-> wire.told, id |-> ring.seq + 1]]
  /\ UNCHANGED <<life, ui, ext, del, cards, disk, past, spent>>

\* DeleteObject: the object is orphaned, the host answered, the path queued.
RDelete ==
  /\ resp.pc = "cmd" /\ First("delete")
  /\ wire' = [Answered EXCEPT !.told = None]
  /\ del' = [del EXCEPT !.q = Append(@, wire.told)]
  /\ past' = [past EXCEPT !.over = @ \cup {Of(wire.told)}]
  /\ UNCHANGED <<life, ui, resp, ext, ring, cards, disk, spent>>

\* A job that was handed out before still has the path to work on.
JobPending(f) == \/ DeletePending(f) \/ ext.job.file = f
                 \/ \E i \in DOMAIN ext.q : ext.q[i].file = f

\* SendObject: the file is opened, and emptied.
ROpen ==
  /\ resp.pc = "cmd" /\ First("send")
  /\ wire' = Taken
  /\ resp' = [resp EXCEPT !.pc = "prime", !.recv = Recv]
  /\ disk' = [disk EXCEPT ![Path] = -resp.pend.id]
  /\ past' = [past EXCEPT !.over = @ \cup {Of(Path)},
                          !.early = IF JobPending(Path) THEN @ \cup {resp.pend.id} ELSE @]
  /\ UNCHANGED <<life, ui, ext, del, ring, cards, spent>>

\* It cannot be, or is open in the extract worker.
RNoOpen ==
  /\ resp.pc = "cmd" /\ First("send")
  /\ IF ext.job.file = Path THEN UNCHANGED spent ELSE Fault
  /\ wire' = Answered
  /\ resp' = Resp("cmd") /\ XferEnd(FALSE)
  /\ past' = [past EXCEPT !.torn = TRUE]
  /\ UNCHANGED <<life, ui, ext, del, cards, disk>>

\* The first packet of the data phase, past stray ones; its header says how
\* many more there are to be.
RPrime ==
  /\ resp.pc = "prime"
  /\ \/ First("zlp") /\ UNCHANGED resp
     \/ /\ First("head") \/ First("long")
        /\ resp' = [resp EXCEPT !.pc = "write",
                                !.recv.n = Cardinality(Bodies) + (IF First("head") THEN 0 ELSE 1)]
  /\ wire' = Taken
  /\ UNCHANGED <<life, ui, ext, del, ring, cards, disk, past, spent>>

\* Variant: a failed write ends the loop.
RWriteGiveUp ==
  /\ resp.pc = "write"
  /\ LET quit == resp.recv.cancelled \/ ring.cancel
         next == IF resp.recv.n > 0 THEN "reap" ELSE "close"
     IN \/ /\ resp' = [resp EXCEPT !.pc = next, !.recv.cancelled = quit]
           /\ UNCHANGED spent
        \/ /\ ~quit /\ ~resp.recv.wfail /\ Fault
           /\ resp' = [resp EXCEPT !.pc = "close", !.recv.wfail = TRUE]
  /\ UNCHANGED <<wire, life, ui, ext, del, ring, cards, disk, past>>

\* One turn of the receive loop: post the next read, look for a cancel, write.
\* A cancel or a failed write stops the writing, not the reading.
RWrite ==
  /\ resp.pc = "write"
  /\ LET quit == resp.recv.cancelled \/ ring.cancel
         next == IF resp.recv.n > 0 THEN "reap" ELSE "close"
     IN \/ /\ resp' = [resp EXCEPT !.pc = next, !.recv.cancelled = quit]
           /\ UNCHANGED spent
        \/ /\ ~quit /\ ~resp.recv.wfail /\ Fault
           /\ resp' = [resp EXCEPT !.pc = next, !.recv.wfail = TRUE]
  /\ UNCHANGED <<wire, life, ui, ext, del, ring, cards, disk, past>>

RReap ==
  /\ resp.pc = "reap" /\ First("body")
  /\ wire' = Taken
  /\ resp' = [resp EXCEPT !.pc = "write", !.recv.n = @ - 1]
  /\ UNCHANGED <<life, ui, ext, del, ring, cards, disk, past, spent>>

\* An empty packet ends the file, whatever was announced.
REarlyEnd ==
  /\ resp.pc = "reap" /\ First("zlp")
  /\ wire' = Taken
  /\ resp' = [resp EXCEPT !.pc = "close", !.recv.cancelled = @ \/ ring.cancel]
  /\ UNCHANGED <<life, ui, ext, del, ring, cards, disk, past, spent>>

RBreak ==
  /\ resp.pc \in {"prime", "reap"} /\ Cut
  /\ resp' = [resp EXCEPT !.pc = "drop", !.stopping = TRUE]
  /\ UNCHANGED <<wire, life, ui, ext, del, ring, cards, disk, past, spent>>

Failed == resp.stopping \/ resp.recv.cancelled \/ resp.recv.wfail

\* An incomplete file is removed; the session ends too if the link did.
RFail ==
  /\ resp.pc \in {"drop", "close"} /\ Failed
  /\ disk' = [disk EXCEPT ![Path] = 0]
  /\ XferEnd(FALSE)
  /\ resp' = Resp(IF resp.stopping THEN "poll" ELSE "cmd")
  /\ wire' = [wire EXCEPT !.await = FALSE, !.dropped = @ /\ ~resp.stopping]
  /\ UNCHANGED <<life, ui, ext, del, cards, past, spent>>

\* Any other is answered for, and an archive handed to the worker (EnqueueExtract):
\* one that ended early is cut to what came of it, and whether the fclose could
\* write the rest out nobody looks.
RAck ==
  /\ resp.pc = "close" /\ ~Failed
  /\ LET id == resp.pend.id IN
       \/ /\ resp.recv.n = 0 /\ UNCHANGED spent
          /\ disk' = [disk EXCEPT ![Path] = id]
          /\ past' = [past EXCEPT !.acked = @ \cup {id}]
       \/ /\ IF resp.recv.n = 0 THEN Fault ELSE UNCHANGED spent
          /\ disk' = [disk EXCEPT ![Path] = -id]
          /\ past' = [past EXCEPT !.acked = @ \cup {id}, !.cut = @ \cup {id}]
  /\ wire' = [wire EXCEPT !.await = FALSE]
  /\ resp' = Resp("cmd")
  /\ IF Path \in Archives
     THEN /\ ring' = [ring EXCEPT !.rows = SetRow(@, ring.cur, "unzip"),
                                  !.cur = None, !.cancel = FALSE]
          /\ ext' = [ext EXCEPT !.q = Append(@, resp.pend)]
     ELSE XferEnd(TRUE) /\ UNCHANGED ext
  /\ UNCHANGED <<life, ui, del, cards>>

Responder == \/ RPoll \/ RLeave \/ RSkip \/ RInfo \/ RDelete \/ ROpen \/ RNoOpen \/ RPrime
             \/ RWrite \/ RReap \/ REarlyEnd \/ RBreak \/ RFail \/ RAck

-----------------------------------------------------------------------------
(* The extract worker *)

NoJob    == [file |-> None, id |-> 0, got |-> 0]
\* EnqueueExtract and EnqueueDelete fill the queue and then signal; a signal
\* left over when the queue was drained wakes the worker for nothing.
Idle(w)  == w.pc = "wait" /\ (w.q # <<>> \/ life.ev)
\* Back to where g_stopping is looked at, and then the queue.
Rest(w)  == IF life.stopping THEN "exit" ELSE IF w.q = <<>> THEN "wait" ELSE "pop"
Open(f)  == Receiving /\ Path = f   \* a file being written cannot be removed

EWait ==
  /\ Idle(ext) /\ ext' = [ext EXCEPT !.pc = Rest(ext)]
  /\ UNCHANGED <<wire, life, ui, resp, del, ring, cards, disk, past, spent>>

ETake ==
  /\ ext.pc = "pop"
  /\ LET next == Head(ext.q)
     IN ext' = [ext EXCEPT !.pc = "job", !.q = Tail(@),
                           !.job = [file |-> next.file, id |-> next.id, got |-> disk[next.file]]]
  /\ ring' = [ring EXCEPT !.rows = SetRow(@, Head(ext.q).id, "unzip")]
  /\ UNCHANGED <<wire, life, ui, resp, del, cards, disk, past, spent>>

\* Variant: the archive goes whether it could be unpacked or not.
EDoneRemove ==
  /\ ext.pc = "job"
  /\ \/ UNCHANGED past
     \/ ext.job.got > 0 /\ past' = [past EXCEPT !.unpacked = @ \cup {ext.job.got}]
  /\ disk' = IF Open(ext.job.file) THEN disk ELSE [disk EXCEPT ![ext.job.file] = 0]
  /\ ring' = [ring EXCEPT !.rows = SetRow(@, ext.job.id, "done")]
  /\ ext' = [ext EXCEPT !.pc = Rest(ext), !.job = NoJob]
  /\ UNCHANGED <<wire, life, ui, resp, del, cards, spent>>

\* RunOneExtract ends.  Only what unpacked loses its archive; either way the
\* row ends well.  A Stop makes ExWorkerProgress end the unpacking early.
EDone ==
  /\ ext.pc = "job"
  /\ \/ UNCHANGED <<disk, past>>
     \/ /\ ext.job.got > 0
        /\ past' = [past EXCEPT !.unpacked = @ \cup {ext.job.got}]
        /\ disk' = IF Open(ext.job.file) THEN disk ELSE [disk EXCEPT ![ext.job.file] = 0]
  /\ ring' = [ring EXCEPT !.rows = SetRow(@, ext.job.id, "done")]
  /\ ext' = [ext EXCEPT !.pc = Rest(ext), !.job = NoJob]
  /\ UNCHANGED <<wire, life, ui, resp, del, cards, spent>>

Extract == EWait \/ ETake \/ EDone

-----------------------------------------------------------------------------
(* The delete worker *)

DWait ==
  /\ Idle(del) /\ del' = [del EXCEPT !.pc = Rest(del)]
  /\ UNCHANGED <<wire, life, ui, resp, ext, ring, cards, disk, past, spent>>

DTake ==
  /\ del.pc = "pop"
  /\ del' = [del EXCEPT !.pc = "job", !.q = Tail(@), !.cur = Head(del.q)]
  /\ UNCHANGED <<wire, life, ui, resp, ext, ring, cards, disk, past, spent>>

\* A Stop, or a file in use, leaves it undone.
DDone ==
  /\ del.pc = "job"
  /\ disk' = IF Open(del.cur) \/ ext.job.file = del.cur \/ life.stopping THEN disk
             ELSE [disk EXCEPT ![del.cur] = 0]
  /\ del' = [del EXCEPT !.pc = Rest(del), !.cur = None]
  /\ UNCHANGED <<wire, life, ui, resp, ext, ring, cards, past, spent>>

Delete == DWait \/ DTake \/ DDone

-----------------------------------------------------------------------------
(* The UI thread: mtp::Start and mtp::Stop *)

\* From the connect screen, or in the background beside the server.  A thread
\* that cannot be started takes the ones before it down again.
StartR ==
  /\ ui = "idle" /\ ~life.up /\ spent.starts < MaxStarts
  /\ spent' = [spent EXCEPT !.starts = @ + 1]
  /\ \E b \in BOOLEAN : life' = [up |-> FALSE, stopping |-> FALSE, ev |-> FALSE, bg |-> b]
  /\ ring' = [ring EXCEPT !.rows = <<>>, !.cur = None, !.cancel = FALSE]
  /\ ext' = [ext EXCEPT !.q = <<>>]
  /\ \/ resp' = Resp("poll") /\ ui' = "startE"
     \/ UNCHANGED <<resp, ui>>
  /\ UNCHANGED <<wire, del, cards, disk, past>>

\* Variant: the threads are not woken.
HaltedSilent == life' = [life EXCEPT !.stopping = TRUE]

Halted == life' = [life EXCEPT !.stopping = TRUE, !.ev = TRUE]

StartE ==
  /\ ui = "startE"
  /\ \/ ext' = [ext EXCEPT !.pc = "wait"] /\ ui' = "startD" /\ UNCHANGED <<life, spent>>
     \/ Fault /\ Halted /\ ui' = "undoR" /\ UNCHANGED ext
  /\ UNCHANGED <<wire, resp, del, ring, cards, disk, past>>

\* Its queue is emptied here, with the responder already running.
StartD ==
  /\ ui = "startD"
  /\ \/ /\ del' = [del EXCEPT !.pc = "wait", !.q = <<>>]
        /\ life' = [life EXCEPT !.up = TRUE] /\ ui' = "idle" /\ UNCHANGED spent
     \/ /\ Fault /\ Halted /\ ui' = "undoE"
        /\ del' = [del EXCEPT !.q = <<>>]
  /\ UNCHANGED <<wire, resp, ext, ring, cards, disk, past>>

\* Joins, each of a thread that has been told; then Finalize drops the link.
Unplugged == wire' = [link |-> "down", dropped |-> FALSE, pipe |-> <<>>, await |-> FALSE, told |-> None]

JoinR(from, to) ==
  /\ ui = from /\ resp.pc = "exit"
  /\ resp' = Resp("none") /\ ui' = to
  /\ UNCHANGED <<life, ext, del, ring, disk, past, spent>>

JoinE(from, to) ==
  /\ ui = from /\ ext.pc = "exit"
  /\ ext' = [ext EXCEPT !.pc = "none"] /\ ui' = to
  /\ UNCHANGED <<wire, life, resp, del, ring, cards, disk, past, spent>>

UndoE == JoinE("undoE", "undoR")
UndoR == JoinR("undoR", "idle") /\ Unplugged /\ UNCHANGED cards
StopR == JoinR("stopR", "stopE") /\ UNCHANGED <<wire, cards>>
StopE == JoinE("stopE", "stopD")

\* The cards of copies in flight end with the session (UsbMtpStop).
Live(st)   == st \in {"recv", "unzip"}
LiveRows   == {i \in DOMAIN ring.rows : Live(cards.st[ring.rows[i].id])}
LastOf(ended) == IF ended = {} THEN cards.last
                 ELSE ring.rows[CHOOSE i \in ended : \A j \in ended : j <= i].file
EndLive    == [id \in Ids |-> IF Live(cards.st[id]) THEN "failed" ELSE cards.st[id]]
StopD ==
  /\ ui = "stopD" /\ del.pc = "exit"
  /\ del' = [del EXCEPT !.pc = "none"] /\ ui' = "idle"
  /\ life' = [life EXCEPT !.up = FALSE]
  /\ Unplugged
  /\ cards' = [cards EXCEPT !.st = EndLive, !.seen = FALSE]
  /\ UNCHANGED <<resp, ext, ring, disk, past, spent>>

Stop ==
  /\ ui = "idle" /\ life.up
  /\ Halted /\ ui' = "stopR"
  /\ UNCHANGED <<wire, resp, ext, del, ring, cards, disk, past, spent>>

Starting == StartE \/ StartD
Stopping == UndoE \/ UndoR \/ StopR \/ StopE \/ StopD

-----------------------------------------------------------------------------
(* The UI thread: UsbMtpTick *)

\* Variant: a host that went away makes the frame forget what it has shown.
TickGoneForget ==
  /\ ui = "idle" /\ life.up /\ life.bg /\ cards.seen /\ wire.link = "down"
  /\ cards' = [cards EXCEPT !.st = [id \in Ids |-> "unseen"], !.seen = FALSE]
  /\ UNCHANGED <<wire, life, ui, resp, ext, del, ring, disk, past, spent>>

\* The host went away.  In the background the session stays up and only the
\* cards in flight end; the connect screen stops it (Stop).
TickGone ==
  /\ ui = "idle" /\ life.up /\ life.bg /\ cards.seen /\ wire.link = "down"
  /\ cards' = [cards EXCEPT !.st = EndLive, !.seen = FALSE, !.last = LastOf(LiveRows)]
  /\ UNCHANGED <<wire, life, ui, resp, ext, del, ring, disk, past, spent>>

TickLost ==
  /\ ui = "idle" /\ life.up /\ ~life.bg /\ cards.seen /\ wire.link = "down"
  /\ Halted /\ ui' = "stopR"
  /\ UNCHANGED <<wire, resp, ext, del, ring, cards, disk, past, spent>>

\* (Frames that find nothing to do are left out.)
\* A card follows its row until the row ends.  A new row may be taken for the
\* driver's echo of a file that has just ended, and be given none.
Ended(st)  == st \in {"done", "failed"}
CardOf(row) ==
  LET st == cards.st[row.id]
  IN IF st = "unseen" \/ Live(st) THEN (IF row.st = "active" THEN "recv" ELSE row.st) ELSE st
EndsNow(i) == Ended(CardOf(ring.rows[i])) /\ ~Ended(cards.st[ring.rows[i].id])
Echo(i)    == /\ cards.st[ring.rows[i].id] = "unseen"
              /\ \/ cards.last = ring.rows[i].file
                 \/ \E j \in 1..(i - 1) : EndsNow(j) /\ ring.rows[j].file = ring.rows[i].file
Mirrored(echo) == [id \in Ids |->
  IF ~InRing(id) THEN cards.st[id]
  ELSE LET i == CHOOSE i \in DOMAIN ring.rows : ring.rows[i].id = id
       IN IF i \in echo THEN "echo" ELSE CardOf(ring.rows[i])]
Wanted(st) == \E id \in cards.wants : Live(st[id])
TickMirror ==
  /\ ui = "idle" /\ life.up /\ ~(cards.seen /\ wire.link = "down")
  /\ \E echo \in SUBSET {i \in DOMAIN ring.rows : Echo(i)} :
       cards' = [cards EXCEPT
         !.st = Mirrored(echo), !.seen = @ \/ wire.link = "up",
         !.last = LastOf({i \in DOMAIN ring.rows \ echo : EndsNow(i)})]
  /\ cards' # cards \/ Wanted(cards.st)
  /\ ui' = IF Wanted(cards'.st) THEN "cancel" ELSE "idle"
  /\ UNCHANGED <<wire, life, resp, ext, del, ring, disk, past, spent>>

\* The card of a transfer still in progress was cancelled: whatever is being
\* received by now is asked to stop.
TickCancel ==
  /\ ui = "cancel" /\ ui' = "idle"
  /\ ring' = [ring EXCEPT !.cancel = @ \/ ring.cur # None]
  /\ UNCHANGED <<wire, life, resp, ext, del, cards, disk, past, spent>>

\* The user cancels a card that is in progress.
UserCancel ==
  /\ ui = "idle" /\ Fault
  /\ \E id \in Ids \ cards.wants : Live(cards.st[id]) /\ cards' = [cards EXCEPT !.wants = @ \cup {id}]
  /\ UNCHANGED <<wire, life, ui, resp, ext, del, ring, disk, past>>

Tick == TickGone \/ TickLost \/ TickMirror \/ TickCancel

-----------------------------------------------------------------------------
Init ==
  /\ wire = [link |-> "down", dropped |-> FALSE, pipe |-> <<>>, await |-> FALSE, told |-> None]
  /\ life = [up |-> FALSE, stopping |-> FALSE, ev |-> FALSE, bg |-> FALSE]
  /\ ui = "idle" /\ resp = Resp("none")
  /\ ext = [pc |-> "none", q |-> <<>>, job |-> NoJob]
  /\ del = [pc |-> "none", q |-> <<>>, cur |-> None]
  /\ ring = [rows |-> <<>>, cur |-> None, cancel |-> FALSE, seq |-> 0]
  /\ cards = [st |-> [id \in Ids |-> "unseen"], wants |-> {}, seen |-> FALSE, last |-> None]
  /\ disk = [f \in Files |-> 0]
  /\ past = [unpacked |-> {}, acked |-> {}, over |-> {}, early |-> {}, cut |-> {},
             torn |-> FALSE]
  /\ spent = [faults |-> 0, starts |-> 0]

Next == \/ Host \/ Responder \/ Extract \/ Delete
        \/ StartR \/ Starting \/ Stop \/ Stopping \/ Tick \/ UserCancel

Spec == Init /\ [][Next]_vars

\* The threads go on, the UI's in a start, a stop or with frames; the host, the
\* user and the cable are free.
FairSpec == Spec /\ WF_vars(Responder) /\ WF_vars(Extract) /\ WF_vars(Delete)
                 /\ WF_vars(Starting \/ Stopping \/ Tick)

-----------------------------------------------------------------------------
(* What is to hold *)

\* The variables keep their types.
TypeOK ==
  /\ wire.link \in {"up", "down"} /\ wire.told \in Files \cup {None}
  /\ ui \in {"idle", "cancel", "startE", "startD", "undoE", "undoR", "stopR", "stopE", "stopD"}
  /\ resp.pc \in {"none", "poll", "cmd", "prime", "write", "reap", "drop", "close", "exit"}
  /\ {ext.pc, del.pc} \subseteq {"none", "wait", "pop", "job", "exit"}
  /\ Len(ring.rows) <= XferMax /\ ring.cur \in Ids \cup {None}
  /\ \A id \in Ids : cards.st[id] \in {"unseen", "echo", "recv", "unzip", "done", "failed"}
  /\ disk \in [Files -> (-MaxIds)..MaxIds]

\* The command loop never has a file's bytes before it, except after a file
\* that could not be opened: a cancelled or failing one is read to its end.
PipeInSync ==
  resp.pc = "cmd" /\ "body" \in Range(wire.pipe) =>
    \/ past.torn
    \/ \E i \in DOMAIN wire.pipe : wire.pipe[i] = "send"

\* What the host was told has arrived stays on the card, as sent or unpacked, unless
\* the host itself overwrote or deleted it, or had sent it to a path on which a delete
\* or an unpacking was still to be carried out.  Of what ended early, or was lost by
\* the fclose, the part that came stays, and is not taken for the archive.
Stored(id) == \E f \in Files : disk[f] = id
Kept(id)   == \/ id \in past.unpacked \cup past.over \/ Stored(id)
              \/ id \in past.cut /\ Stored(-id)
GameOnDisk == /\ \A id \in past.acked : Kept(id) \/ id \in past.early
              /\ past.cut \cap past.unpacked = {}

\* ... and is whole: "an incomplete write (cancel, disconnect, or short read) is
\* garbage" (source/mtp/responder.cpp:1825).
AckedIsWhole == past.cut = {}

\* GameOnDisk without the job that was pending ("already gone as far as the host is
\* concerned", source/mtp/responder.cpp:932).
PushedStays == \A id \in past.acked : Kept(id)

\* A transfer shown as unpacking is in the worker's hands, queued or running:
\* whatever becomes of it, its row does not stay behind.
InHand(id)    == ext.job.id = id \/ \E i \in DOMAIN ext.q : ext.q[i].id = id
UnzipIsInHand == \A i \in DOMAIN ring.rows :
  ring.rows[i].st = "unzip" => InHand(ring.rows[i].id)

\* A card that has ended stays as it ended: no second card for one transfer; and
\* none shows an unpacking that nobody does.
NoGhostCard ==
  [][/\ \A id \in Ids : cards.st[id] \in {"done", "failed", "echo"} => cards'.st[id] = cards.st[id]
     /\ UnzipIsInHand']_vars

\* A transfer the user's cancel ends is one whose card was cancelled ("ask the
\* responder to abort just that transfer", source/MainApplication.cpp:10938).
CancelHitsItsTarget == resp.recv.cancelled => resp.pend.id \in cards.wants

\* Stop and a start that fails come back: no thread waits on for ever.
StopReturns == (ui \in {"stopR", "undoE", "undoR"}) ~> (ui = "idle")
=============================================================================
