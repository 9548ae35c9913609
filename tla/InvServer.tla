------------------------------ MODULE InvServer ------------------------------
(***************************************************************************)
(* The always-on server the PC talks to: the two connection slots of       *)
(* source/httpsrv.c (client_fd, and side_fd for a second connection while  *)
(* a long transfer holds the first) and the frame that drives them,        *)
(* InvServerPoll and PollXfers in source/MainApplication.cpp: recovery of  *)
(* the listening socket after sleep, the Queue-tab item of a push that is  *)
(* being received, and the folder requests handed to the UI.               *)
(*                                                                         *)
(* All of it runs on the UI thread, in the order of pc, once per frame.    *)
(* The PC, the worker that receives a push or deletes a folder, the user,  *)
(* and sleep come in where a frame begins: what arrives later counts from  *)
(* the frame that finds it.  What a push does to the card is the subject   *)
(* of PushInbox and RxPump; here it is one long thing in the main slot.  A *)
(* deadline may pass at any time; fairness makes it pass in the end.       *)
(*                                                                         *)
(* A definition marked "Variant" is the next one with a plausible slip;    *)
(* no behaviour uses it, it shows which property would notice.             *)
(***************************************************************************)
EXTENDS Integers, Sequences, FiniteSets, Functions

CONSTANTS
  Conns,     \* bound: connections at a time
  Kinds,     \* requests it may make on each
  None,
  MaxFaults  \* bound: sleeps, dropped connections, cancels, switches

Requests == {"read", "resume", "folder", "pull", "push", "form", "rm"}
ASSUME ServerAssumption ==
  Kinds \in [Conns -> SUBSET Requests] /\ None \notin Conns /\ MaxFaults \in Nat

VARIABLES
  pc,       \* what this frame does next
  inv_open, \* the server is switched on
  listener, \* "live", "deaf" after its interface went away, or "none"
  backlog,  \* connections not accepted yet
  open,     \* connections neither side's program has closed
  kind,     \* what each asks for
  sent,     \* connections whose head has arrived whole
  lost,     \* connections whose peer has hung up or died
  mute,     \* ... and of which the server hears nothing, not even that
  main,     \* client_fd
  side,     \* side_fd
  doing,    \* what the main slot is busy with
  worker,   \* the thread of a push or a delete: "none", "run", "ok", "fail"
  halt,     \* rx_cancel: the worker has been asked to stop
  folder,   \* folder_req_target
  item,     \* live_xslot: the push whose item is mirrored (inv_recv_active)
  items,    \* pushes whose Queue-tab item is in progress
  quit,     \* ... and which the user has cancelled there
  was,      \* inv_was_receiving
  link,     \* the address: "same" as the socket's or "new"; no socket to be
            \* had yet ("half"); none ("down")
  link_up,  \* inv_link_up
  gap,      \* the clock has jumped since inv_wake_ck_s
  faults    \* faults so far

net  == <<inv_open, listener, link, link_up, gap>>
pc_  == <<kind, sent, lost, mute>>
slot == <<main, doing, worker, halt>>
live == <<item, items, quit, was>>
vars == <<pc, net, backlog, open, pc_, side, slot, live, folder, faults>>

Fault    == faults < MaxFaults /\ faults' = faults + 1
Long     == main # None /\ doing \in {"pull", "pump", "rm"}   \* main_slot_long
Receiving == listener # "none" /\ main # None /\ doing \in {"pump", "inline", "form"}
\* The server can tell that the peer has closed.
Closed(c) == c \in lost \ mute
Dead(c)   == c \in lost
\* client_reset / side_reset, whatever the answer was: nothing, 200, 503, ...
Ended(c) == open \ {c}

-----------------------------------------------------------------------------
(* The PC *)

\* Who was heard out or given up may come again: the desktop polls on.
Connect(c) ==
  /\ pc = "wake" /\ c \notin open \cup items /\ listener = "live" /\ link \in {"same", "new"}
  /\ \E k \in Kinds[c] : kind' = [kind EXCEPT ![c] = k]
  /\ open' = open \cup {c} /\ backlog' = Append(backlog, c)
  /\ UNCHANGED <<pc, net, sent, lost, mute, side, slot, live, folder, faults>>

SendHead(c) ==
  /\ pc = "wake" /\ c \in open /\ c \notin sent \cup lost
  /\ sent' = sent \cup {c}
  /\ UNCHANGED <<pc, net, backlog, open, kind, lost, mute, side, slot, live, folder, faults>>

HangUp(c) ==
  /\ pc = "wake" /\ c \in open /\ c \notin lost /\ Fault
  /\ lost' = lost \cup {c}
  /\ UNCHANGED <<pc, net, backlog, open, kind, sent, mute, side, slot, live, folder>>

-----------------------------------------------------------------------------
(* The worker: the pump of RxPump, or rm_thread_fn *)

\* A push ends well only with a peer that goes on sending; a delete also fails
\* halfway.
WorkerEnds ==
  /\ worker = "run"
  /\ worker' \in {"ok", "fail"}
  /\ worker' = "ok" => ~(doing = "pump" /\ (halt \/ Dead(main)))
  /\ UNCHANGED <<pc, net, backlog, open, pc_, side, main, doing, halt, live, folder, faults>>

\* Nothing keeps a pump going that was told to stop or whose peer is gone: the
\* stall watchdog of rx_net_fn sees to the second.
MustEnd == doing = "pump" /\ (halt \/ Dead(main))

-----------------------------------------------------------------------------
(* Sleep, the network, the user *)

\* The interface goes, and with it every connection; the app does not run
\* until the console wakes, possibly before Wi-Fi is back.
Sleep ==
  /\ pc = "wake" /\ Fault
  /\ listener' = IF listener = "live" THEN "deaf" ELSE listener
  /\ lost' = lost \cup {c \in Conns : c \in open}
  /\ mute' = lost'
  /\ gap' = TRUE
  /\ link' \in {"same", "new", "down"}
  /\ UNCHANGED <<pc, inv_open, link_up, backlog, open, kind, sent, side, slot, live, folder>>

LinkReturns ==
  /\ \/ link = "down" /\ link' \in {"half", "same", "new"}
     \/ link = "half" /\ link' \in {"same", "new"}
  /\ UNCHANGED <<pc, inv_open, listener, link_up, gap, backlog, open, pc_, side, slot, live, folder, faults>>

UserCancel ==
  /\ pc = "wake" /\ Fault
  /\ \E c \in items \ quit : quit' = quit \cup {c}
  /\ UNCHANGED <<pc, net, backlog, open, pc_, side, slot, item, items, was, folder>>

\* rx_join, rm_join, client_reset, side_reset and the queue of the old listener
Cleared ==
  /\ open' = {} /\ backlog' = <<>>
  /\ main' = None /\ side' = None /\ doing' = "head"
  /\ worker' = "none" /\ halt' = FALSE

\* InvServerStop and InvServerStart; a start forgets what the UI had not come to.
Switch ==
  /\ pc = "wake" /\ Fault
  /\ inv_open' = ~inv_open
  /\ IF inv_open
     THEN /\ listener' = "none" /\ Cleared
          /\ UNCHANGED <<link, link_up, gap, folder>>
     ELSE /\ listener' = "live" /\ link_up' = TRUE /\ gap' = FALSE
          /\ link \in {"same", "new"} /\ link' = "same" /\ folder' = None
          /\ UNCHANGED <<open, backlog, side, slot>>
  /\ UNCHANGED <<pc, pc_, live>>

-----------------------------------------------------------------------------
(* A frame: first the listening socket *)

LiveRecvEnd == /\ items' = items \ {item} /\ item' = None /\ quit' = quit \ {item}

\* (Variant: the socket is swapped under a worker that still runs.)
RebindKeepingWorker ==
  \/ /\ link # "half" /\ listener' = "live" /\ link' = IF link = "down" THEN link ELSE "same"
     /\ open' = {} /\ backlog' = <<>>
     /\ main' = None /\ side' = None /\ doing' = "head"
     /\ UNCHANGED <<worker, halt>>
  \/ link \in {"half", "down"} /\ listener' = "none" /\ Cleared /\ UNCHANGED link

\* httpsrv_rebind: whatever was in flight is dropped, even when no new socket
\* can be had.
Rebind ==
  \/ /\ link # "half" /\ listener' = "live" /\ link' = IF link = "down" THEN link ELSE "same"
     /\ Cleared
  \/ link \in {"half", "down"} /\ listener' = "none" /\ Cleared /\ UNCHANGED link

\* (Variant: a failed rebind is not tried again.)
WakeCheckOnce ==
  /\ pc = "wake" /\ inv_open
  /\ pc' = "link"
  /\ gap' = FALSE
  /\ IF gap /\ ~Receiving
     THEN /\ Rebind
          /\ IF listener' = "live"
             THEN LiveRecvEnd /\ was' = FALSE /\ link_up' = (link # "down")
             ELSE UNCHANGED <<live, link_up>>
     ELSE UNCHANGED <<listener, link, link_up, open, backlog, side, slot, live>>
  /\ UNCHANGED <<inv_open, pc_, folder, faults>>

\* The clock has jumped: we have slept.
WakeCheck ==
  /\ pc = "wake" /\ inv_open
  /\ pc' = "link"
  /\ IF gap /\ ~Receiving
     THEN /\ Rebind
          /\ gap' = (listener' = "none")
          /\ IF listener' = "live"
             THEN LiveRecvEnd /\ was' = FALSE /\ link_up' = (link # "down")
             ELSE UNCHANGED <<live, link_up>>
     ELSE /\ gap' = (gap /\ listener = "none")
          /\ UNCHANGED <<listener, link, link_up, open, backlog, side, slot, live>>
  /\ UNCHANGED <<inv_open, pc_, folder, faults>>

\* The link is back, or the address has changed.  (Looked at every two seconds;
\* what comes and goes in between is what comes and goes between two frames.)
LinkDue == ~Receiving /\ link # "down" /\ (~link_up \/ link = "new")

LinkCheck ==
  /\ pc = "link"
  /\ pc' = "recv"
  /\ IF LinkDue
     THEN /\ Rebind
          /\ link_up' = (listener' = "live")
          /\ IF listener' = "live" THEN LiveRecvEnd /\ was' = FALSE ELSE UNCHANGED live
     ELSE /\ link_up' = IF Receiving THEN link_up ELSE link # "down"
          /\ UNCHANGED <<listener, link, open, backlog, side, slot, live>>
  /\ UNCHANGED <<inv_open, gap, pc_, folder, faults>>

-----------------------------------------------------------------------------
(* ... then the item of the push that is coming in *)

\* httpsrv_abort for a cancelled item; the rest of the poll is left out.
RecvCancel ==
  /\ pc = "recv" /\ item \in quit
  /\ LiveRecvEnd /\ was' = FALSE
  /\ open' = Ended(main)
  /\ main' = None /\ doing' = "head" /\ worker' = "none" /\ halt' = FALSE
  /\ pc' = "tick"
  /\ UNCHANGED <<net, backlog, pc_, side, folder, faults>>

RecvBegin ==
  /\ pc = "recv" /\ item \notin quit
  /\ was' = Receiving
  /\ IF Receiving /\ ~was
     THEN item' = main /\ items' = items \cup {main}
     ELSE UNCHANGED <<item, items>>
  /\ pc' = "side"
  /\ UNCHANGED <<net, backlog, open, pc_, side, slot, quit, folder, faults>>

-----------------------------------------------------------------------------
(* ... httpsrv_poll: the side slot *)

\* side_answer: the quick reads.  A resume query is for the push that is being
\* received or for another one; for the first, the pump is told to stop.
SideQuick(c) ==
  /\ side' = None
  /\ \/ open' = Ended(c) /\ UNCHANGED halt
     \/ kind[c] = "resume" /\ doing = "pump" /\ open' = Ended(c) /\ halt' = TRUE
  /\ UNCHANGED <<main, doing, worker, backlog>>

\* (Variant: a parked request waits for its turn, whatever happens.)
SideParkForever(c) ==
  IF main = None
  THEN /\ main' = c /\ doing' = "head" /\ side' = None
       /\ UNCHANGED <<open, backlog, worker, halt>>
  ELSE IF Closed(c)
  THEN open' = Ended(c) /\ side' = None /\ UNCHANGED <<slot, backlog>>
  ELSE UNCHANGED <<open, side, slot, backlog>>

\* Anything else is handed to a free main slot, or waits for one: no longer
\* than SIDE_PARK_NS, or than its peer.
SidePark(c) ==
  IF main = None
  THEN /\ main' = c /\ doing' = "head" /\ side' = None
       /\ UNCHANGED <<open, backlog, worker, halt>>
  ELSE IF Closed(c)
  THEN open' = Ended(c) /\ side' = None /\ UNCHANGED <<slot, backlog>>
  ELSE /\ UNCHANGED <<slot, backlog>>
       /\ \/ UNCHANGED <<open, side>>
          \/ open' = Ended(c) /\ side' = None

\* The head of the side connection, once it is there.
SideHead(c) ==
  IF c \in sent
  THEN IF kind[c] \in {"read", "resume"} THEN SideQuick(c) ELSE SidePark(c)
  ELSE \/ UNCHANGED <<open, side, slot, backlog>> /\ ~Closed(c)
       \/ open' = Ended(c) /\ side' = None /\ UNCHANGED <<slot, backlog>>

CanAccept == listener = "live" /\ backlog # <<>>

\* A server without a socket is not polled.
PollNothing ==
  /\ pc = "side" /\ listener = "none"
  /\ pc' = "tick"
  /\ UNCHANGED <<net, backlog, open, pc_, side, slot, live, folder, faults>>

SideNobody ==
  /\ pc = "side" /\ listener # "none" /\ side = None /\ ~(Long /\ CanAccept)
  /\ pc' = "main"
  /\ UNCHANGED <<net, backlog, open, pc_, side, slot, live, folder, faults>>

SideStep ==
  /\ pc = "side" /\ listener # "none" /\ side # None
  /\ SideHead(side)
  /\ pc' = "main"
  /\ UNCHANGED <<net, pc_, live, folder, faults>>

\* A second connection is taken while the first is long about something.
SideAccept ==
  /\ pc = "side" /\ side = None /\ Long /\ CanAccept
  /\ side' = Head(backlog) /\ backlog' = Tail(backlog)
  /\ pc' = "read"
  /\ UNCHANGED <<net, open, pc_, slot, live, folder, faults>>

SideRead ==
  /\ pc = "read" /\ pc' = "main"
  /\ SideHead(side)
  /\ UNCHANGED <<net, pc_, live, folder, faults>>

-----------------------------------------------------------------------------
(* ... and the main slot *)

MainAccept ==
  /\ pc = "main" /\ main = None /\ CanAccept
  /\ main' = Head(backlog) /\ backlog' = Tail(backlog)
  /\ doing' = "head" /\ pc' = "serve"
  /\ UNCHANGED <<net, open, pc_, side, worker, halt, live, folder, faults>>

MainNobody ==
  /\ pc = "main" /\ main = None /\ ~CanAccept
  /\ pc' = "tick"
  /\ UNCHANGED <<net, backlog, open, pc_, side, slot, live, folder, faults>>

Free == open' = Ended(main) /\ main' = None /\ doing' = "head"
Serving == \/ pc = "main" /\ main # None
           \/ pc = "serve"

\* No whole head yet: the peer closes, is too slow, or goes on.
ServeWait ==
  /\ Serving /\ doing = "head" /\ main \notin sent
  /\ \/ Free
     \/ ~Closed(main) /\ UNCHANGED <<open, main, doing>>
  /\ pc' = "tick"
  /\ UNCHANGED <<net, backlog, pc_, side, worker, halt, live, folder, faults>>

\* Answered at once; a folder request only when none is waiting for the UI.
Answer ==
  IF kind[main] # "folder" THEN Free /\ UNCHANGED folder
  ELSE IF folder = None THEN Free /\ folder' = main
  ELSE Free /\ UNCHANGED folder

ServeAnswer ==
  /\ Serving /\ doing = "head" /\ main \in sent
  /\ kind[main] \in {"read", "resume", "folder"}
  /\ Answer
  /\ pc' = "tick"
  /\ UNCHANGED <<net, backlog, pc_, side, worker, halt, live, faults>>

\* A pull, a push (on two threads, or inline if they cannot be had), a body
\* to be buffered, a recursive delete.
ServeStart ==
  /\ Serving /\ doing = "head" /\ main \in sent
  /\ \/ kind[main] = "pull" /\ doing' = "pull" /\ UNCHANGED worker
     \/ kind[main] = "push" /\ doing' = "pump" /\ worker' = "run"
     \/ kind[main] = "push" /\ doing' = "inline" /\ UNCHANGED worker
     \/ kind[main] = "form" /\ doing' = "form" /\ UNCHANGED worker
     \/ kind[main] = "rm" /\ doing' = "rm" /\ worker' = "run"
  /\ pc' = "tick"
  /\ UNCHANGED <<net, backlog, open, pc_, main, side, halt, live, folder, faults>>

\* stream_out: the last slice, one that does not go out, or another.
ServePull ==
  /\ Serving /\ doing = "pull"
  /\ \/ Dead(main) /\ Free
     \/ ~Dead(main) /\ Free
     \/ ~Dead(main) /\ UNCHANGED <<open, main, doing>>
  /\ pc' = "tick"
  /\ UNCHANGED <<net, backlog, pc_, side, worker, halt, live, folder, faults>>

\* rm_finalize
ServeRm ==
  /\ Serving /\ doing = "rm"
  /\ IF worker = "run" THEN UNCHANGED <<open, main, doing, worker>>
     ELSE Free /\ worker' = "none"
  /\ pc' = "tick"
  /\ UNCHANGED <<net, backlog, pc_, side, halt, live, folder, faults>>

\* What the caller makes of 1 (received) and 4 (failed): the item ends.
Reported == IF item = None THEN UNCHANGED <<item, items, quit>> ELSE LiveRecvEnd

\* (Variant: only a received push is reported.)
ServePumpSilent ==
  /\ Serving /\ doing = "pump"
  /\ IF worker = "run" THEN UNCHANGED <<open, main, doing, worker, halt, item, items, quit>>
     ELSE /\ Free
          /\ worker' = "none" /\ halt' = FALSE
          /\ IF worker = "ok" THEN Reported ELSE UNCHANGED <<item, items, quit>>
  /\ pc' = "tick"
  /\ UNCHANGED <<net, backlog, pc_, side, was, folder, faults>>

\* rx_finalize
ServePump ==
  /\ Serving /\ doing = "pump"
  /\ IF worker = "run" THEN UNCHANGED <<open, main, doing, worker, halt, item, items, quit>>
     ELSE /\ Free
          /\ worker' = "none" /\ halt' = FALSE
          /\ Reported
  /\ pc' = "tick"
  /\ UNCHANGED <<net, backlog, pc_, side, was, folder, faults>>

\* The inline drain of a push, and of a buffered body: a push that breaks off
\* is reported as failed (4), a body is not (0).
ServeBody ==
  /\ Serving /\ doing \in {"inline", "form"}
  /\ \/ ~Dead(main) /\ Free /\ Reported
     \/ Free /\ IF doing = "inline" THEN Reported ELSE UNCHANGED <<item, items, quit>>
     \/ ~Closed(main) /\ UNCHANGED <<open, main, doing, item, items, quit>>
  /\ pc' = "tick"
  /\ UNCHANGED <<net, backlog, pc_, side, worker, halt, was, folder, faults>>

\* PollXfers: InvFolderTick carries out the folder request.
EndOfPoll ==
  /\ pc = "tick" \/ (pc = "wake" /\ ~inv_open)
  /\ pc' = "wake"
  \* nothing is left of a closed connection
  /\ sent' = sent \cap open /\ lost' = lost \cap open /\ mute' = mute \cap open

Tick ==
  /\ EndOfPoll
  /\ folder' = None
  /\ UNCHANGED <<net, backlog, open, kind, side, slot, live, faults>>

\* While the Tools panel is out, the server is polled and nothing else.
PanelTick ==
  /\ EndOfPoll
  /\ UNCHANGED <<net, backlog, open, kind, side, slot, live, folder, faults>>

-----------------------------------------------------------------------------
Init ==
  /\ pc = "wake" /\ inv_open = TRUE /\ listener = "live"
  /\ backlog = <<>> /\ open = {}
  /\ kind = [c \in Conns |-> "read"] /\ sent = {} /\ lost = {} /\ mute = {}
  /\ main = None /\ side = None /\ doing = "head" /\ worker = "none" /\ halt = FALSE
  /\ folder = None
  /\ item = None /\ items = {} /\ quit = {} /\ was = FALSE
  /\ link = "same" /\ link_up = TRUE /\ gap = FALSE
  /\ faults = 0

Serve == ServeWait \/ ServeAnswer \/ ServeStart \/ ServePull \/ ServeRm \/ ServePump \/ ServeBody
Frame == \/ WakeCheck \/ LinkCheck \/ RecvCancel \/ RecvBegin
         \/ PollNothing \/ SideNobody \/ SideStep \/ SideAccept \/ SideRead
         \/ MainAccept \/ MainNobody \/ Serve \/ Tick \/ PanelTick

Next == \/ \E c \in Conns : Connect(c) \/ SendHead(c) \/ HangUp(c)
        \/ WorkerEnds \/ Sleep \/ LinkReturns \/ UserCancel \/ Switch
        \/ Frame

Spec == Init /\ [][Next]_vars

\* Frames go on, the link comes back, deadlines pass, and a pump with nothing
\* left to do ends.  A transfer may last for ever.
FairSpec ==
  /\ Spec
  /\ WF_vars(Frame) /\ WF_vars(LinkReturns) /\ WF_vars(WorkerEnds /\ MustEnd)
  /\ SF_vars(ServeWait /\ main' = None) /\ SF_vars(ServeBody /\ main' = None)
  /\ SF_vars(SideStep /\ side' = None)

-----------------------------------------------------------------------------
(* What is to hold *)

\* The variables keep their types.
TypeOK ==
  /\ pc \in {"wake", "link", "recv", "side", "read", "main", "serve", "tick"}
  /\ listener \in {"live", "deaf", "none"} /\ backlog \in Seq(Conns)
  /\ kind \in [Conns -> Requests]
  /\ open \cup sent \subseteq Conns /\ mute \subseteq lost /\ lost \subseteq Conns
  /\ {main, side, folder, item} \subseteq Conns \cup {None}
  /\ doing \in {"head", "pull", "pump", "inline", "form", "rm"}
  /\ worker \in {"none", "run", "ok", "fail"}
  /\ items \subseteq Conns /\ quit \subseteq items
  /\ link \in {"same", "new", "half", "down"} /\ faults \in 0..MaxFaults

\* An open connection is in exactly one place, the backlog or a slot, and a
\* slot holds no connection that has ended: no answer is sent twice, no socket
\* is used after its close, none is forgotten open.
OnePlace ==
  \A c \in Conns : c \in open <=>
    Cardinality({i \in DOMAIN backlog : backlog[i] = c})
      + (IF main = c THEN 1 ELSE 0) + (IF side = c THEN 1 ELSE 0) = 1

\* A thread works only for the connection that holds the main slot, and is not
\* left behind by a rebind, a cancel or a switch-off.
WorkerIsOwned == worker # "none" => main # None /\ doing \in {"pump", "rm"}

\* Nothing that waits in the side slot with its head complete is overtaken by
\* a connection still in the backlog ("in arrival order", source/httpsrv.c:3121).
NoOvertaking ==
  [][main' # main /\ main' # None /\ side \in sent => main' = side]_vars

\* A folder request the PC was told is queued is not replaced by the next,
\* however long the Tools panel keeps the UI from it.
FolderKept == [][folder # None => folder' \in {folder, None}]_vars

\* The Queue-tab item of a streamed push ends with the push, whichever way it
\* ends, unless the server is switched off under it.
ItemEndsWithPush ==
  [][item # None /\ main = item /\ kind[item] = "push" /\ main' # item /\ inv_open'
       => item' = None /\ item \notin items']_vars

\* The item on show is that of the transfer in the main slot ("finished or
\* aborted: mark its Queue-tab item done/failed", MainApplication.cpp:10196).
ItemIsLive == pc = "wake" /\ item # None => main = item

\* A connection to a live server is not kept waiting by a transfer, however
\* long that takes: it is served, answered busy, or dropped.
NobodyWaitsForever ==
  \A c \in Conns : (c \in open /\ c # main) ~> (c \notin open \/ c = main \/ listener = "deaf")

\* A console that wakes with nothing coming in hears the PC again.
HearsAgain == (pc = "wake" /\ inv_open /\ gap /\ ~Receiving) ~> (listener = "live" \/ ~inv_open)

\* The server never stays on and deaf ("the toggle still reads "on" but the
\* companion can't connect", MainApplication.cpp:6237).
NeverDeaf == (inv_open /\ listener # "live") ~> (listener = "live" \/ ~inv_open)
=============================================================================
