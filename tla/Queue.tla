------------------------------- MODULE Queue -------------------------------
(***************************************************************************)
(* The download queue of source/queue.c: an array of items shared, under   *)
(* one mutex, by the UI thread (every queue_* call), a pool of download    *)
(* workers (dl_worker) and one extract worker (ex_worker), together with   *)
(* what survives a restart: queue.json and the .part files.                *)
(*                                                                         *)
(* A critical section of g_mtx is one action.  What the workers do outside *)
(* the mutex (transfers, hashing, unpacking, unlocked writes of `status`)  *)
(* is split at every read of a flag another thread may set.  A save        *)
(* truncates queue.json first and fills it afterwards, so a critical       *)
(* section that saves leaves `disk` Torn and keeps the mutex until         *)
(* SaveDone; a power cut in between leaves the file unreadable.            *)
(*                                                                         *)
(* A definition marked "Variant" is the next one with a plausible slip in it; *)
(* no behaviour uses it, it shows which property would notice.             *)
(*                                                                         *)
(* Byte counters, speeds, names and log texts are left out.  A file is its *)
(* name and target; a .part file is one of Content.                        *)
(***************************************************************************)
EXTENDS Integers, FiniteSets

CONSTANTS
  Slots,     \* indices of g_items
  Files,     \* what can be queued: a name and a target
  NoFile,    \* the name of an external transfer, which downloads nothing
  Archives,  \* files extracted after the download
  Rars,      \* archives whose name ends in .rar (second decoder)
  Sized,     \* files whose expected size is known
  Hashed,    \* files whose expected md5 is known
  Dl,        \* download worker threads
  Ex,        \* the extract worker thread
  MaxSeq,    \* bound on g_seq (a uint32_t in the code)
  MaxDl,     \* largest concurrent-download limit the UI offers
  Results,   \* what a transfer may leave behind in this instance
  Ops,       \* the UI calls and environment events this instance exercises
  NoSlot, Torn

ASSUME QueueAssumption ==
  /\ IsFiniteSet(Slots) /\ NoSlot \notin Slots
  /\ NoFile \notin Files
  /\ Archives \subseteq Files /\ Rars \subseteq Archives
  /\ Sized \subseteq Files /\ Hashed \subseteq Files
  /\ IsFiniteSet(Dl) /\ Ex \notin Dl
  /\ Results \subseteq {"none", "some", "good", "bad", "over"}
  /\ MaxSeq \in Nat /\ Cardinality(Slots) <= MaxSeq
  /\ MaxDl \in Nat \ {0}

VARIABLES
  items,   \* g_items
  gseq,    \* g_seq
  maxdl,   \* g_max_dl
  latch,   \* g_paused
  hold,    \* g_space_hold
  batch,   \* g_batch_depth > 0
  dirty,   \* g_batch_dirty
  wk,      \* where each worker is, and its locals
  run,     \* g_run and the phases of queue_exit
  disk,    \* queue.json
  kept,    \* the last save of it went through (no variable of the code)
  part,    \* the .part files
  lib,     \* what was last installed for a file
  net,     \* nifm reports a connection
  space    \* the card has room for what is left of any item

vars == <<items, gseq, maxdl, latch, hold, batch, dirty, wk, run, disk, kept,
          part, lib, net, space>>
ctl  == <<gseq, maxdl, latch, hold, batch, dirty>>
env  == <<run, net, space>>
fs   == <<part, lib>>

Workers  == Dl \cup {Ex}
AllFiles == Files \cup {NoFile}
Paths    == AllFiles \X (1..MaxSeq)

Status == {"FREE", "QUEUED", "PAUSED", "DOWNLOADING", "VERIFYING",
           "AWAIT_EXTRACT", "EXTRACTING", "DONE", "SAVED", "FAILED", "CANCELLED"}
Waiting  == {"QUEUED", "PAUSED"}
Active   == {"DOWNLOADING", "VERIFYING", "AWAIT_EXTRACT", "EXTRACTING"}
Terminal == {"DONE", "SAVED", "FAILED", "CANCELLED"}
Pending  == Waiting \cup Active

\* A .part file: absent, short, the right bytes, the right length but wrong
\* bytes, or longer than expected.
Content == {"none", "some", "good", "bad", "over"}
Whole   == {"good", "bad"}

Item == [status : Status, file : AllFiles, seq : 0..MaxSeq, cancel : BOOLEAN,
         pause : BOOLEAN, requeue : 0..2, nospace : BOOLEAN, ext : BOOLEAN]

NewItem(st, f, q, x) ==
  [status |-> st, file |-> f, seq |-> q, cancel |-> FALSE, pause |-> FALSE,
   requeue |-> 0, nospace |-> FALSE, ext |-> x]
FreeItem == NewItem("FREE", NoFile, 0, FALSE)

Pcs == {"idle", "nap", "measure", "unclaim", "begin", "xfer", "settle", "park", "fail",
        "verify", "await", "move", "unpack", "unrar", "raw", "cancel", "drop",
        "requeue", "log", "done"}
Worker == [pc : Pcs, slot : Slots \cup {NoSlot}, path : Paths \cup {<<>>},
           prev : Waiting, ok : BOOLEAN]
IdleWorker == [pc |-> "idle", slot |-> NoSlot, path |-> <<>>,
               prev |-> "QUEUED", ok |-> FALSE]

Saved == [file : Files, seq : 1..MaxSeq, down : BOOLEAN]

-----------------------------------------------------------------------------
(* The mutex, the files and the saved queue. *)

Running == run = "up"                     \* g_run
Locked  == disk = Torn /\ run # "down"    \* a saver holds g_mtx
Lock    == ~Locked /\ run # "down"        \* g_mtx can be taken
UiFree  == Lock /\ Running /\ ~batch      \* the UI thread can start a call

Live(s)  == items[s].status # "FREE"
InQueue(s) == items[s].status \in Pending /\ ~items[s].ext

\* item_part_path: the .part is keyed by target, name and seq.
\* (Variant: keyed by name only.)
PathByName(s) == <<items[s].file, 1>>
Path(s)       == <<items[s].file, items[s].seq>>
At(p)         == part[p[1]][p[2]]
SetPart(p, c) == part' = [part EXCEPT ![p[1]][p[2]] = c]

\* save_locked, its two halves: fopen "wb" truncates, fclose completes.  In a
\* batch only the need for a save is noted.  A file that cannot be opened stays as
\* it was; a short one, for which no write is checked, will load as an empty queue.
PendingRecords ==
  {[file |-> items[s].file, seq |-> items[s].seq,
    down |-> items[s].status \in {"VERIFYING", "AWAIT_EXTRACT", "EXTRACTING"}] :
     s \in {t \in Slots : InQueue(t)}}
SaveOpen == \/ disk' = Torn /\ UNCHANGED kept
            \/ "badsave" \in Ops /\ kept' = FALSE /\ UNCHANGED disk
SaveLocked == IF batch THEN dirty' = TRUE /\ UNCHANGED <<disk, kept>>
                       ELSE SaveOpen /\ UNCHANGED dirty
SaveDone ==
  /\ Locked
  /\ \/ disk' = PendingRecords /\ kept' = TRUE
     \/ "badsave" \in Ops /\ disk' = {} /\ kept' = FALSE
  /\ UNCHANGED <<items, ctl, wk, env, fs>>

\* Shorthands for one field of one item and for one worker's step.
Set(s, st)   == items' = [items EXCEPT ![s].status = st]
Goto(w, pc)  == wk' = [wk EXCEPT ![w].pc = pc]
PcIs(w, pc)  == wk[w].pc = pc
Mine(w)      == items[wk[w].slot]
Whole_(w)    == At(wk[w].path) \in Whole
Oldest(S)    == {s \in S : \A t \in S : items[s].seq <= items[t].seq}

-----------------------------------------------------------------------------
(* dl_worker: picking *)

Downloading == {s \in Slots : ~items[s].ext /\ items[s].status \in {"DOWNLOADING", "VERIFYING"}}
Blocked     == {s \in Slots : ~items[s].ext /\ items[s].status \in Waiting /\ items[s].nospace}
\* The pick loop does not look at `external`.
\* (Variant: a lack of room is not remembered.)
RunnableAll == {s \in Slots : items[s].status \in Waiting}
Runnable    == {s \in Slots : items[s].status \in Waiting /\ ~items[s].nospace}
MayPick     == net /\ ~latch /\ Cardinality(Downloading) < maxdl

Pick(w) ==
  /\ PcIs(w, "idle") /\ Running /\ Lock /\ MayPick
  /\ \E s \in Oldest(Runnable) :
       /\ items' = [items EXCEPT ![s].status = "DOWNLOADING", ![s].pause = FALSE]
       /\ wk' = [wk EXCEPT ![w] = [IdleWorker EXCEPT !.pc = "measure", !.slot = s,
                                                     !.prev = items[s].status]]
  /\ UNCHANGED <<ctl, env, disk, kept, fs>>

\* Nothing to pick: sleep on the space hold, or poll again.
Rest(w) ==
  /\ PcIs(w, "idle") /\ Running /\ Lock
  /\ ~(MayPick /\ Runnable # {})
  /\ hold' = (Blocked # {})
  /\ IF Blocked # {} THEN Goto(w, "nap") ELSE UNCHANGED wk
  /\ UNCHANGED <<items, gseq, maxdl, latch, batch, dirty, env, disk, kept, fs>>

ForgetNoSpace == items' = [s \in Slots |-> [items[s] EXCEPT !.nospace = FALSE]]

\* (Variant: the wait is for room, not for a time.)
WakeForRoom(w) ==
  /\ PcIs(w, "nap") /\ Lock /\ space
  /\ ForgetNoSpace /\ Goto(w, "idle")
  /\ UNCHANGED <<ctl, env, disk, kept, fs>>

Wake(w) ==
  /\ PcIs(w, "nap") /\ Lock
  /\ ForgetNoSpace /\ Goto(w, "idle")
  /\ UNCHANGED <<ctl, env, disk, kept, fs>>

\* item_remaining against the free space: a file of unknown size, and one whose
\* .part is already as long as it should be, need nothing.
Needs(s) == items[s].file \in Sized /\ At(Path(s)) \in {"none", "some"}

MeasureShort(w) ==
  /\ PcIs(w, "measure") /\ ~space /\ Needs(wk[w].slot)
  /\ Goto(w, "unclaim")
  /\ UNCHANGED <<items, ctl, env, disk, kept, fs>>

\* The item goes back to where it was, on a measure that may be stale by now.
Unclaim(w) ==
  /\ PcIs(w, "unclaim") /\ Lock
  /\ items' = [items EXCEPT ![wk[w].slot].nospace = TRUE,
                            ![wk[w].slot].status = IF @ = "DOWNLOADING" THEN wk[w].prev ELSE @]
  /\ wk' = [wk EXCEPT ![w] = IdleWorker]
  /\ hold' = TRUE
  /\ UNCHANGED <<gseq, maxdl, latch, batch, dirty, env, disk, kept, fs>>

MeasureFits(w) ==
  /\ PcIs(w, "measure") /\ (space \/ ~Needs(wk[w].slot))
  /\ hold' = FALSE /\ Goto(w, "begin")
  /\ UNCHANGED <<items, gseq, maxdl, latch, batch, dirty, env, disk, kept, fs>>

-----------------------------------------------------------------------------
(* process_item: the transfer *)

\* The .part path is computed once, here.  An over-long .part is dropped; the
\* second space check fails the item.
Begin(w) ==
  /\ PcIs(w, "begin")
  /\ LET p    == Path(wk[w].slot)
         over == p[1] \in Sized /\ At(p) = "over"
     IN /\ IF over THEN SetPart(p, "none") ELSE UNCHANGED part
        /\ \E pc \in IF (over \/ Needs(wk[w].slot)) /\ ~space
                     THEN {"xfer", "fail"} ELSE {"xfer"} :
             wk' = [wk EXCEPT ![w].path = p, ![w].pc = pc]
  /\ UNCHANGED <<items, ctl, env, disk, kept, lib>>

\* First bytes reach the card.
Receive(w) ==
  /\ PcIs(w, "xfer") /\ At(wk[w].path) = "none" /\ wk[w].path[1] # NoFile
  /\ SetPart(wk[w].path, "some")
  /\ UNCHANGED <<items, ctl, env, wk, disk, kept, lib>>

\* The retry loop ends, at any time and with any content: it is cut short by
\* cancel, pause, shutdown or a lost connection, fails, or succeeds.  An
\* external item has no url and can only fail.
Outcomes(w) ==
  IF wk[w].path[1] = NoFile
  THEN {<<At(wk[w].path), FALSE>>}
  ELSE {o \in Results \X BOOLEAN : o[2] => o[1] # "none"}

Transferred(w) ==
  /\ PcIs(w, "xfer")
  /\ \E o \in Outcomes(w) :
       /\ SetPart(wk[w].path, o[1])
       /\ wk' = [wk EXCEPT ![w].ok = o[2], ![w].pc = "settle"]
  /\ UNCHANGED <<items, ctl, env, disk, kept, lib>>

(* process_item: what to make of it, in the order of the code *)

\* A transfer that failed after delivering the expected length counts as done.
Arrived(w) == wk[w].ok \/ (wk[w].path[1] \in Sized /\ Whole_(w))

SettleStop(w) ==
  /\ PcIs(w, "settle") /\ ~Running
  /\ Goto(w, "done")
  /\ UNCHANGED <<items, ctl, env, disk, kept, fs>>

\* (Variant: a cancelled transfer is parked like a paused one.)
SettleCancelParks(w) ==
  /\ PcIs(w, "settle") /\ Running /\ Mine(w).cancel
  /\ Goto(w, "park")
  /\ UNCHANGED <<items, ctl, env, disk, kept, fs>>

SettleCancel(w) ==
  /\ PcIs(w, "settle") /\ Running /\ Mine(w).cancel
  /\ Goto(w, "cancel")
  /\ UNCHANGED <<items, ctl, env, disk, kept, fs>>

Unpause(w) == [items EXCEPT ![wk[w].slot].pause = FALSE]

SettleShort(w) ==
  /\ PcIs(w, "settle") /\ Running /\ ~Mine(w).cancel /\ ~Arrived(w)
  /\ Goto(w, IF Mine(w).pause \/ ~net THEN "park" ELSE "fail")
  /\ items' = Unpause(w)
  /\ UNCHANGED <<ctl, env, disk, kept, fs>>

Landing(f) == IF f \in Archives THEN "await" ELSE "move"

SettleWhole(w) ==
  /\ PcIs(w, "settle") /\ Running /\ ~Mine(w).cancel /\ Arrived(w)
  /\ LET f == wk[w].path[1] IN
       IF f \in Sized /\ ~Whole_(w)
       THEN /\ SetPart(wk[w].path, "none")
            /\ Goto(w, "fail") /\ items' = Unpause(w)
       ELSE /\ UNCHANGED part
            /\ Goto(w, IF f \in Hashed THEN "verify" ELSE Landing(f))
            /\ items' = IF f \in Hashed
                        THEN [Unpause(w) EXCEPT ![wk[w].slot].status = "VERIFYING"]
                        ELSE Unpause(w)
  /\ UNCHANGED <<ctl, env, disk, kept, lib>>

Park(w) ==
  /\ PcIs(w, "park") /\ Lock
  /\ Set(wk[w].slot, "PAUSED") /\ Goto(w, "done")
  /\ UNCHANGED <<ctl, env, disk, kept, fs>>

\* (Variant: the failure is logged but not recorded in the item.)
FailUnmarked(w) ==
  /\ PcIs(w, "fail") /\ Lock
  /\ Goto(w, "log")
  /\ UNCHANGED <<items, ctl, env, disk, kept, fs>>

Fail(w) ==
  /\ PcIs(w, "fail") /\ Lock
  /\ Set(wk[w].slot, "FAILED") /\ Goto(w, "log")
  /\ UNCHANGED <<ctl, env, disk, kept, fs>>

\* md5_file stops on cancel; it may also fail to read the file, which keeps it.
VerifyStopped(w) ==
  /\ PcIs(w, "verify")
  /\ Goto(w, IF Mine(w).cancel THEN "cancel" ELSE "fail")
  /\ UNCHANGED <<items, ctl, env, disk, kept, fs>>

\* (Variant: the digest is computed but not compared.)
VerifiedAnyway(w) ==
  /\ PcIs(w, "verify") /\ At(wk[w].path) # "none"
  /\ Goto(w, Landing(wk[w].path[1]))
  /\ UNCHANGED <<items, ctl, env, disk, kept, fs>>

Verified(w) ==
  /\ PcIs(w, "verify") /\ At(wk[w].path) # "none"
  /\ IF At(wk[w].path) = "good"
     THEN Goto(w, Landing(wk[w].path[1])) /\ UNCHANGED part
     ELSE Goto(w, "fail") /\ SetPart(wk[w].path, "none")
  /\ UNCHANGED <<items, ctl, env, disk, kept, lib>>

Await(w) ==
  /\ PcIs(w, "await") /\ Lock
  /\ Set(wk[w].slot, "AWAIT_EXTRACT") /\ Goto(w, "done")
  /\ UNCHANGED <<ctl, env, disk, kept, fs>>

\* (Variant: the file is copied out of the staging folder.)
InstallByCopy(w, st) ==
  /\ At(wk[w].path) # "none" /\ wk[w].path[1] # NoFile
  /\ lib' = [lib EXCEPT ![wk[w].path[1]] = At(wk[w].path)]
  /\ UNCHANGED part
  /\ Set(wk[w].slot, st)

\* The .part leaves the staging folder for the library, as it is.
Install(w, st) ==
  /\ At(wk[w].path) # "none" /\ wk[w].path[1] # NoFile
  /\ lib' = [lib EXCEPT ![wk[w].path[1]] = At(wk[w].path)]
  /\ SetPart(wk[w].path, "none")
  /\ Set(wk[w].slot, st)

Move(w) ==
  /\ PcIs(w, "move")
  /\ Install(w, "DONE") /\ Goto(w, "done")
  /\ UNCHANGED <<ctl, env, disk, kept>>

MoveFailed(w) ==
  /\ wk[w].pc \in {"move", "raw"}
  /\ Goto(w, "fail")
  /\ UNCHANGED <<items, ctl, env, disk, kept, fs>>

-----------------------------------------------------------------------------
(* finish_cancel *)

\* `requeue` is read before the mutex is taken.
CancelRead(w) ==
  /\ PcIs(w, "cancel")
  /\ Goto(w, IF Mine(w).requeue = 0 THEN "drop" ELSE "requeue")
  /\ IF Mine(w).requeue = 2 THEN SetPart(wk[w].path, "none") ELSE UNCHANGED part
  /\ UNCHANGED <<items, ctl, env, disk, kept, lib>>

Drop(w) ==
  /\ PcIs(w, "drop")
  /\ SetPart(wk[w].path, "none")
  /\ Set(wk[w].slot, "CANCELLED") /\ Goto(w, "log")
  /\ UNCHANGED <<ctl, env, disk, kept, lib>>

Restart(it) == [it EXCEPT !.status = "QUEUED", !.cancel = FALSE, !.pause = FALSE]

GiveBack(w) ==
  /\ PcIs(w, "requeue") /\ Lock
  /\ items' = [items EXCEPT ![wk[w].slot] = [Restart(@) EXCEPT !.requeue = 0]]
  /\ Goto(w, "done") /\ SaveLocked
  /\ UNCHANGED <<gseq, maxdl, latch, hold, batch, env, fs>>

\* log_download after the status was published, reading the slot again.
Log(w) ==
  /\ PcIs(w, "log")
  /\ Goto(w, "done")
  /\ UNCHANGED <<items, ctl, env, disk, kept, fs>>

\* (Variant: the worker keeps its slot index.)
DoneHoldingOn(w) ==
  /\ PcIs(w, "done") /\ Lock
  /\ Goto(w, "idle")
  /\ IF w = Ex THEN UNCHANGED items ELSE ForgetNoSpace
  /\ SaveLocked
  /\ UNCHANGED <<gseq, maxdl, latch, hold, batch, env, fs>>

\* End of a worker's turn: dl_worker gives parked items a fresh look; both save.
Done(w) ==
  /\ PcIs(w, "done") /\ Lock
  /\ wk' = [wk EXCEPT ![w] = IdleWorker]
  /\ IF w = Ex THEN UNCHANGED items ELSE ForgetNoSpace
  /\ SaveLocked
  /\ UNCHANGED <<gseq, maxdl, latch, hold, batch, env, fs>>

-----------------------------------------------------------------------------
(* ex_worker and install_item *)

Extractable == {s \in Slots : items[s].status = "AWAIT_EXTRACT"}

ExPick ==
  /\ PcIs(Ex, "idle") /\ Running /\ Lock
  /\ \E s \in Oldest(Extractable) :
       /\ Set(s, "EXTRACTING")
       /\ wk' = [wk EXCEPT ![Ex] = [IdleWorker EXCEPT !.pc = "unpack", !.slot = s,
                                                      !.path = Path(s)]]
  /\ UNCHANGED <<ctl, env, disk, kept, fs>>

\* The extraction is over: aborted, unpacked, or given up on.
UnpackStop ==
  /\ PcIs(Ex, "unpack") /\ ~Running /\ ~Mine(Ex).cancel
  /\ Goto(Ex, "done")
  /\ UNCHANGED <<items, ctl, env, disk, kept, fs>>

UnpackCancel ==
  /\ wk[Ex].pc \in {"unpack", "unrar"} /\ Mine(Ex).cancel
  /\ Goto(Ex, "cancel")
  /\ UNCHANGED <<items, ctl, env, disk, kept, fs>>

Unpacked ==
  /\ PcIs(Ex, "unrar") \/ (PcIs(Ex, "unpack") /\ Running)
  /\ ~Mine(Ex).cancel
  /\ Install(Ex, "DONE") /\ Goto(Ex, "done")
  /\ UNCHANGED <<ctl, env, disk, kept>>

\* The second decoder's result is not checked against g_run.
UnpackFailed ==
  /\ PcIs(Ex, "unrar") \/ (PcIs(Ex, "unpack") /\ Running)
  /\ ~Mine(Ex).cancel
  /\ Goto(Ex, IF PcIs(Ex, "unpack") /\ wk[Ex].path[1] \in Rars THEN "unrar" ELSE "raw")
  /\ UNCHANGED <<items, ctl, env, disk, kept, fs>>

KeepRaw ==
  /\ PcIs(Ex, "raw")
  /\ Install(Ex, "SAVED") /\ Goto(Ex, "log")
  /\ UNCHANGED <<ctl, env, disk, kept>>

-----------------------------------------------------------------------------
(* The UI thread: one action per queue_* call that changes state *)

Quiet == UNCHANGED <<wk, env, fs>>   \* what no call touches directly

\* queue_add: the same file live in the queue is not queued twice.
Add(f) ==
  /\ "add" \in Ops /\ Lock /\ Running /\ gseq <= MaxSeq
  /\ ~\E s \in Slots : InQueue(s) /\ items[s].file = f
  /\ \E s \in Slots :
       /\ ~Live(s)
       /\ items' = [items EXCEPT ![s] = NewItem("QUEUED", f, gseq, FALSE)]
  /\ gseq' = gseq + 1
  /\ SaveLocked
  /\ Quiet /\ UNCHANGED <<maxdl, latch, hold, batch>>

BatchBegin ==
  /\ "batch" \in Ops /\ UiFree
  /\ batch' = TRUE
  /\ Quiet /\ UNCHANGED <<items, gseq, maxdl, latch, hold, dirty, disk, kept>>

\* (Variant: the write put off by the batch is forgotten.)
BatchEndUnsaved ==
  /\ Lock /\ batch
  /\ batch' = FALSE /\ dirty' = FALSE
  /\ Quiet /\ UNCHANGED <<items, gseq, maxdl, latch, hold, disk, kept>>

BatchEnd ==
  /\ Lock /\ batch
  /\ batch' = FALSE /\ dirty' = FALSE
  /\ IF dirty THEN SaveOpen ELSE UNCHANGED <<disk, kept>>
  /\ Quiet /\ UNCHANGED <<items, gseq, maxdl, latch, hold>>

\* queue_ext_add, queue_ext_finish (by the transfer's owner), queue_ext_cancel.
ExtAdd ==
  /\ "ext" \in Ops /\ UiFree /\ gseq <= MaxSeq
  /\ \E s \in Slots :
       /\ ~Live(s)
       /\ items' = [items EXCEPT ![s] = NewItem("DOWNLOADING", NoFile, gseq, TRUE)]
  /\ gseq' = gseq + 1
  /\ Quiet /\ UNCHANGED <<maxdl, latch, hold, batch, dirty, disk, kept>>

\* The owner forgets its slot once it has finished it.
ExtFinish(s) ==
  /\ UiFree
  /\ items[s].ext /\ items[s].status = "DOWNLOADING"
  /\ \A w \in Dl : wk[w].slot # s
  /\ \E st \in {"DONE", "FAILED"} : Set(s, st)
  /\ Quiet /\ UNCHANGED <<ctl, disk, kept>>

ExtCancel(s) ==
  /\ "cancel" \in Ops /\ UiFree /\ items[s].ext
  /\ items' = [items EXCEPT ![s].cancel = TRUE]
  /\ Quiet /\ UNCHANGED <<ctl, disk, kept>>

\* (Variant: an active item is marked cancelled at once.)
CancelledOutright(it) ==
  IF it.status \in Pending THEN [it EXCEPT !.status = "CANCELLED"] ELSE it

\* What a cancel does to one item: a waiting one is cancelled here, an active
\* one is asked to stop.
Cancelled(it) ==
  IF it.status \in Waiting THEN [it EXCEPT !.status = "CANCELLED"]
  ELSE IF it.status \in Active THEN [it EXCEPT !.cancel = TRUE] ELSE it

SaveIf(b) == IF b THEN SaveLocked ELSE UNCHANGED <<disk, kept, dirty>>

\* queue_cancel; the Queue tab routes external items to queue_ext_cancel.
Cancel(s) ==
  /\ "cancel" \in Ops /\ UiFree /\ InQueue(s)
  /\ items' = [items EXCEPT ![s] = Cancelled(@)]
  /\ SaveIf(items[s].status \in Waiting)
  /\ Quiet /\ UNCHANGED <<gseq, maxdl, latch, hold, batch>>

CancelAll ==
  /\ "cancel" \in Ops /\ UiFree
  /\ items' = [s \in Slots |-> Cancelled(items[s])]
  /\ latch' = FALSE
  /\ SaveIf(\E s \in Slots : items[s].status \in Waiting)
  /\ Quiet /\ UNCHANGED <<gseq, maxdl, hold, batch>>

\* The staged-downloads screen: queue_cancel_by_part, then remove the file,
\* which can fail on a file a worker has open.
DeletePart(p) ==
  /\ "delete" \in Ops /\ UiFree /\ At(p) # "none"
  /\ LET hits == {s \in Slots : items[s].status \in Pending /\ Path(s) = p} IN
       /\ items' = [s \in Slots |-> IF s \in hits THEN Cancelled(items[s]) ELSE items[s]]
       /\ SaveIf(hits # {})
  /\ SetPart(p, "none") \/ ((\E w \in Workers : wk[w].path = p) /\ UNCHANGED part)
  /\ UNCHANGED <<wk, env, lib, gseq, maxdl, latch, hold, batch>>

\* (Variant: any item can be retried.)
RetryAnything(s) ==
  /\ "retry" \in Ops /\ UiFree /\ Live(s)
  /\ items' = [items EXCEPT ![s] = Restart(@)]
  /\ latch' = FALSE /\ SaveLocked
  /\ Quiet /\ UNCHANGED <<gseq, maxdl, hold, batch>>

\* queue_retry, on the items the Queue tab offers it for.
Retry(s) ==
  /\ "retry" \in Ops /\ UiFree /\ ~items[s].ext
  /\ items[s].status \in {"FAILED", "CANCELLED", "PAUSED"}
  /\ items' = [items EXCEPT ![s] = Restart(@)]
  /\ latch' = FALSE /\ SaveLocked
  /\ Quiet /\ UNCHANGED <<gseq, maxdl, hold, batch>>

\* queue_retry_status, from the Queue tab's "retry all failed / cancelled" and
\* "resume all"; queue_retry_all is its FAILED case.
RetryStatus(want) ==
  /\ (IF want = "PAUSED" THEN "pause" ELSE "retryall") \in Ops /\ UiFree
  /\ items' = [s \in Slots |-> IF items[s].status = want THEN Restart(items[s]) ELSE items[s]]
  /\ latch' = (latch /\ want # "PAUSED")
  /\ SaveIf(want = "PAUSED" \/ \E s \in Slots : items[s].status = want)
  /\ Quiet /\ UNCHANGED <<gseq, maxdl, hold, batch>>

\* queue_requeue: kind 1 keeps the .part, 2 pulls the file again.  The menu is
\* offered for an item being verified or unpacked, but the workers go on while
\* it is open, so the call finds the item in any state.
Requeue(s, kind) ==
  /\ "requeue" \in Ops /\ UiFree /\ ~items[s].ext
  /\ \/ /\ items[s].status \in Active
        /\ items' = [items EXCEPT ![s].requeue = kind, ![s].cancel = TRUE]
        /\ UNCHANGED <<disk, kept, dirty>>
     \/ /\ items[s].status \in Waiting \cup {"FAILED", "CANCELLED"}
        /\ items' = [items EXCEPT ![s] = [Restart(@) EXCEPT !.requeue = 0]]
        /\ SaveLocked
  /\ Quiet /\ UNCHANGED <<gseq, maxdl, latch, hold, batch>>

PauseAll ==
  /\ "pause" \in Ops /\ UiFree
  /\ latch' = TRUE
  /\ items' = [s \in Slots |->
       IF items[s].status = "QUEUED" THEN [items[s] EXCEPT !.status = "PAUSED"]
       ELSE IF items[s].status = "DOWNLOADING" THEN [items[s] EXCEPT !.pause = TRUE]
       ELSE items[s]]
  /\ SaveLocked
  /\ Quiet /\ UNCHANGED <<gseq, maxdl, hold, batch>>

SetMaxDl(n) ==
  /\ "limit" \in Ops /\ UiFree /\ n # maxdl
  /\ maxdl' = n
  /\ LET dl      == {s \in Slots : items[s].status = "DOWNLOADING"}
         rank(s) == Cardinality({t \in dl : items[t].seq < items[s].seq})
     IN items' = [s \in Slots |-> IF s \in dl THEN [items[s] EXCEPT !.pause = (rank(s) >= n)]
                                              ELSE items[s]]
  /\ Quiet /\ UNCHANGED <<gseq, latch, hold, batch, dirty, disk, kept>>

\* queue_move: swap with the neighbour in the list; neither may be active.
\* (Moving s down is moving its neighbour up.)
Order   == {s \in Slots : Live(s)}
Above(s) == {t \in Order : items[t].seq < items[s].seq}
MoveUp(s) ==
  /\ "move" \in Ops /\ UiFree /\ Live(s) /\ items[s].status \notin Active
  /\ \E t \in Above(s) :
       /\ \A u \in Above(s) : items[u].seq <= items[t].seq
       /\ items[t].status \notin Active /\ ~(items[s].ext /\ items[t].ext)
       /\ items' = [items EXCEPT ![s].seq = items[t].seq, ![t].seq = items[s].seq]
  /\ SaveLocked
  /\ Quiet /\ UNCHANGED <<gseq, maxdl, latch, hold, batch>>

\* queue_move_end: to the bottom, or to the top of the waiting section; every
\* item of the list is renumbered from 1.
MoveEnd(s, bottom) ==
  LET heading == {t \in Order : \A u \in Above(t) \cup {t} : items[u].status \in Active}
      to      == IF bottom THEN Cardinality(Order) ELSE Cardinality(heading) + 1
      rank(t) == Cardinality(Above(t) \ {s}) + 1
      place(t) == IF t = s THEN to ELSE IF rank(t) < to THEN rank(t) ELSE rank(t) + 1
  IN
  /\ "moveend" \in Ops /\ UiFree /\ Live(s) /\ ~items[s].ext /\ items[s].status \notin Active
  /\ Cardinality(Above(s)) + 1 # to
  /\ items' = [t \in Slots |-> IF t \in Order THEN [items[t] EXCEPT !.seq = place(t)]
                                              ELSE items[t]]
  /\ gseq' = IF gseq <= Cardinality(Order) THEN Cardinality(Order) + 1 ELSE gseq
  /\ SaveLocked
  /\ Quiet /\ UNCHANGED <<maxdl, latch, hold, batch>>

ClearFinished ==
  /\ "clear" \in Ops /\ UiFree
  /\ items' = [s \in Slots |-> IF items[s].status \in Terminal
                               THEN [items[s] EXCEPT !.status = "FREE"] ELSE items[s]]
  /\ Quiet /\ UNCHANGED <<ctl, disk, kept>>

-----------------------------------------------------------------------------
(* queue_exit, a power cut, and queue_init *)

\* Nothing of the process remains.
Gone ==
  /\ items' = [s \in Slots |-> FreeItem]
  /\ wk' = [w \in Workers |-> IdleWorker]
  /\ gseq' = 1 /\ latch' = FALSE /\ hold' = FALSE /\ batch' = FALSE /\ dirty' = FALSE
  /\ run' = "down"

Stop ==
  /\ "exit" \in Ops /\ UiFree
  /\ run' = "stopping"
  /\ UNCHANGED <<items, ctl, wk, disk, kept, fs, net, space>>

\* The workers are joined; the queue is saved once more.
ExitSave ==
  /\ run = "stopping" /\ Lock
  /\ \A w \in Workers : wk[w].pc = "idle"
  /\ run' = "final" /\ SaveLocked
  /\ UNCHANGED <<items, gseq, maxdl, latch, hold, batch, wk, fs, net, space>>

Exit ==
  /\ run = "final" /\ Lock
  /\ Gone
  /\ UNCHANGED <<maxdl, disk, kept, fs, net, space>>

Crash ==
  /\ "crash" \in Ops /\ run # "down"
  /\ Gone
  /\ UNCHANGED <<maxdl, disk, kept, fs, net, space>>

\* queue_load: an archive whose download was over, and whose .part looks
\* complete, is only unpacked again.  An unreadable file is an empty queue.
LooksComplete(r) ==
  IF r.file \in Sized THEN part[r.file][r.seq] \in Whole ELSE part[r.file][r.seq] # "none"
Loaded(r) ==
  NewItem(IF r.down /\ r.file \in Archives /\ LooksComplete(r) THEN "AWAIT_EXTRACT" ELSE "QUEUED",
          r.file, r.seq, FALSE)

Load ==
  /\ "start" \in Ops /\ run = "down"
  /\ LET recs == IF disk = Torn THEN {} ELSE disk IN
       /\ disk' = recs /\ kept' = TRUE
       /\ \E home \in [recs -> Slots] :
            /\ \A a, b \in recs : a # b => home[a] # home[b]
            /\ items' = [s \in Slots |->
                 IF \E r \in recs : home[r] = s
                 THEN Loaded(CHOOSE r \in recs : home[r] = s) ELSE FreeItem]
       /\ gseq' \in {q \in 1..(MaxSeq + 1) :
            (\A r \in recs : r.seq < q) /\ (q = 1 \/ \E r \in recs : r.seq = q - 1)}
  /\ run' = "up"
  /\ UNCHANGED <<maxdl, latch, hold, batch, dirty, wk, fs, net, space>>

NetFlip ==
  /\ "net" \in Ops /\ net' = ~net
  /\ UNCHANGED <<items, ctl, wk, disk, kept, fs, run, space>>
SpaceFlip ==
  /\ "space" \in Ops /\ space' = ~space
  /\ UNCHANGED <<items, ctl, wk, disk, kept, fs, run, net>>
-----------------------------------------------------------------------------

Init ==
  /\ items = [s \in Slots |-> FreeItem]
  /\ gseq = 1 /\ maxdl \in 1..MaxDl
  /\ latch = FALSE /\ hold = FALSE /\ batch = FALSE /\ dirty = FALSE
  /\ wk = [w \in Workers |-> IdleWorker]
  /\ run = "up" /\ disk = {} /\ kept = TRUE
  /\ part = [f \in AllFiles |-> [q \in 1..MaxSeq |-> "none"]]
  /\ lib = [f \in Files |-> "none"]
  /\ net = TRUE /\ space = ("lowspace" \notin Ops)

DlStep(w) ==
  \/ Pick(w) \/ Rest(w) \/ Wake(w) \/ MeasureShort(w) \/ Unclaim(w) \/ MeasureFits(w)
  \/ Begin(w)  \/ Receive(w) \/ Transferred(w)
  \/ SettleStop(w) \/ SettleCancel(w) \/ SettleShort(w) \/ SettleWhole(w)
  \/ Park(w) \/ VerifyStopped(w) \/ Verified(w) \/ Await(w) \/ Move(w)
AnyStep(w) ==
  \/ Fail(w) \/ MoveFailed(w) \/ CancelRead(w) \/ Drop(w) \/ GiveBack(w) \/ Log(w) \/ Done(w)
ExStep == ExPick \/ UnpackStop \/ UnpackCancel \/ Unpacked \/ UnpackFailed \/ KeepRaw

UiStep ==
  \/ \E f \in Files : Add(f)
  \/ BatchBegin \/ BatchEnd \/ ExtAdd
  \/ \E s \in Slots : \/ ExtFinish(s) \/ ExtCancel(s) \/ Cancel(s) \/ Retry(s) \/ MoveUp(s)
                      \/ \E k \in {1, 2} : Requeue(s, k)
                      \/ \E b \in BOOLEAN : MoveEnd(s, b)
  \/ CancelAll \/ PauseAll \/ ClearFinished
  \/ \E p \in Paths : DeletePart(p)
  \/ \E st \in {"FAILED", "CANCELLED", "PAUSED"} : RetryStatus(st)
  \/ \E n \in 1..MaxDl : SetMaxDl(n)

Next ==
  \/ SaveDone
  \/ \E w \in Dl : DlStep(w)
  \/ \E w \in Workers : AnyStep(w)
  \/ ExStep
  \/ UiStep
  \/ Stop \/ ExitSave \/ Exit \/ Crash \/ Load
  \/ NetFlip \/ SpaceFlip

Spec == Init /\ [][Next]_vars

\* Every thread keeps running: a transfer ends (curl gives up on a stalled
\* connection), hashing and unpacking end, a sleep ends, a save completes, and
\* the UI closes the batch it opened and goes on with an exit it began.
Fairness ==
  /\ WF_vars(SaveDone) /\ WF_vars(BatchEnd) /\ WF_vars(ExitSave) /\ WF_vars(Exit)
  /\ \A w \in Dl : WF_vars(DlStep(w) \/ AnyStep(w))
  /\ WF_vars(ExStep \/ AnyStep(Ex))
FairSpec == Spec /\ Fairness

-----------------------------------------------------------------------------
(* Properties *)

ItemsOK == items \in [Slots -> Item]
WorkersOK ==
  /\ wk \in [Workers -> Worker]
  /\ \A w \in Workers : wk[w].slot = NoSlot <=> wk[w].pc \in {"idle", "nap"}
FilesOK ==
  /\ disk = Torn \/ disk \in SUBSET Saved
  /\ kept \in BOOLEAN
  /\ part \in [AllFiles -> [1..MaxSeq -> Content]]
  /\ lib \in [Files -> Content]
FlagsOK ==
  /\ gseq \in 1..(MaxSeq + 1) /\ maxdl \in 1..MaxDl
  /\ latch \in BOOLEAN /\ hold \in BOOLEAN /\ batch \in BOOLEAN /\ dirty \in BOOLEAN
  /\ run \in {"up", "stopping", "final", "down"}
  /\ net \in BOOLEAN /\ space \in BOOLEAN

TypeOK == ItemsOK /\ WorkersOK /\ FilesOK /\ FlagsOK

\* A worker has an item in hand from its pick until it publishes the outcome.
Holding(w) == wk[w].pc \notin {"idle", "nap", "log", "done"}
Unpacking(w) == wk[w].pc \in {"unpack", "unrar", "raw"}

\* No two workers ever drive one item, a worker never drives an item the UI has
\* freed or finished, and the extract worker only drives items being extracted.
OneWorkerPerItem ==
  /\ \A w \in Workers : Holding(w) =>
       /\ wk[w].slot \in Slots
       /\ Mine(w).status \in IF w = Ex THEN {"EXTRACTING"} ELSE {"DOWNLOADING", "VERIFYING"}
  /\ \A v, w \in Workers : Holding(v) /\ Holding(w) /\ wk[v].slot = wk[w].slot => v = w

\* An item shown as running is in some worker's hands: no sequence of calls
\* leaves one that no worker will ever finish.
NobodyStranded ==
  Running => \A s \in Slots :
    /\ s \in Downloading => \E w \in Dl : Holding(w) /\ wk[w].slot = s
    /\ items[s].status = "EXTRACTING" => Holding(Ex) /\ wk[Ex].slot = s

\* Two workers never work on one .part file.
OneWriterPerPart ==
  \A v, w \in Workers :
    Holding(v) /\ Holding(w) /\ wk[v].path = wk[w].path /\ wk[v].path # <<>> => v = w

\* The .part is there exactly as long as somebody needs it: an archive waiting for
\* the extract worker, or in its hands, still has its download unless the user has
\* asked for the item to stop, and an item that landed leaves none behind.
PartFollowsItem ==
  \A s \in Slots :
    /\ items[s].status = "AWAIT_EXTRACT" /\ ~items[s].cancel => At(Path(s)) # "none"
    /\ Unpacking(Ex) /\ wk[Ex].slot = s /\ ~items[s].cancel => At(wk[Ex].path) # "none"
    /\ items[s].status \in {"DONE", "SAVED"} /\ ~items[s].ext => At(Path(s)) = "none"

\* What reaches the library was verified: right bytes when the md5 is known,
\* right length when the size is.
LibraryIntact ==
  \A f \in Files :
    /\ f \in Hashed => lib[f] \in {"none", "good"}
    /\ f \in Sized  => lib[f] \in {"none"} \cup Whole

\* A crash at any moment loses no work and revives none: outside a save and a
\* batch, queue.json lists every item still to be done, under its current seq, and
\* nothing else but items whose worker is about to save.  A save that fails is told
\* to nobody; the next one that goes through makes up for all that was missed.
FileAgrees ==
  /\ \A s \in Slots :
       InQueue(s) => \E r \in disk : r.file = items[s].file /\ r.seq = items[s].seq
  /\ \A r \in disk :
       \/ \E s \in Slots : InQueue(s) /\ items[s].file = r.file /\ items[s].seq = r.seq
       \/ \E w \in Workers : wk[w].pc \in {"log", "done"}
QueueFileAgrees == Lock /\ ~batch /\ kept => FileAgrees

\* While the app runs, whatever waits is carried to an end: an item parked by a
\* lost connection or for want of room, in either phase of the pipeline, once both
\* are there to stay; an item that needs no room, however the free space comes and
\* goes (a card too full for one does not starve the others).
Drains ==
  [](run = "up") /\ <>[]net =>
    \A s \in Slots :
      /\ <>[]space => (items[s].status \in Pending ~> items[s].status \in Terminal)
      /\ items[s].status = "QUEUED" /\ items[s].file \notin Sized ~> items[s].status \in Terminal

\* A cancel of an item in a worker's hands, or on its way from one worker to the
\* other, ends the item, once there is room and a connection for good (a cancel
\* that lands while the free space is measured stays on an item that goes back to
\* waiting, and is only seen when the item is picked again).
CancelEnds ==
  <>[](run = "up" /\ net /\ space) =>
    \A s \in Slots : items[s].status \in Active /\ items[s].cancel
                      ~> items[s].status \in Terminal

\* queue_exit joins every worker: none of them can outlast the stop flag.
ExitEnds == run = "stopping" ~> run = "down"

-----------------------------------------------------------------------------
(* The queue implements JobPool: the holder of an item is the worker that has *)
(* it in hand, and only the holder decides what becomes of it.                *)

Nobody == "nobody"
ASSUME NobodyAssumption == Nobody \notin Workers
HolderOf(s) == LET hs == {w \in Workers : Holding(w) /\ wk[w].slot = s} IN
                 IF hs = {} THEN Nobody ELSE CHOOSE w \in hs : TRUE
JobOf(s) ==
  LET it     == items[s]
      inHand == it.status \in Active \ {"AWAIT_EXTRACT"}
      held   == HolderOf(s) # Nobody
  IN CASE it.status = "FREE"          -> "none"
       [] it.status \in Waiting       -> "open"
       [] it.status \in Terminal      -> "closed"
       [] it.status = "AWAIT_EXTRACT" -> "staged"
       [] inHand /\ held              -> "held"
       [] inHand /\ ~held /\ it.ext   -> "outside"
       [] inHand /\ ~held /\ ~it.ext  -> "left"

Pool == INSTANCE JobPool WITH
  Jobs <- Slots, Downloaders <- Dl, Extractor <- Ex,
  job <- [s \in Slots |-> JobOf(s)], holder <- [s \in Slots |-> HolderOf(s)]

\* Every step of the queue is a step of the pool, or changes no job: no call of
\* the UI takes an item out of a worker's hands, and no worker touches another's.
PoolSpec == Pool!Spec

-----------------------------------------------------------------------------
(* Promises of the header and the comments that the code does not keep: TLC    *)
(* refutes each (the README gives the instances).                             *)

\* What is still to be done survives a restart (save_locked), on a card that takes
\* no write as well.
QueueSurvives == Lock /\ ~batch => FileAgrees

\* The .part a worker is filling or reading is the one item_part_path names now,
\* so whoever computes the path next (the extract worker, the loader, a resume)
\* finds the same file.
PathAgrees ==
  \A w \in Workers : Holding(w) /\ wk[w].path # <<>> => wk[w].path = Path(wk[w].slot)

\* The workers ignore external transfers.
ExternalIgnored == \A w \in Workers : Holding(w) => ~Mine(w).ext

\* While "pause all" is in force nothing transfers that was not told to stop.
Transferring == {w \in Dl : wk[w].pc \in {"measure", "begin", "xfer"}}
Unstopped    == {w \in Transferring : ~Mine(w).pause /\ ~Mine(w).cancel}
PauseHolds   == latch => Unstopped = {}
=============================================================================
