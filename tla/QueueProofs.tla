---------------------------- MODULE QueueProofs ----------------------------
(***************************************************************************)
(* What is proved of Queue, for any number of slots, files and workers, in *)
(* three parts.                                                            *)
(*                                                                         *)
(* Types, and that no two workers ever drive one item.  The inductive      *)
(* invariant adds to TypeOK what makes it inductive: an item of the list   *)
(* has a number and, unless external, a file (Listed), and a worker past   *)
(* its first steps knows a .part (PathKnown).                              *)
(*                                                                         *)
(* What the queue promises about every item, for every mix of calls: none  *)
(* is stranded, and queue.json lists what is still to be done; and that    *)
(* the queue implements JobPool.  All three rest on the shapes a step may  *)
(* have.  A worker's step is a Turn: it takes an item nobody has, goes on  *)
(* with its own, lets go of it, or touches none.  Any other step while the *)
(* program runs leaves the workers alone and deals each item a Fate; none  *)
(* befalls an item in a worker's hands.                                    *)
(*                                                                         *)
(* The .part files: which worker may touch which, and what may become of   *)
(* its content on the way to the library.  A .part is keyed by its file    *)
(* and the number of its item, so everything rests on numbers: no two      *)
(* items of the list share one (proved for every mix of calls), and the    *)
(* number of an item in a worker's hands does not change.  queue_move_end  *)
(* breaks the second, queue_move is harmless to a worker but hands a       *)
(* finished item the number of a waiting one, and a restart trusts the     *)
(* length of a file it has no verdict on: each theorem names the calls it  *)
(* must exclude.                                                           *)
(***************************************************************************)
EXTENDS Queue, FiniteSetTheorems, TLAPS

Listed ==
  \A s \in Slots : Live(s) =>
    items[s].seq \in 1..MaxSeq /\ (items[s].ext \/ items[s].file \in Files)
PathKnown ==
  \A w \in Workers :
    wk[w].pc \notin {"idle", "nap", "measure", "unclaim", "begin"} => wk[w].path \in Paths

ItemsInv == ItemsOK /\ Listed
CrewInv  == WorkersOK /\ PathKnown /\ OneWorkerPerItem
Asleep   == run = "down" => \A w \in Workers : wk[w] = IdleWorker
IInv     == ItemsInv /\ CrewInv /\ FilesOK /\ FlagsOK /\ Asleep

-----------------------------------------------------------------------------
(* Items.  b comes of a by changes of status and flags only. *)

Edited(a, b) ==
  /\ b \in Item
  /\ b.file = a.file /\ b.seq = a.seq /\ b.ext = a.ext
  /\ a.status = "FREE" => b.status = "FREE"

\* What a retry or a requeue makes of an item of the list.
LEMMA RestartIsEdit ==
  ASSUME NEW it \in Item, it.status # "FREE"
  PROVE  Edited(it, Restart(it)) /\ Edited(it, [Restart(it) EXCEPT !.requeue = 0])
<1> DEFINE r == Restart(it)
<1>1. r \in Item /\ r.file = it.file /\ r.seq = it.seq /\ r.ext = it.ext
  BY DEF Restart, Item, Status
<1> HIDE DEF r
<1>2. /\ [r EXCEPT !.requeue = 0] \in Item
      /\ [r EXCEPT !.requeue = 0].file = r.file /\ [r EXCEPT !.requeue = 0].seq = r.seq
      /\ [r EXCEPT !.requeue = 0].ext = r.ext
  BY <1>1 DEF Item
<1> QED BY <1>1, <1>2 DEF Edited, r

\* Edits of any number of items keep the list well formed.
LEMMA EditsKeepItems ==
  ASSUME ItemsInv, items' = [s \in Slots |-> items'[s]],
         \A s \in Slots : Edited(items[s], items'[s])
  PROVE  ItemsInv'
BY DEF ItemsInv, ItemsOK, Listed, Live, Edited

\* A change of one status is an edit.
LEMMA SetKeepsItems ==
  ASSUME ItemsInv, NEW s \in Slots, Live(s), NEW st \in Status, Set(s, st)
  PROVE  ItemsInv'
BY DEF ItemsInv, ItemsOK, Listed, Live, Set, Item

\* A worker with an item in hand has one of the list.
LEMMA HeldIsLive ==
  ASSUME CrewInv, NEW w \in Workers, Holding(w)
  PROVE  wk[w].slot \in Slots /\ Live(wk[w].slot)
BY DEF CrewInv, OneWorkerPerItem, Live, Mine

-----------------------------------------------------------------------------
(* Workers. *)

InHands == {"DOWNLOADING", "VERIFYING", "EXTRACTING"}
Own(w)  == IF w = Ex THEN {"EXTRACTING"} ELSE {"DOWNLOADING", "VERIFYING"}
Past    == Pcs \ {"idle", "nap", "measure", "unclaim", "begin"}

\* Whatever leaves the workers alone and the status of items in hand alone.
LEMMA OthersKeepCrew ==
  ASSUME CrewInv, wk' = wk,
         \A s \in Slots : items[s].status \in InHands => items'[s].status = items[s].status
  PROVE  CrewInv'
<1>1. WorkersOK' /\ PathKnown' BY DEF CrewInv, WorkersOK, PathKnown
<1>2. OneWorkerPerItem' BY DEF CrewInv, OneWorkerPerItem, Holding, Mine, InHands
<1> QED BY <1>1, <1>2 DEF CrewInv

\* A worker that takes an item nobody has in hand.
LEMMA TakeKeepsCrew ==
  ASSUME CrewInv, NEW w \in Workers, NEW s \in Slots, s # NoSlot, NEW new \in Worker,
         new.slot = s, new.pc = "measure" \/ (new.pc = "unpack" /\ new.path \in Paths),
         wk' = [wk EXCEPT ![w] = new], items'[s].status \in Own(w),
         \A t \in Slots : t # s => items'[t].status = items[t].status,
         \A v \in Workers : Holding(v) => wk[v].slot # s
  PROVE  CrewInv'
<1>1. WorkersOK' BY DEF CrewInv, WorkersOK
<1>2. PathKnown' BY DEF CrewInv, WorkersOK, PathKnown
<1>3. wk'[w] = new /\ \A v \in Workers : v # w => wk'[v] = wk[v] BY DEF CrewInv, WorkersOK
<1>4. ASSUME NEW v \in Workers, Holding(v)'
      PROVE  wk'[v].slot \in Slots /\ items'[wk'[v].slot].status \in Own(v)
  <2>1. CASE v = w BY <1>3, <2>1
  <2>2. CASE v # w BY <1>3, <1>4, <2>2 DEF CrewInv, OneWorkerPerItem, Holding, Mine, Own
  <2> QED BY <2>1, <2>2
<1>5. ASSUME NEW u \in Workers, NEW v \in Workers, Holding(u)', Holding(v)',
             wk'[u].slot = wk'[v].slot
      PROVE  u = v
  BY <1>3, <1>5 DEF CrewInv, OneWorkerPerItem, Holding
<1>6. OneWorkerPerItem' BY <1>4, <1>5 DEF OneWorkerPerItem, Mine, Own
<1> QED BY <1>1, <1>2, <1>6 DEF CrewInv

\* A worker that moves on with its item, or lets go of it.
LEMMA StepKeepsCrew ==
  ASSUME CrewInv, NEW w \in Workers, NEW c \in Past, wk[w].pc \in Past,
         Holding(w) \/ c = "done", Goto(w, c),
         \A s \in Slots : (Holding(w) /\ s = wk[w].slot) \/ items'[s].status = items[s].status,
         c \in {"log", "done"} \/ items'[wk[w].slot].status \in Own(w)
  PROVE  CrewInv'
<1>1. WorkersOK' BY DEF CrewInv, WorkersOK, Goto, Worker, Past
<1>2. PathKnown' BY DEF CrewInv, WorkersOK, PathKnown, Goto, Past
<1>3. /\ wk'[w].slot = wk[w].slot /\ wk'[w].pc = c
      /\ \A v \in Workers : v # w => wk'[v] = wk[v]
  BY DEF CrewInv, WorkersOK, Goto, Worker
<1>4. ASSUME NEW v \in Workers, Holding(v)'
      PROVE  wk'[v].slot \in Slots /\ items'[wk'[v].slot].status \in Own(v)
  <2>1. CASE v = w BY <1>3, <1>4, <2>1 DEF CrewInv, OneWorkerPerItem, Holding
  <2>2. CASE v # w BY <1>3, <1>4, <2>2 DEF CrewInv, OneWorkerPerItem, Holding, Mine, Own
  <2> QED BY <2>1, <2>2
<1>5. ASSUME NEW u \in Workers, NEW v \in Workers, Holding(u)', Holding(v)',
             wk'[u].slot = wk'[v].slot
      PROVE  u = v
  BY <1>3, <1>5 DEF CrewInv, OneWorkerPerItem, Holding
<1>6. OneWorkerPerItem' BY <1>4, <1>5 DEF OneWorkerPerItem, Mine, Own
<1> QED BY <1>1, <1>2, <1>6 DEF CrewInv

\* A worker that becomes idle, its item (if it had one) in nobody's hands.
LEMMA IdleKeepsCrew ==
  ASSUME CrewInv, NEW w \in Workers, wk' = [wk EXCEPT ![w] = IdleWorker],
         \A s \in Slots : (Holding(w) => s # wk[w].slot) /\ items[s].status \in InHands
                          => items'[s].status = items[s].status
  PROVE  CrewInv'
<1>1. IdleWorker \in Worker /\ IdleWorker.slot = NoSlot /\ IdleWorker.pc = "idle"
  BY DEF IdleWorker, Worker, Pcs, Waiting
<1>2. WorkersOK' BY <1>1 DEF CrewInv, WorkersOK
<1>3. PathKnown' BY <1>1 DEF CrewInv, WorkersOK, PathKnown
<1>4. OneWorkerPerItem'
  BY <1>1 DEF CrewInv, WorkersOK, OneWorkerPerItem, Holding, Mine, InHands
<1> QED BY <1>2, <1>3, <1>4 DEF CrewInv

-----------------------------------------------------------------------------
(* The two together, for the shapes of a worker's step. *)

\* Its item untouched.
LEMMA GotoStep ==
  ASSUME IInv, NEW w \in Workers, NEW c \in Past, wk[w].pc \in Past,
         Holding(w) \/ c = "done", Goto(w, c), items' = items
  PROVE  ItemsInv' /\ CrewInv'
<1>1. ItemsInv' BY DEF IInv, ItemsInv, ItemsOK, Listed, Live
<1>2. c \in {"log", "done"} \/ items[wk[w].slot].status \in Own(w)
  BY DEF IInv, CrewInv, OneWorkerPerItem, Mine, Own
<1>3. CrewInv' BY <1>2, StepKeepsCrew DEF IInv
<1> QED BY <1>1, <1>3

\* Its item edited.
LEMMA EditStep ==
  ASSUME IInv, NEW w \in Workers, NEW c \in Past, wk[w].pc \in Past, Holding(w), Goto(w, c),
         NEW b, Edited(items[wk[w].slot], b), items' = [items EXCEPT ![wk[w].slot] = b],
         c \in {"log", "done"} \/ b.status \in Own(w)
  PROVE  ItemsInv' /\ CrewInv'
<1>1. wk[w].slot \in Slots BY HeldIsLive DEF IInv
<1>2. \A s \in Slots : items'[s] = IF s = wk[w].slot THEN b ELSE items[s]
  BY <1>1 DEF IInv, ItemsInv, ItemsOK
<1>3. \A s \in Slots : Edited(items[s], items'[s])
  BY <1>2 DEF IInv, ItemsInv, ItemsOK, Edited
<1>4. items' = [s \in Slots |-> items'[s]] BY <1>1 DEF IInv, ItemsInv, ItemsOK
<1>5. ItemsInv' BY <1>3, <1>4, EditsKeepItems DEF IInv
<1>6. CrewInv' BY <1>1, <1>2, StepKeepsCrew DEF IInv
<1> QED BY <1>5, <1>6

\* Its item given a new status, and let go.
LEMMA PublishStep ==
  ASSUME IInv, NEW w \in Workers, NEW c \in {"log", "done"}, wk[w].pc \in Past, Holding(w),
         Goto(w, c), NEW st \in Status \ {"FREE"}, Set(wk[w].slot, st)
  PROVE  ItemsInv' /\ CrewInv'
<1> DEFINE b == [items[wk[w].slot] EXCEPT !.status = st]
<1>1. Edited(items[wk[w].slot], b)
  BY HeldIsLive DEF IInv, ItemsInv, ItemsOK, Edited, Item, Live
<1>2. items' = [items EXCEPT ![wk[w].slot] = b] BY DEF Set
<1>3. c \in Past BY DEF Past, Pcs
<1> HIDE DEF b
<1> QED BY <1>1, <1>2, <1>3, EditStep

\* Neither the workers nor any item touched.
LEMMA StillStep ==
  ASSUME IInv, items' = items, wk' = wk
  PROVE  ItemsInv' /\ CrewInv'
<1>1. ItemsInv' BY DEF IInv, ItemsInv, ItemsOK, Listed, Live
<1>2. CrewInv' BY OthersKeepCrew DEF IInv
<1> QED BY <1>1, <1>2


-----------------------------------------------------------------------------
(* Steps of the workers: what they do to items and to the crew. *)

\* dl_worker takes the oldest runnable item.
LEMMA PickStep ==
  ASSUME IInv, NEW w \in Dl, Pick(w)
  PROVE  ItemsInv' /\ CrewInv'
<1> PICK s \in Oldest(Runnable) :
      /\ items' = [items EXCEPT ![s].status = "DOWNLOADING", ![s].pause = FALSE]
      /\ wk' = [wk EXCEPT ![w] = [IdleWorker EXCEPT !.pc = "measure", !.slot = s,
                                                    !.prev = items[s].status]]
  BY DEF Pick
<1>0. /\ s \in Slots /\ items[s].status \in Waiting
      /\ w \in Workers /\ w # Ex /\ wk[w].pc = "idle"
  BY QueueAssumption DEF Oldest, Runnable, Workers, Pick, PcIs
<1>1. ItemsInv'
  <2>1. \A t \in Slots : Edited(items[t], items'[t])
    BY ZenonT(30), <1>0 DEF IInv, ItemsInv, ItemsOK, Item, Status, Waiting, Edited
  <2>2. items' = [t \in Slots |-> items'[t]] BY DEF IInv, ItemsInv, ItemsOK
  <2> QED BY <2>1, <2>2, EditsKeepItems DEF IInv
<1> DEFINE new == [IdleWorker EXCEPT !.pc = "measure", !.slot = s, !.prev = items[s].status]
<1>2. new \in Worker /\ new.pc = "measure" /\ new.slot = s
  BY <1>0 DEF IdleWorker, Worker, Pcs
<1>3. s # NoSlot BY <1>0, QueueAssumption
<1>4. wk' = [wk EXCEPT ![w] = new] OBVIOUS
<1> HIDE DEF new
<1>5. /\ items'[s].status \in Own(w)
      /\ \A u \in Slots : u # s => items'[u].status = items[u].status
  BY <1>0 DEF IInv, ItemsInv, ItemsOK, Item, Own
<1>6. \A v \in Workers : Holding(v) => wk[v].slot # s
  BY <1>0 DEF IInv, CrewInv, OneWorkerPerItem, Mine, Waiting
<1>7. CrewInv BY DEF IInv
<1>8. CrewInv' BY ONLY <1>0, <1>2, <1>3, <1>4, <1>5, <1>6, <1>7, TakeKeepsCrew

<1> QED BY <1>1, <1>8

\* ex_worker takes the oldest item awaiting extraction.
LEMMA ExPickStep ==
  ASSUME IInv, ExPick
  PROVE  ItemsInv' /\ CrewInv'
<1> PICK s \in Oldest(Extractable) :
      /\ Set(s, "EXTRACTING")
      /\ wk' = [wk EXCEPT ![Ex] = [IdleWorker EXCEPT !.pc = "unpack", !.slot = s,
                                                     !.path = Path(s)]]
  BY DEF ExPick
<1>0. /\ s \in Slots /\ items[s].status = "AWAIT_EXTRACT" /\ Live(s)
      /\ Ex \in Workers /\ wk[Ex].pc = "idle"
  BY DEF Oldest, Extractable, Workers, ExPick, PcIs, Live
<1>1. ItemsInv' BY <1>0, SetKeepsItems DEF IInv, Status
<1>2. Path(s) \in Paths
  BY <1>0 DEF IInv, ItemsInv, ItemsOK, Listed, Item, Path, Paths
<1> DEFINE new == [IdleWorker EXCEPT !.pc = "unpack", !.slot = s, !.path = Path(s)]
<1>3. new \in Worker /\ new.pc = "unpack" /\ new.slot = s /\ new.path = Path(s)
  BY <1>0, <1>2 DEF IdleWorker, Worker, Pcs, Waiting
<1>4. s # NoSlot BY <1>0, QueueAssumption
<1>5. wk' = [wk EXCEPT ![Ex] = new] OBVIOUS
<1> HIDE DEF new
<1>6. /\ items'[s].status \in Own(Ex)
      /\ \A u \in Slots : u # s => items'[u].status = items[u].status
  BY <1>0 DEF IInv, ItemsInv, ItemsOK, Item, Own, Set
<1>7. \A v \in Workers : Holding(v) => wk[v].slot # s
  BY <1>0 DEF IInv, CrewInv, OneWorkerPerItem, Mine
<1>8. CrewInv BY DEF IInv
<1>9. CrewInv' BY ONLY <1>0, <1>2, <1>3, <1>4, <1>5, <1>6, <1>7, <1>8, TakeKeepsCrew
<1> QED BY <1>1, <1>9

\* Forgetting which items lacked room changes no status.
LEMMA NoSpaceKeepsItems ==
  ASSUME ItemsInv, ForgetNoSpace
  PROVE  ItemsInv' /\ \A s \in Slots : items'[s].status = items[s].status
<1>1. \A s \in Slots : Edited(items[s], items'[s]) /\ items'[s].status = items[s].status
  BY DEF ItemsInv, ItemsOK, ForgetNoSpace, Item, Edited
<1>2. items' = [s \in Slots |-> items'[s]] BY DEF ForgetNoSpace
<1> QED BY <1>1, <1>2, EditsKeepItems

\* A download worker finds nothing to take.
LEMMA RestStep ==
  ASSUME IInv, NEW w \in Dl, Rest(w)
  PROVE  ItemsInv' /\ CrewInv'
<1>0. w \in Workers /\ items' = items /\ wk[w].pc = "idle"
  BY DEF Rest, Workers, PcIs
<1>1. ItemsInv' BY <1>0 DEF IInv, ItemsInv, ItemsOK, Listed, Live
<1>2. CASE wk' = wk BY <1>0, <1>2, StillStep
<1>3. CASE Goto(w, "nap")
  <2>1. WorkersOK' BY <1>0, <1>3 DEF IInv, CrewInv, WorkersOK, Goto, Worker, Pcs
  <2>2. PathKnown' BY <1>0, <1>3 DEF IInv, CrewInv, WorkersOK, PathKnown, Goto
  <2>3. OneWorkerPerItem'
    BY <1>0, <1>3 DEF IInv, CrewInv, WorkersOK, OneWorkerPerItem, Holding, Mine, Goto
  <2> QED BY <1>1, <2>1, <2>2, <2>3 DEF CrewInv
<1> QED BY <1>2, <1>3 DEF Rest

\* A download worker wakes from the space hold.
LEMMA WakeStep ==
  ASSUME IInv, NEW w \in Dl, Wake(w)
  PROVE  ItemsInv' /\ CrewInv'
<1>0. w \in Workers /\ wk[w].pc = "nap" /\ Goto(w, "idle") /\ ForgetNoSpace
  BY DEF Wake, Workers, PcIs
<1>1. ItemsInv' /\ \A s \in Slots : items'[s].status = items[s].status
  BY <1>0, NoSpaceKeepsItems DEF IInv
<1>2. WorkersOK' BY <1>0 DEF IInv, CrewInv, WorkersOK, Goto, Worker, Pcs
<1>3. PathKnown' BY <1>0 DEF IInv, CrewInv, WorkersOK, PathKnown, Goto
<1>4. OneWorkerPerItem'
  BY <1>0, <1>1 DEF IInv, CrewInv, WorkersOK, OneWorkerPerItem, Holding, Mine, Goto
<1> QED BY <1>1, <1>2, <1>3, <1>4 DEF CrewInv

\* A worker ends its turn.
LEMMA DoneStep ==
  ASSUME IInv, NEW w \in Workers, Done(w)
  PROVE  ItemsInv' /\ CrewInv'
<1>1. ItemsInv' /\ \A s \in Slots : items'[s].status = items[s].status
  <2>1. CASE items' = items BY <2>1 DEF IInv, ItemsInv, ItemsOK, Listed, Live
  <2>2. CASE ForgetNoSpace BY <2>2, NoSpaceKeepsItems DEF IInv
  <2> QED BY <2>1, <2>2 DEF Done
<1>2. wk' = [wk EXCEPT ![w] = IdleWorker] BY DEF Done
<1>3. CrewInv' BY <1>1, <1>2, IdleKeepsCrew DEF IInv
<1> QED BY <1>1, <1>3

\* A download worker puts back an item there is no room for.
LEMMA UnclaimStep ==
  ASSUME IInv, NEW w \in Dl, Unclaim(w)
  PROVE  ItemsInv' /\ CrewInv'
<1> DEFINE s == wk[w].slot
<1>0. w \in Workers /\ Holding(w) BY DEF Unclaim, Workers, PcIs, Holding
<1>1. s \in Slots /\ Live(s) /\ wk[w].prev \in Waiting
  BY <1>0, HeldIsLive DEF IInv, CrewInv, WorkersOK, Worker
<1>2. items' = [items EXCEPT ![s].nospace = TRUE,
                             ![s].status = IF @ = "DOWNLOADING" THEN wk[w].prev ELSE @]
  BY DEF Unclaim
<1>3. wk' = [wk EXCEPT ![w] = IdleWorker] BY DEF Unclaim
<1> HIDE DEF s
<1>4. /\ \A t \in Slots : Edited(items[t], items'[t])
      /\ \A t \in Slots : t # s => items'[t] = items[t]
  BY ZenonT(30), <1>1, <1>2 DEF IInv, ItemsInv, ItemsOK, Item, Edited, Live, Status, Waiting
<1>5. items' = [t \in Slots |-> items'[t]] BY <1>2 DEF IInv, ItemsInv, ItemsOK
<1>6. ItemsInv' BY <1>4, <1>5, EditsKeepItems DEF IInv
<1>7. CrewInv' BY <1>0, <1>3, <1>4, IdleKeepsCrew DEF IInv, s
<1> QED BY <1>6, <1>7

\* A download worker has measured the room for its item.
LEMMA MeasureStep ==
  ASSUME IInv, NEW w \in Dl, MeasureShort(w) \/ MeasureFits(w)
  PROVE  ItemsInv' /\ CrewInv'
<1>0. w \in Workers /\ items' = items /\ wk[w].pc = "measure"
  BY DEF MeasureShort, MeasureFits, Workers, PcIs
<1>1. PICK c \in {"unclaim", "begin"} : Goto(w, c) BY DEF MeasureShort, MeasureFits
<1>2. ItemsInv' BY <1>0 DEF IInv, ItemsInv, ItemsOK, Listed, Live
<1>3. WorkersOK' BY <1>0, <1>1 DEF IInv, CrewInv, WorkersOK, Goto, Worker, Pcs
<1>4. PathKnown' BY <1>0, <1>1 DEF IInv, CrewInv, WorkersOK, PathKnown, Goto
<1>5. OneWorkerPerItem'
  BY <1>0, <1>1 DEF IInv, CrewInv, WorkersOK, OneWorkerPerItem, Holding, Mine, Goto
<1> QED BY <1>2, <1>3, <1>4, <1>5 DEF CrewInv

\* A download worker computes the .part path and starts the transfer.
LEMMA BeginStep ==
  ASSUME IInv, NEW w \in Dl, Begin(w)
  PROVE  ItemsInv' /\ CrewInv'
<1>0. w \in Workers /\ items' = items /\ wk[w].pc = "begin" /\ Holding(w)
  BY DEF Begin, Workers, PcIs, Holding
<1>1. ItemsInv' BY <1>0 DEF IInv, ItemsInv, ItemsOK, Listed, Live
<1>2. Path(wk[w].slot) \in Paths
  BY <1>0, HeldIsLive DEF IInv, ItemsInv, ItemsOK, Listed, Item, Path, Paths
<1>3. PICK c \in {"xfer", "fail"} :
        wk' = [wk EXCEPT ![w].path = Path(wk[w].slot), ![w].pc = c]
  BY DEF Begin
<1>4. WorkersOK' BY <1>0, <1>2, <1>3 DEF IInv, CrewInv, WorkersOK, Worker, Pcs
<1>5. PathKnown' BY <1>0, <1>2, <1>3 DEF IInv, CrewInv, WorkersOK, PathKnown
<1>6. OneWorkerPerItem'
  BY <1>0, <1>3 DEF IInv, CrewInv, WorkersOK, OneWorkerPerItem, Holding, Mine
<1> QED BY <1>1, <1>4, <1>5, <1>6 DEF CrewInv
\* The transfer ends.
LEMMA TransferredStep ==
  ASSUME IInv, NEW w \in Dl, Transferred(w)
  PROVE  ItemsInv' /\ CrewInv'
<1>0. w \in Workers /\ items' = items /\ wk[w].pc = "xfer" /\ Holding(w)
  BY DEF Transferred, PcIs, Workers, Holding
<1>1. ItemsInv' BY <1>0 DEF IInv, ItemsInv, ItemsOK, Listed, Live
<1>2. PICK b \in BOOLEAN : wk' = [wk EXCEPT ![w].ok = b, ![w].pc = "settle"]
  <2>1. PICK o \in Outcomes(w) : wk' = [wk EXCEPT ![w].ok = o[2], ![w].pc = "settle"]
    BY DEF Transferred
  <2>2. CASE wk[w].path[1] = NoFile
    <3>1. o = <<At(wk[w].path), FALSE>> BY <2>2 DEF Outcomes
    <3>2. o[2] = FALSE BY <3>1
    <3> QED BY <2>1, <3>2
  <2>3. CASE wk[w].path[1] # NoFile
    <3>1. o \in Results \X BOOLEAN BY <2>3 DEF Outcomes
    <3> QED BY <2>1, <3>1
  <2> QED BY <2>2, <2>3
<1>3. WorkersOK' BY <1>0, <1>2 DEF IInv, CrewInv, WorkersOK, Worker, Pcs
<1>4. PathKnown' BY <1>0, <1>2 DEF IInv, CrewInv, WorkersOK, PathKnown
<1>5. OneWorkerPerItem'
  BY <1>0, <1>2 DEF IInv, CrewInv, WorkersOK, OneWorkerPerItem, Holding, Mine
<1> QED BY <1>1, <1>3, <1>4, <1>5 DEF CrewInv

\* Settling: the pause flag is cleared, the status may become VERIFYING.
LEMMA SettleStep ==
  ASSUME IInv, NEW w \in Dl, SettleShort(w) \/ SettleWhole(w)
  PROVE  ItemsInv' /\ CrewInv'
<1> DEFINE s == wk[w].slot
<1>0. w \in Workers /\ w # Ex /\ wk[w].pc = "settle" /\ Holding(w) /\ wk[w].pc \in Past
  BY QueueAssumption DEF SettleShort, SettleWhole, PcIs, Workers, Holding, Past, Pcs
<1>1. s \in Slots /\ Live(s) /\ items[s] \in Item /\ items[s].status \in Own(w)
  BY <1>0, HeldIsLive DEF IInv, ItemsInv, ItemsOK, CrewInv, OneWorkerPerItem, Mine, Own
<1> DEFINE un == [items[s] EXCEPT !.pause = FALSE]
           ver == [items[s] EXCEPT !.pause = FALSE, !.status = "VERIFYING"]
<1>2. /\ Edited(items[s], un) /\ un.status \in Own(w)
      /\ Edited(items[s], ver) /\ ver.status \in Own(w)
  BY <1>0, <1>1 DEF Edited, Item, Live, Own, Status
<1>3. PICK c \in Past : Goto(w, c)
  <2>1. {"park", "fail", "verify", "await", "move"} \subseteq Past BY DEF Past, Pcs
  <2>2. CASE SettleShort(w) BY <2>1, <2>2 DEF SettleShort
  <2>3. CASE SettleWhole(w) BY <2>1, <2>3 DEF SettleWhole, Landing
  <2> QED BY <2>2, <2>3
<1>4. \/ items' = [items EXCEPT ![s] = un]
      \/ items' = [items EXCEPT ![s] = ver]
  BY <1>1 DEF SettleShort, SettleWhole, Unpause, IInv, ItemsInv, ItemsOK
<1> HIDE DEF s, un, ver
<1>5. CASE items' = [items EXCEPT ![s] = un] BY <1>0, <1>2, <1>3, <1>5, EditStep DEF s
<1>6. CASE items' = [items EXCEPT ![s] = ver] BY <1>0, <1>2, <1>3, <1>6, EditStep DEF s
<1> QED BY <1>4, <1>5, <1>6

\* A .part moved into the library.
LEMMA InstallStep ==
  ASSUME IInv, NEW w \in Workers, wk[w].pc \in Past, Holding(w),
         NEW c \in {"log", "done"}, Goto(w, c),
         NEW st \in Status \ {"FREE"}, Install(w, st)
  PROVE  ItemsInv' /\ CrewInv'
BY PublishStep DEF Install

\* finish_cancel gives a requeued item back to the queue.
LEMMA GiveBackStep ==
  ASSUME IInv, NEW w \in Workers, GiveBack(w)
  PROVE  ItemsInv' /\ CrewInv'
<1> DEFINE b == [Restart(items[wk[w].slot]) EXCEPT !.requeue = 0]
<1>1. wk[w].pc \in Past /\ Holding(w) /\ "done" \in Past /\ Goto(w, "done")
  BY DEF GiveBack, PcIs, Past, Pcs, Holding
<1>2. Edited(items[wk[w].slot], b)
  <2>1. wk[w].slot \in Slots /\ items[wk[w].slot].status # "FREE"
    BY <1>1, HeldIsLive DEF IInv, Live
  <2>2. items[wk[w].slot] \in Item BY <2>1 DEF IInv, ItemsInv, ItemsOK
  <2> QED BY <2>1, <2>2, RestartIsEdit
<1>3. items' = [items EXCEPT ![wk[w].slot] = b]
  BY DEF GiveBack
<1> HIDE DEF b
<1> QED BY <1>1, <1>2, <1>3, EditStep

\* The steps both kinds of worker share.
LEMMA AnyWorkerStep ==
  ASSUME IInv, NEW w \in Workers, AnyStep(w)
  PROVE  ItemsInv' /\ CrewInv'
<1> USE DEF PcIs
<1>0. Past = {"xfer", "settle", "park", "fail", "verify", "await", "move", "unpack", "unrar",
              "raw", "cancel", "drop", "requeue", "log", "done"}
  BY DEF Past, Pcs
<1>1. CASE Fail(w)
  BY <1>0, <1>1, PublishStep DEF Fail, Holding, Status
<1>2. CASE MoveFailed(w) BY <1>0, <1>2, GotoStep DEF MoveFailed, Holding
<1>3. CASE CancelRead(w) BY <1>0, <1>3, GotoStep DEF CancelRead, Holding
<1>4. CASE Drop(w) BY <1>0, <1>4, PublishStep DEF Drop, Holding, Status
<1>5. CASE GiveBack(w) BY <1>5, GiveBackStep
<1>6. CASE Log(w) BY <1>0, <1>6, GotoStep DEF Log
<1>7. CASE Done(w) BY <1>7, DoneStep
<1> QED BY <1>1, <1>2, <1>3, <1>4, <1>5, <1>6, <1>7 DEF AnyStep

\* The steps of a download worker.
LEMMA DlWorkerStep ==
  ASSUME IInv, NEW w \in Dl, DlStep(w)
  PROVE  ItemsInv' /\ CrewInv'
<1> USE DEF PcIs
<1>0. /\ Past = {"xfer", "settle", "park", "fail", "verify", "await", "move", "unpack", "unrar",
                 "raw", "cancel", "drop", "requeue", "log", "done"}
      /\ w \in Workers
  BY DEF Past, Pcs, Workers
<1>1. CASE Pick(w) BY <1>1, PickStep
<1>2. CASE Rest(w) BY <1>2, RestStep
<1>3. CASE Wake(w) BY <1>3, WakeStep
<1>4. CASE Unclaim(w) BY <1>4, UnclaimStep
<1>5. CASE MeasureShort(w) \/ MeasureFits(w) BY <1>5, MeasureStep
<1>6. CASE Begin(w) BY <1>6, BeginStep
<1>7. CASE Receive(w) BY <1>7, StillStep DEF Receive
<1>8. CASE Transferred(w) BY <1>8, TransferredStep
<1>9. CASE SettleStop(w) BY <1>0, <1>9, GotoStep DEF SettleStop, Holding
<1>10. CASE SettleCancel(w) BY <1>0, <1>10, GotoStep DEF SettleCancel, Holding
<1>11. CASE SettleShort(w) \/ SettleWhole(w) BY <1>11, SettleStep
<1>12. CASE Park(w) BY <1>0, <1>12, PublishStep DEF Park, Holding, Status
<1>13. CASE VerifyStopped(w) BY <1>0, <1>13, GotoStep DEF VerifyStopped, Holding
<1>14. CASE Verified(w) BY <1>0, <1>14, GotoStep DEF Verified, Holding, Landing
<1>15. CASE Await(w) BY <1>0, <1>15, PublishStep DEF Await, Holding, Status
<1>16. CASE Move(w) BY <1>0, <1>16, InstallStep DEF Move, Holding, Status
<1> QED
  BY <1>1, <1>2, <1>3, <1>4, <1>5, <1>6, <1>7, <1>8, <1>9, <1>10, <1>11, <1>12, <1>13, <1>14,
     <1>15, <1>16 DEF DlStep

\* The steps of the extract worker.
LEMMA ExWorkerStep ==
  ASSUME IInv, ExStep
  PROVE  ItemsInv' /\ CrewInv'
<1> USE DEF PcIs
<1>0. /\ Past = {"xfer", "settle", "park", "fail", "verify", "await", "move", "unpack", "unrar",
                 "raw", "cancel", "drop", "requeue", "log", "done"}
      /\ Ex \in Workers
  BY DEF Past, Pcs, Workers
<1>1. CASE ExPick BY <1>1, ExPickStep
<1>2. CASE UnpackStop BY <1>0, <1>2, GotoStep DEF UnpackStop, Holding
<1>3. CASE UnpackCancel BY <1>0, <1>3, GotoStep DEF UnpackCancel, Holding
<1>4. CASE Unpacked BY <1>0, <1>4, InstallStep DEF Unpacked, Holding, Status
<1>5. CASE UnpackFailed BY <1>0, <1>5, GotoStep DEF UnpackFailed, Holding
<1>6. CASE KeepRaw BY <1>0, <1>6, InstallStep DEF KeepRaw, Holding, Status
<1> QED BY <1>1, <1>2, <1>3, <1>4, <1>5, <1>6 DEF ExStep

-----------------------------------------------------------------------------
(* The UI's calls. *)

\* Any number of items edited, none of them out of a worker's hands.
LEMMA EditsStep ==
  ASSUME IInv, wk' = wk, items' = [s \in Slots |-> items'[s]],
         \A s \in Slots : /\ Edited(items[s], items'[s])
                          /\ items[s].status \in InHands => items'[s].status = items[s].status
  PROVE  ItemsInv' /\ CrewInv'
<1>1. ItemsInv' BY EditsKeepItems DEF IInv
<1>2. CrewInv' BY OthersKeepCrew DEF IInv
<1> QED BY <1>1, <1>2

\* One item edited.
LEMMA EditOneStep ==
  ASSUME IInv, wk' = wk, NEW s \in Slots, NEW b, Edited(items[s], b),
         items[s].status \in InHands => b.status = items[s].status,
         items' = [items EXCEPT ![s] = b]
  PROVE  ItemsInv' /\ CrewInv'
<1>1. \A t \in Slots : items'[t] = IF t = s THEN b ELSE items[t]
  BY DEF IInv, ItemsInv, ItemsOK
<1>2. \A t \in Slots : Edited(items[t], items[t]) BY DEF IInv, ItemsInv, ItemsOK, Edited
<1>3. items' = [t \in Slots |-> items'[t]] BY DEF IInv, ItemsInv, ItemsOK
<1> QED BY <1>1, <1>2, <1>3, EditsStep

\* A new item in a free slot.
LEMMA NewItemStep ==
  ASSUME IInv, wk' = wk, NEW s \in Slots, ~Live(s), NEW st \in Status, NEW f \in AllFiles,
         NEW q \in 1..MaxSeq, NEW x \in BOOLEAN, x \/ f \in Files,
         items' = [items EXCEPT ![s] = NewItem(st, f, q, x)]
  PROVE  ItemsInv' /\ CrewInv'
<1> DEFINE b == NewItem(st, f, q, x)
<1>1. b \in Item /\ b.seq = q /\ b.file = f /\ b.ext = x
  BY QueueAssumption DEF NewItem, Item
<1>2. items' = [items EXCEPT ![s] = b] OBVIOUS
<1> HIDE DEF b
<1>3. ItemsInv' BY <1>1, <1>2 DEF IInv, ItemsInv, ItemsOK, Listed, Live
<1>4. \A t \in Slots : items[t].status \in InHands => items'[t].status = items[t].status
  BY <1>2 DEF IInv, ItemsInv, ItemsOK, Live, InHands
<1>5. CrewInv' BY <1>4, OthersKeepCrew DEF IInv
<1> QED BY <1>3, <1>5

\* A cancel marks an item as cancelled or asks its worker to stop.
LEMMA CancelledIsEdit ==
  ASSUME NEW it \in Item
  PROVE  /\ Edited(it, Cancelled(it))
         /\ it.status \in InHands => Cancelled(it).status = it.status
BY DEF Edited, Cancelled, Item, Status, Waiting, Active, InHands

\* queue_add puts a new item in a free slot.
LEMMA AddStep ==
  ASSUME IInv, NEW f \in Files, Add(f)
  PROVE  ItemsInv' /\ CrewInv'
<1>1. gseq \in 1..MaxSeq BY QueueAssumption DEF IInv, FlagsOK, Add
<1>2. f \in AllFiles /\ "QUEUED" \in Status /\ wk' = wk BY DEF AllFiles, Status, Add, Quiet
<1>3. PICK s \in Slots : ~Live(s) /\ items' = [items EXCEPT ![s] = NewItem("QUEUED", f, gseq, FALSE)]
  BY DEF Add
<1> QED BY <1>1, <1>2, <1>3, NewItemStep

\* queue_ext_add does, for a transfer somebody else drives.
LEMMA ExtAddStep ==
  ASSUME IInv, ExtAdd
  PROVE  ItemsInv' /\ CrewInv'
<1>1. gseq \in 1..MaxSeq BY QueueAssumption DEF IInv, FlagsOK, ExtAdd
<1>2. NoFile \in AllFiles /\ "DOWNLOADING" \in Status /\ wk' = wk
  BY DEF AllFiles, Status, ExtAdd, Quiet
<1>3. PICK s \in Slots :
        ~Live(s) /\ items' = [items EXCEPT ![s] = NewItem("DOWNLOADING", NoFile, gseq, TRUE)]
  BY DEF ExtAdd
<1> QED BY <1>1, <1>2, <1>3, NewItemStep

\* The owner of an external transfer closes it; no worker has it in hand, for
\* the extract worker only holds items being extracted.
LEMMA ExtFinishStep ==
  ASSUME IInv, NEW s \in Slots, ExtFinish(s)
  PROVE  ItemsInv' /\ CrewInv'
<1>1. PICK st \in {"DONE", "FAILED"} : Set(s, st) BY DEF ExtFinish
<1>2. wk' = wk /\ items[s].status = "DOWNLOADING" /\ \A w \in Dl : wk[w].slot # s
  BY DEF ExtFinish, Quiet
<1>3. ItemsInv' BY <1>1, <1>2, SetKeepsItems DEF IInv, Live, Status
<1>4. \A w \in Workers : Holding(w) => wk[w].slot # s
  BY <1>2, QueueAssumption DEF IInv, CrewInv, OneWorkerPerItem, Mine, Workers
<1>5. WorkersOK' /\ PathKnown' BY <1>2 DEF IInv, CrewInv, WorkersOK, PathKnown
<1>6. OneWorkerPerItem'
  BY <1>1, <1>2, <1>4 DEF IInv, ItemsInv, ItemsOK, Set, CrewInv, OneWorkerPerItem, Holding, Mine
<1> QED BY <1>3, <1>5, <1>6 DEF CrewInv

\* queue_ext_cancel sets a flag.
LEMMA ExtCancelStep ==
  ASSUME IInv, NEW s \in Slots, ExtCancel(s)
  PROVE  ItemsInv' /\ CrewInv'
<1> DEFINE b == [items[s] EXCEPT !.cancel = TRUE]
<1>1. Edited(items[s], b) /\ b.status = items[s].status
  BY DEF IInv, ItemsInv, ItemsOK, Edited, Item
<1>2. items' = [items EXCEPT ![s] = b] /\ wk' = wk BY DEF ExtCancel, Quiet
<1> HIDE DEF b
<1> QED BY <1>1, <1>2, EditOneStep

\* queue_cancel, on one item.
LEMMA CancelStep ==
  ASSUME IInv, NEW s \in Slots, Cancel(s)
  PROVE  ItemsInv' /\ CrewInv'
<1> DEFINE b == Cancelled(items[s])
<1>1. items[s] \in Item BY DEF IInv, ItemsInv, ItemsOK
<1>2. Edited(items[s], b) /\ items[s].status \in InHands => b.status = items[s].status
  BY <1>1, CancelledIsEdit
<1>3. items' = [items EXCEPT ![s] = b] /\ wk' = wk BY DEF Cancel, Quiet
<1> HIDE DEF b
<1> QED BY <1>2, <1>3, EditOneStep, CancelledIsEdit, <1>1 DEF b

\* queue_cancel_all, on all of them.
LEMMA CancelAllStep ==
  ASSUME IInv, CancelAll
  PROVE  ItemsInv' /\ CrewInv'
<1>1. items' = [s \in Slots |-> Cancelled(items[s])] /\ wk' = wk BY DEF CancelAll, Quiet
<1>2. \A s \in Slots : items[s] \in Item /\ items'[s] = Cancelled(items[s])
  BY <1>1 DEF IInv, ItemsInv, ItemsOK
<1>3. items' = [s \in Slots |-> items'[s]] BY <1>1
<1> QED BY <1>1, <1>2, <1>3, CancelledIsEdit, EditsStep

\* Deleting a staged file cancels the items it belongs to.
LEMMA DeletePartStep ==
  ASSUME IInv, NEW p \in Paths, DeletePart(p)
  PROVE  ItemsInv' /\ CrewInv'
<1>1. PICK hits \in SUBSET Slots :
        items' = [s \in Slots |-> IF s \in hits THEN Cancelled(items[s]) ELSE items[s]]
  BY DEF DeletePart
<1>2. \A s \in Slots : /\ items[s] \in Item
                       /\ items'[s] = Cancelled(items[s]) \/ items'[s] = items[s]
  BY <1>1 DEF IInv, ItemsInv, ItemsOK
<1>3. \A it \in Item : Edited(it, it) BY DEF Edited
<1>4. items' = [s \in Slots |-> items'[s]] /\ wk' = wk BY <1>1 DEF DeletePart
<1> QED BY <1>2, <1>3, <1>4, CancelledIsEdit, EditsStep

\* queue_retry, on an item no worker has.
LEMMA RetryStep ==
  ASSUME IInv, NEW s \in Slots, Retry(s)
  PROVE  ItemsInv' /\ CrewInv'
<1>1. items[s] \in Item /\ items[s].status # "FREE" /\ items[s].status \notin InHands
  BY DEF IInv, ItemsInv, ItemsOK, Retry, InHands
<1>2. items' = [items EXCEPT ![s] = Restart(items[s])] /\ wk' = wk BY DEF Retry, Quiet
<1> QED BY <1>1, <1>2, RestartIsEdit, EditOneStep

\* queue_retry_status, on items no worker has.
LEMMA RetryStatusStep ==
  ASSUME IInv, NEW want \in {"FAILED", "CANCELLED", "PAUSED"}, RetryStatus(want)
  PROVE  ItemsInv' /\ CrewInv'
<1>1. /\ items' = [s \in Slots |-> IF items[s].status = want THEN Restart(items[s]) ELSE items[s]]
      /\ wk' = wk
  BY DEF RetryStatus, Quiet
<1>2. \A s \in Slots :
        /\ items[s] \in Item
        /\ items'[s] = IF items[s].status = want THEN Restart(items[s]) ELSE items[s]
  BY <1>1 DEF IInv, ItemsInv, ItemsOK
<1>3. \A it \in Item : Edited(it, it) BY DEF Edited
<1>4. items' = [s \in Slots |-> items'[s]] BY <1>1
<1>5. want # "FREE" /\ want \notin InHands BY DEF InHands
<1> QED BY <1>1, <1>2, <1>3, <1>4, <1>5, RestartIsEdit, EditsStep

\* queue_requeue asks a worker to stop, or restarts an item no worker has.
LEMMA RequeueStep ==
  ASSUME IInv, NEW s \in Slots, NEW kind \in {1, 2}, Requeue(s, kind)
  PROVE  ItemsInv' /\ CrewInv'
<1> DEFINE ask   == [items[s] EXCEPT !.requeue = kind, !.cancel = TRUE]
           again == [Restart(items[s]) EXCEPT !.requeue = 0]
<1>0. items[s] \in Item /\ wk' = wk BY DEF IInv, ItemsInv, ItemsOK, Requeue, Quiet
<1>1. CASE items[s].status \in Active /\ items' = [items EXCEPT ![s].requeue = kind, ![s].cancel = TRUE]
  <2>0. kind \in 0..2 OBVIOUS
  <2>1. Edited(items[s], ask) /\ ask.status = items[s].status
    <3>1. ask \in Item BY <1>0, <2>0 DEF Item
    <3> QED BY <1>0, <3>1 DEF Edited, Item
  <2>2. items' = [items EXCEPT ![s] = ask] BY <1>1 DEF IInv, ItemsInv, ItemsOK
  <2> HIDE DEF ask
  <2> QED BY <1>0, <2>1, <2>2, EditOneStep
<1>2. CASE /\ items[s].status \in Waiting \cup {"FAILED", "CANCELLED"}
           /\ items' = [items EXCEPT ![s] = again]
  <2>1. Edited(items[s], again) /\ items[s].status \notin InHands
    BY <1>0, <1>2, RestartIsEdit DEF Waiting, InHands
  <2> HIDE DEF again
  <2> QED BY <1>0, <1>2, <2>1, EditOneStep
<1> QED BY <1>1, <1>2 DEF Requeue

\* queue_pause_all parks what waits and asks the rest to stop.
LEMMA PauseAllStep ==
  ASSUME IInv, PauseAll
  PROVE  ItemsInv' /\ CrewInv'
<1>1. \A s \in Slots : /\ Edited(items[s], items'[s])
                       /\ items[s].status \in InHands => items'[s].status = items[s].status
  <2> SUFFICES ASSUME NEW s \in Slots
               PROVE  /\ Edited(items[s], items'[s])
                      /\ items[s].status \in InHands => items'[s].status = items[s].status
    OBVIOUS
  <2>1. items[s] \in Item BY DEF IInv, ItemsInv, ItemsOK
  <2>2. CASE items[s].status = "QUEUED"
    <3>1. items'[s] = [items[s] EXCEPT !.status = "PAUSED"] BY <2>2 DEF PauseAll
    <3> QED BY <2>1, <2>2, <3>1 DEF Edited, Item, InHands, Status
  <2>3. CASE items[s].status = "DOWNLOADING"
    <3>1. items'[s] = [items[s] EXCEPT !.pause = TRUE] BY <2>3 DEF PauseAll
    <3> QED BY <2>1, <2>3, <3>1 DEF Edited, Item
  <2>4. CASE items[s].status \notin {"QUEUED", "DOWNLOADING"}
    <3>1. items'[s] = items[s] BY <2>4 DEF PauseAll
    <3> QED BY <2>1, <3>1 DEF Edited
  <2> QED BY <2>2, <2>3, <2>4
<1>2. items' = [s \in Slots |-> items'[s]] /\ wk' = wk BY DEF PauseAll, Quiet
<1> QED BY <1>1, <1>2, EditsStep

\* queue_set_max_dl changes pause flags only.
LEMMA SetMaxDlStep ==
  ASSUME IInv, NEW n \in 1..MaxDl, SetMaxDl(n)
  PROVE  ItemsInv' /\ CrewInv'
<1> DEFINE dl      == {s \in Slots : items[s].status = "DOWNLOADING"}
           rank(s) == Cardinality({t \in dl : items[t].seq < items[s].seq})
<1>1. items' = [s \in Slots |-> IF s \in dl THEN [items[s] EXCEPT !.pause = (rank(s) >= n)]
                                            ELSE items[s]]
  BY DEF SetMaxDl
<1> HIDE DEF dl, rank
<1>2. \A s \in Slots : (rank(s) >= n) \in BOOLEAN OBVIOUS
<1>3. \A s \in Slots : /\ Edited(items[s], items'[s])
                       /\ items'[s].status = items[s].status
  BY <1>1, <1>2 DEF IInv, ItemsInv, ItemsOK, Edited, Item
<1>4. items' = [s \in Slots |-> items'[s]] /\ wk' = wk BY <1>1 DEF SetMaxDl, Quiet
<1> QED BY <1>3, <1>4, EditsStep

\* queue_clear_finished frees the slots of finished items.
LEMMA ClearFinishedStep ==
  ASSUME IInv, ClearFinished
  PROVE  ItemsInv' /\ CrewInv'
<1>1. \A s \in Slots : /\ Edited(items[s], items'[s])
                       /\ items[s].status \in InHands => items'[s].status = items[s].status
  BY DEF ClearFinished, IInv, ItemsInv, ItemsOK, Edited, Item, InHands, Status, Terminal
<1>2. items' = [s \in Slots |-> items'[s]] /\ wk' = wk BY DEF ClearFinished, Quiet
<1> QED BY <1>1, <1>2, EditsStep

\* Two neighbours swap their numbers.
LEMMA MoveUpStep ==
  ASSUME IInv, NEW s \in Slots, MoveUp(s)
  PROVE  ItemsInv' /\ CrewInv'
<1>1. PICK t \in Above(s) :
        items' = [items EXCEPT ![s].seq = items[t].seq, ![t].seq = items[s].seq]
  BY DEF MoveUp
<1>2. t \in Slots /\ Live(t) /\ Live(s) /\ wk' = wk
  BY <1>1 DEF MoveUp, Above, Order, Quiet
<1>3. items[s].seq \in 1..MaxSeq /\ items[t].seq \in 1..MaxSeq
  BY <1>2 DEF IInv, ItemsInv, Listed
<1>4. \A u \in Slots :
        /\ items'[u] \in Item /\ items'[u].file = items[u].file /\ items'[u].ext = items[u].ext
        /\ items'[u].status = items[u].status
        /\ items'[u].seq \in {items[u].seq, items[s].seq, items[t].seq}
  BY <1>1, <1>2, <1>3 DEF IInv, ItemsInv, ItemsOK, Item
<1>5. items' \in [Slots -> Item] BY <1>1, <1>2, <1>4 DEF IInv, ItemsInv, ItemsOK
<1>6. Listed' BY <1>3, <1>4 DEF IInv, ItemsInv, Listed, Live
<1>7. CrewInv' BY <1>2, <1>4, OthersKeepCrew DEF IInv
<1> QED BY <1>5, <1>6, <1>7 DEF ItemsInv, ItemsOK

\* The list is renumbered from 1, within the number of slots.
LEMMA Renumbering ==
  ASSUME IInv, NEW s \in Order, items[s].status \notin Active, NEW t \in Order
  PROVE  LET heading == {u \in Order : \A v \in Above(u) \cup {u} : items[v].status \in Active}
             rank    == Cardinality(Above(t) \ {s}) + 1
         IN /\ Cardinality(Order) \in 1..MaxSeq
            /\ Cardinality(heading) + 1 \in 1..Cardinality(Order)
            /\ t # s => rank \in 1..(Cardinality(Order) - 1)
<1> DEFINE heading == {u \in Order : \A v \in Above(u) \cup {u} : items[v].status \in Active}
<1>1. IsFiniteSet(Order) /\ Cardinality(Order) <= Cardinality(Slots)
  BY FS_Subset, QueueAssumption DEF Order
<1>2. IsFiniteSet(Order \ {s}) /\ Cardinality(Order \ {s}) = Cardinality(Order) - 1
  BY <1>1, FS_RemoveElement
<1>3. Cardinality(Order) \in Nat /\ Cardinality(Order \ {s}) \in Nat
      /\ Cardinality(Slots) \in Nat
  BY <1>1, <1>2, FS_CardinalityType, QueueAssumption
<1>4. Cardinality(Order) \in 1..MaxSeq BY <1>1, <1>2, <1>3, QueueAssumption
<1>5. Cardinality(heading) + 1 \in 1..Cardinality(Order)
  <2>1. heading \in SUBSET (Order \ {s}) OBVIOUS
  <2> HIDE DEF heading
  <2>2. IsFiniteSet(heading) /\ Cardinality(heading) <= Cardinality(Order \ {s})
    BY <1>2, <2>1, FS_Subset
  <2> QED BY <1>2, <1>3, <2>2, FS_CardinalityType
<1>6. ASSUME t # s
      PROVE  Cardinality(Above(t) \ {s}) + 1 \in 1..(Cardinality(Order) - 1)
  <2> DEFINE rest == (Order \ {s}) \ {t}
             A    == Above(t) \ {s}
  <2>1. IsFiniteSet(rest) /\ Cardinality(rest) = Cardinality(Order) - 2
    BY <1>2, <1>3, <1>6, FS_RemoveElement
  <2>2. ~(items[t].seq < items[t].seq)
    BY DEF IInv, ItemsInv, ItemsOK, Item, Order
  <2>3. A \in SUBSET rest BY <2>2 DEF Above
  <2> HIDE DEF rest, A
  <2>4. IsFiniteSet(A) /\ Cardinality(A) <= Cardinality(rest) BY <2>1, <2>3, FS_Subset
  <2>5. Cardinality(A) \in Nat BY <2>4, FS_CardinalityType
  <2> QED BY <1>3, <2>1, <2>4, <2>5 DEF A
<1> QED BY <1>4, <1>5, <1>6

\* queue_move_end deals out numbers within bounds.
LEMMA MoveEndStep ==
  ASSUME IInv, NEW s \in Slots, NEW bottom \in BOOLEAN, MoveEnd(s, bottom)
  PROVE  ItemsInv' /\ CrewInv' /\ gseq' \in 1..(MaxSeq + 1)
<1> DEFINE heading == {t \in Order : \A u \in Above(t) \cup {t} : items[u].status \in Active}
           to      == IF bottom THEN Cardinality(Order) ELSE Cardinality(heading) + 1
           rank(t) == Cardinality(Above(t) \ {s}) + 1
           place(t) == IF t = s THEN to ELSE IF rank(t) < to THEN rank(t) ELSE rank(t) + 1
<1>1. s \in Order /\ items[s].status \notin Active /\ wk' = wk
  BY DEF MoveEnd, Order, Quiet
<1>2. /\ items' = [t \in Slots |-> IF t \in Order THEN [items[t] EXCEPT !.seq = place(t)]
                                                  ELSE items[t]]
      /\ gseq' = IF gseq <= Cardinality(Order) THEN Cardinality(Order) + 1 ELSE gseq
  BY DEF MoveEnd
<1>3. /\ Cardinality(Order) \in 1..MaxSeq
      /\ Cardinality(heading) + 1 \in 1..Cardinality(Order)
      /\ \A t \in Order : t # s => rank(t) \in 1..(Cardinality(Order) - 1)
  BY <1>1, Renumbering
<1> HIDE DEF heading, rank
<1>4. \A t \in Order : place(t) \in 1..MaxSeq
  <2>1. to \in 1..Cardinality(Order) BY <1>3
  <2>2. to \in 1..MaxSeq BY <1>3, <2>1, QueueAssumption
  <2> HIDE DEF to
  <2>3. ASSUME NEW t \in Order, t # s
        PROVE  (IF rank(t) < to THEN rank(t) ELSE rank(t) + 1) \in 1..MaxSeq
    <3>1. rank(t) \in 1..(Cardinality(Order) - 1) BY <1>3, <2>3
    <3> QED BY <1>3, <3>1, QueueAssumption
  <2> QED BY <2>2, <2>3
<1> HIDE DEF place
<1>5. \A u \in Slots :
        /\ items'[u] \in Item /\ items'[u].file = items[u].file /\ items'[u].ext = items[u].ext
        /\ items'[u].status = items[u].status
        /\ u \in Order => items'[u].seq \in 1..MaxSeq
  BY <1>2, <1>4 DEF IInv, ItemsInv, ItemsOK, Item
<1>6. items' \in [Slots -> Item] BY <1>2, <1>5
<1>7. Listed' BY <1>5 DEF IInv, ItemsInv, Listed, Live, Order
<1>8. CrewInv' BY <1>1, <1>5, OthersKeepCrew DEF IInv
<1>9. gseq' \in 1..(MaxSeq + 1)
  BY <1>2, <1>3, QueueAssumption DEF IInv, FlagsOK
<1> QED BY <1>6, <1>7, <1>8, <1>9 DEF ItemsInv, ItemsOK

\* All calls of the UI.
LEMMA UiCallStep ==
  ASSUME IInv, UiStep
  PROVE  ItemsInv' /\ CrewInv'
<1>1. CASE \E f \in Files : Add(f) BY <1>1, AddStep
<1>2. CASE BatchBegin BY <1>2, StillStep DEF BatchBegin, Quiet
<1>3. CASE BatchEnd BY <1>3, StillStep DEF BatchEnd, Quiet
<1>4. CASE ExtAdd BY <1>4, ExtAddStep
<1>5. ASSUME NEW s \in Slots,
             \/ ExtFinish(s) \/ ExtCancel(s) \/ Cancel(s) \/ Retry(s) \/ MoveUp(s)
             \/ \E k \in {1, 2} : Requeue(s, k)
             \/ \E b \in BOOLEAN : MoveEnd(s, b)
      PROVE  ItemsInv' /\ CrewInv'
  BY <1>5, ExtFinishStep, ExtCancelStep, CancelStep, RetryStep, MoveUpStep, RequeueStep, MoveEndStep
<1>6. CASE CancelAll BY <1>6, CancelAllStep
<1>7. CASE PauseAll BY <1>7, PauseAllStep
<1>8. CASE ClearFinished BY <1>8, ClearFinishedStep
<1>9. CASE \E p \in Paths : DeletePart(p) BY <1>9, DeletePartStep
<1>10. CASE \E st \in {"FAILED", "CANCELLED", "PAUSED"} : RetryStatus(st)
  BY <1>10, RetryStatusStep
<1>11. CASE \E n \in 1..MaxDl : SetMaxDl(n) BY <1>11, SetMaxDlStep
<1> QED
  BY <1>1, <1>2, <1>3, <1>4, <1>5, <1>6, <1>7, <1>8, <1>9, <1>10, <1>11 DEF UiStep

-----------------------------------------------------------------------------
(* The end of the program and its next start. *)

\* The program ends: nothing is left of items and workers.
LEMMA GoneStep ==
  ASSUME Gone
  PROVE  ItemsInv' /\ CrewInv'
<1>1. FreeItem \in Item /\ FreeItem.status = "FREE"
  BY QueueAssumption DEF FreeItem, NewItem, Item, Status, AllFiles
<1>2. IdleWorker \in Worker /\ IdleWorker.slot = NoSlot /\ IdleWorker.pc = "idle"
  BY DEF IdleWorker, Worker, Pcs, Waiting
<1>3. /\ items' = [s \in Slots |-> FreeItem]
      /\ wk' = [w \in Workers |-> IdleWorker]
  BY DEF Gone
<1>4. ItemsInv' BY <1>1, <1>3 DEF ItemsInv, ItemsOK, Listed, Live
<1>5. CrewInv' BY <1>2, <1>3 DEF CrewInv, WorkersOK, PathKnown, OneWorkerPerItem, Holding
<1> QED BY <1>4, <1>5

\* queue_load rebuilds well-formed items from well-formed records.
LEMMA LoadStep ==
  ASSUME IInv, Load
  PROVE  ItemsInv' /\ CrewInv' /\ disk' \in SUBSET Saved
<1> DEFINE recs == IF disk = Torn THEN {} ELSE disk
<1>1. recs \in SUBSET Saved BY DEF IInv, FilesOK
<1>2. PICK home \in [recs -> Slots] :
        items' = [s \in Slots |->
          IF \E r \in recs : home[r] = s
          THEN Loaded(CHOOSE r \in recs : home[r] = s) ELSE FreeItem]
  BY DEF Load
<1>3. disk' = recs /\ wk' = wk /\ run = "down" BY DEF Load
<1> HIDE DEF recs
<1>4. \A r \in recs : /\ Loaded(r) \in Item
                      /\ Loaded(r).seq \in 1..MaxSeq /\ Loaded(r).file \in Files
  <2> TAKE r \in recs
  <2>1. r.file \in Files /\ r.seq \in 1..MaxSeq BY <1>1 DEF Saved
  <2> QED BY <2>1 DEF Loaded, NewItem, Item, Status, AllFiles
<1>5. FreeItem \in Item /\ FreeItem.status = "FREE"
  BY QueueAssumption DEF FreeItem, NewItem, Item, Status, AllFiles
<1>6. \A s \in Slots : \/ items'[s] = FreeItem
                       \/ \E r \in recs : items'[s] = Loaded(r)
  BY <1>2
<1>7. items' \in [Slots -> Item] BY <1>2, <1>4, <1>5, <1>6
<1>8. Listed' BY <1>4, <1>5, <1>6 DEF Listed, Live
<1>9. \A w \in Workers : wk[w].pc = "idle" BY <1>3 DEF IInv, Asleep, IdleWorker
<1>10. CrewInv'
  BY <1>3, <1>9 DEF IInv, CrewInv, WorkersOK, PathKnown, OneWorkerPerItem, Holding
<1> QED BY <1>1, <1>3, <1>7, <1>8, <1>10 DEF ItemsInv, ItemsOK

\* Every step keeps the items and the crew in order.
LEMMA ItemsAndCrewStep ==
  ASSUME IInv, [Next]_vars
  PROVE  ItemsInv' /\ CrewInv'
<1>1. CASE SaveDone BY <1>1, StillStep DEF SaveDone
<1>2. ASSUME NEW w \in Dl, DlStep(w) PROVE ItemsInv' /\ CrewInv' BY <1>2, DlWorkerStep
<1>3. ASSUME NEW w \in Workers, AnyStep(w) PROVE ItemsInv' /\ CrewInv' BY <1>3, AnyWorkerStep
<1>4. CASE ExStep BY <1>4, ExWorkerStep
<1>5. CASE UiStep BY <1>5, UiCallStep
<1>6. CASE Stop \/ ExitSave \/ NetFlip \/ SpaceFlip \/ UNCHANGED vars
  BY <1>6, StillStep DEF Stop, ExitSave, NetFlip, SpaceFlip, vars
<1>7. CASE Exit \/ Crash BY <1>7, GoneStep DEF Exit, Crash
<1>8. CASE Load BY <1>8, LoadStep
<1> QED BY <1>1, <1>2, <1>3, <1>4, <1>5, <1>6, <1>7, <1>8 DEF Next

-----------------------------------------------------------------------------
(* Files. *)

\* A write to one .part file.
LEMMA SetPartType ==
  ASSUME FilesOK, NEW p \in Paths, NEW c \in Content, SetPart(p, c)
  PROVE  part' \in [AllFiles -> [1..MaxSeq -> Content]]
<1>1. p[1] \in AllFiles /\ p[2] \in 1..MaxSeq BY DEF Paths
<1> QED BY <1>1 DEF FilesOK, SetPart

\* What is saved is a set of records of listed files.
LEMMA PendingType ==
  ASSUME ItemsInv
  PROVE  PendingRecords \in SUBSET Saved
<1> SUFFICES ASSUME NEW s \in Slots, InQueue(s)
             PROVE  [file |-> items[s].file, seq |-> items[s].seq,
                     down |-> items[s].status \in {"VERIFYING", "AWAIT_EXTRACT", "EXTRACTING"}]
                    \in Saved
  BY DEF PendingRecords
<1>1. Live(s) /\ ~items[s].ext
  BY DEF InQueue, Live, Pending, Waiting, Active
<1>2. items[s].file \in Files /\ items[s].seq \in 1..MaxSeq BY <1>1 DEF ItemsInv, Listed
<1> QED BY <1>2 DEF Saved

\* The workers' steps that write a .part file write a known one.
PartWrite(w) ==
  \/ w \in Dl /\ (Begin(w) \/ Receive(w) \/ Transferred(w) \/ SettleWhole(w) \/ Verified(w) \/ Move(w))
  \/ CancelRead(w) \/ Drop(w)
  \/ w = Ex /\ (Unpacked \/ KeepRaw)

\* Each of those writes keeps the content of .part files in range.
LEMMA PartWriteType ==
  ASSUME IInv, NEW w \in Workers, PartWrite(w)
  PROVE  part' = part \/ \E p \in Paths, c \in Content : SetPart(p, c)
<1> USE DEF PcIs
<1>0. {"none", "some", "good", "bad", "over"} = Content BY DEF Content
<1>1. wk[w].pc \notin {"idle", "nap", "measure", "unclaim", "begin"} => wk[w].path \in Paths
  BY DEF IInv, CrewInv, PathKnown
<1>2. CASE w \in Dl /\ Begin(w)
  <2>1. Path(wk[w].slot) \in Paths
    BY <1>2, HeldIsLive DEF Begin, Holding, IInv, ItemsInv, ItemsOK, Listed, Item, Path, Paths
  <2> QED BY <1>0, <1>2, <2>1 DEF Begin
<1>3. CASE w \in Dl /\ Receive(w) BY <1>0, <1>1, <1>3 DEF Receive
<1>4. CASE w \in Dl /\ Transferred(w)
  <2>1. wk[w].path \in Paths BY <1>1, <1>4 DEF Transferred
  <2>2. At(wk[w].path) \in Content BY <2>1 DEF IInv, FilesOK, At, Paths
  <2>3. PICK o \in Outcomes(w) : SetPart(wk[w].path, o[1]) BY <1>4 DEF Transferred
  <2>4. o[1] \in Content
    <3>1. CASE wk[w].path[1] = NoFile
      <4>1. o = <<At(wk[w].path), FALSE>> BY <3>1 DEF Outcomes
      <4> QED BY <2>2, <4>1
    <3>2. CASE wk[w].path[1] # NoFile
      <4>1. o \in Results \X BOOLEAN BY <3>2 DEF Outcomes
      <4>2. Results \subseteq Content BY <1>0, QueueAssumption
      <4> QED BY <4>1, <4>2
    <3> QED BY <3>1, <3>2
  <2> QED BY <2>1, <2>3, <2>4
<1>5. CASE w \in Dl /\ SettleWhole(w) BY <1>0, <1>1, <1>5 DEF SettleWhole
<1>6. CASE w \in Dl /\ Verified(w) BY <1>0, <1>1, <1>6 DEF Verified
<1>7. CASE w \in Dl /\ Move(w) BY <1>0, <1>1, <1>7 DEF Move, Install
<1>8. CASE CancelRead(w) BY <1>0, <1>1, <1>8 DEF CancelRead
<1>9. CASE Drop(w) BY <1>0, <1>1, <1>9 DEF Drop
<1>10. CASE w = Ex /\ Unpacked BY <1>0, <1>1, <1>10 DEF Unpacked, Install
<1>11. CASE w = Ex /\ KeepRaw BY <1>0, <1>1, <1>11 DEF KeepRaw, Install
<1> QED BY <1>2, <1>3, <1>4, <1>5, <1>6, <1>7, <1>8, <1>9, <1>10, <1>11 DEF PartWrite

\* Every step keeps the types of queue.json, the .part files and the library.
LEMMA FilesStep ==
  ASSUME IInv, [Next]_vars
  PROVE  FilesOK'
<1> USE DEF PcIs
<1>0. /\ FilesOK
      /\ \A w \in Workers : wk[w].pc \notin {"idle", "nap", "measure", "unclaim", "begin"} => wk[w].path \in Paths
      /\ {"none", "some", "good", "bad", "over"} = Content
  BY DEF IInv, CrewInv, PathKnown, Content
<1>1. (disk' = Torn \/ disk' \in SUBSET Saved) /\ kept' \in BOOLEAN
  <2> DEFINE Same == kept' = kept /\ disk' = disk
             Opened == kept' \in {kept, FALSE} /\ (disk' = disk \/ disk' = Torn)
  <2>1. CASE Same \/ Opened BY <1>0, <2>1 DEF FilesOK
  <2>2. CASE SaveDone BY <2>2, PendingType DEF IInv, SaveDone
  <2>3. CASE Load BY <2>3, LoadStep DEF Load
  <2>4. ASSUME NEW w \in Dl, DlStep(w) PROVE Same
    BY <2>4 DEF DlStep, Pick, Rest, Wake, MeasureShort, Unclaim, MeasureFits, Begin, Receive, Transferred,
         SettleStop, SettleCancel, SettleShort, SettleWhole, Park, VerifyStopped, Verified, Await, Move
  <2>5. ASSUME NEW w \in Workers, AnyStep(w) PROVE Same \/ Opened
    BY <2>5 DEF AnyStep, Fail, MoveFailed, CancelRead, Drop, GiveBack, Log, Done, SaveLocked, SaveOpen
  <2>6. CASE ExStep
    BY <2>1, <2>6 DEF ExStep, ExPick, UnpackStop, UnpackCancel, Unpacked, UnpackFailed, KeepRaw
  <2>7. ASSUME UiStep PROVE Same \/ Opened
    <3>1. SaveOpen => Opened BY DEF SaveOpen
    <3>2. SaveLocked => Opened BY <3>1 DEF SaveLocked
    <3>3. ASSUME NEW b, SaveIf(b) PROVE Opened BY <3>2, <3>3 DEF SaveIf
    <3>4. \/ SaveLocked \/ SaveOpen \/ \E b : SaveIf(b)
          \/ UNCHANGED <<disk, kept>>
      BY <2>7, Zenon DEF UiStep, Add, BatchBegin, BatchEnd, ExtAdd, ExtFinish, ExtCancel, Cancel, Retry,
         MoveUp, Requeue, MoveEnd, CancelAll, PauseAll, ClearFinished, DeletePart, RetryStatus,
         SetMaxDl, ctl
    <3> QED BY <3>1, <3>2, <3>3, <3>4
  <2>8. CASE Stop \/ ExitSave \/ Exit \/ Crash \/ NetFlip \/ SpaceFlip \/ UNCHANGED vars
    BY <2>1, <2>8 DEF Stop, ExitSave, Exit, Crash, NetFlip, SpaceFlip, vars, SaveLocked, SaveOpen
  <2> QED BY <2>1, <2>2, <2>3, <2>4, <2>5, <2>6, <2>7, <2>8 DEF Next
<1>2. part' \in [AllFiles -> [1..MaxSeq -> Content]]
  <2>1. CASE part' = part BY <1>0, <2>1 DEF FilesOK
  <2>2. CASE \E p \in Paths, c \in Content : SetPart(p, c) BY <1>0, <2>2, SetPartType
  <2>3. CASE \E w \in Workers : PartWrite(w) BY <2>1, <2>2, <2>3, PartWriteType
  <2>4. CASE \E p \in Paths : DeletePart(p) BY <1>0, <2>1, <2>2, <2>4 DEF DeletePart
  <2>5. ASSUME NEW w \in Dl, DlStep(w) PROVE part' = part \/ PartWrite(w)
    BY <2>5 DEF DlStep, Pick, Rest, Wake, MeasureShort, Unclaim, MeasureFits, PartWrite, fs,
         SettleStop, SettleCancel, SettleShort, Park, VerifyStopped, Await
  <2>6. ASSUME NEW w \in Workers, AnyStep(w) PROVE part' = part \/ PartWrite(w)
    BY <2>6 DEF AnyStep, Fail, MoveFailed, GiveBack, Log, Done, PartWrite, fs
  <2>7. ASSUME ExStep PROVE part' = part \/ PartWrite(Ex)
    BY <2>7 DEF ExStep, ExPick, UnpackStop, UnpackCancel, UnpackFailed, PartWrite, fs
  <2>8. ASSUME UiStep PROVE part' = part \/ \E p \in Paths : DeletePart(p)
    BY <2>8 DEF UiStep, Add, BatchBegin, BatchEnd, ExtAdd, ExtFinish, ExtCancel, Cancel, Retry,
         MoveUp, Requeue, MoveEnd, CancelAll, PauseAll, ClearFinished, RetryStatus,
         SetMaxDl, Quiet, fs
  <2>9. ASSUME SaveDone \/ Stop \/ ExitSave \/ Exit \/ Crash \/ Load \/ NetFlip \/ SpaceFlip
               \/ UNCHANGED vars
        PROVE part' = part
    BY <2>9 DEF SaveDone, Stop, ExitSave, Exit, Crash, Load, NetFlip, SpaceFlip, vars, fs
  <2> QED BY <2>1, <2>3, <2>4, <2>5, <2>6, <2>7, <2>8, <2>9 DEF Next, Workers
<1>3. lib' \in [Files -> Content]
  <2>1. CASE lib' = lib BY <1>0, <2>1 DEF FilesOK
  <2>2. ASSUME NEW w \in Workers, NEW st, Install(w, st), wk[w].path \in Paths
        PROVE  lib' \in [Files -> Content]
    <3>1. At(wk[w].path) \in Content BY <1>0, <2>2 DEF FilesOK, At, Paths
    <3> QED BY <1>0, <2>2, <3>1 DEF FilesOK, Install
  <2>3. ASSUME NEW w \in Dl, DlStep(w) PROVE lib' = lib \/ Move(w)
    BY <2>3 DEF DlStep, Pick, Rest, Wake, MeasureShort, Unclaim, MeasureFits, Begin, Receive, Transferred,
         SettleStop, SettleCancel, SettleShort, SettleWhole, Park, VerifyStopped, Verified, Await, fs
  <2>4. ASSUME NEW w \in Dl, Move(w) PROVE lib' \in [Files -> Content]
    BY <1>0, <2>2, <2>4 DEF Move, Workers
  <2>5. ASSUME NEW w \in Workers, AnyStep(w) PROVE lib' = lib
    BY <2>5 DEF AnyStep, Fail, MoveFailed, CancelRead, Drop, GiveBack, Log, Done, fs
  <2>6. CASE ExStep
    <3>1. CASE ExPick \/ UnpackStop \/ UnpackCancel \/ UnpackFailed
      BY <2>1, <3>1 DEF ExPick, UnpackStop, UnpackCancel, UnpackFailed, fs
    <3>2. CASE Unpacked BY <1>0, <2>2, <3>2 DEF Unpacked, Workers
    <3>3. CASE KeepRaw BY <1>0, <2>2, <3>3 DEF KeepRaw, Workers
    <3> QED BY <2>6, <3>1, <3>2, <3>3 DEF ExStep
  <2>7. ASSUME UiStep PROVE lib' = lib
    BY <2>7 DEF UiStep, Add, BatchBegin, BatchEnd, ExtAdd, ExtFinish, ExtCancel, Cancel, Retry,
         MoveUp, Requeue, MoveEnd, CancelAll, PauseAll, ClearFinished, DeletePart, RetryStatus,
         SetMaxDl, Quiet, fs
  <2>8. ASSUME SaveDone \/ Stop \/ ExitSave \/ Exit \/ Crash \/ Load \/ NetFlip \/ SpaceFlip
               \/ UNCHANGED vars
        PROVE lib' = lib
    BY <2>8 DEF SaveDone, Stop, ExitSave, Exit, Crash, Load, NetFlip, SpaceFlip, vars, fs
  <2> QED BY <2>1, <2>3, <2>4, <2>5, <2>6, <2>7, <2>8 DEF Next
<1> QED BY <1>1, <1>2, <1>3 DEF FilesOK

-----------------------------------------------------------------------------
(* Flags and counters. *)

\* Every step keeps the types of the flags and counters.
LEMMA FlagsStep ==
  ASSUME IInv, [Next]_vars
  PROVE  FlagsOK'
<1>0. FlagsOK BY DEF IInv
<1>1. CASE UNCHANGED <<gseq, maxdl, latch, batch, run, net, space>> /\ hold' \in BOOLEAN
           /\ dirty' \in BOOLEAN
  BY <1>0, <1>1 DEF FlagsOK
<1>2. ASSUME NEW w \in Dl, DlStep(w) PROVE FlagsOK'
  BY <1>0, <1>1, <1>2 DEF FlagsOK, DlStep, Pick, Rest, Wake, MeasureShort, Unclaim, MeasureFits, Begin,
       Receive, Transferred, SettleStop, SettleCancel, SettleShort, SettleWhole, Park,
       VerifyStopped, Verified, Await, Move, ctl, env
<1>3. ASSUME NEW w \in Workers, AnyStep(w) PROVE FlagsOK'
  BY <1>0, <1>1, <1>3 DEF FlagsOK, AnyStep, Fail, MoveFailed, CancelRead, Drop, GiveBack, Log,
       Done, SaveLocked, SaveOpen, ctl, env
<1>4. CASE ExStep \/ SaveDone
  BY <1>0, <1>1, <1>4 DEF FlagsOK, ExStep, ExPick, UnpackStop, UnpackCancel, Unpacked,
       UnpackFailed, KeepRaw, SaveDone, ctl, env
<1>5. CASE UiStep
  <2>1. UNCHANGED <<run, net, space>>
    BY <1>5 DEF UiStep, Add, BatchBegin, BatchEnd, ExtAdd, ExtFinish, ExtCancel, Cancel, Retry,
         MoveUp, Requeue, MoveEnd, CancelAll, PauseAll, ClearFinished, DeletePart, RetryStatus,
         SetMaxDl, Quiet, env
  <2>2. gseq' \in 1..(MaxSeq + 1)
    <3>1. CASE gseq' = gseq BY <1>0, <3>1 DEF FlagsOK
    <3>2. CASE gseq' = gseq + 1 /\ gseq <= MaxSeq
      BY <1>0, <3>2, QueueAssumption DEF FlagsOK
    <3>3. ASSUME NEW s \in Slots, NEW b \in BOOLEAN, MoveEnd(s, b) PROVE gseq' \in 1..(MaxSeq + 1)
      BY <3>3, MoveEndStep
    <3> QED
      BY <1>5, <3>1, <3>2, <3>3 DEF UiStep, Add, BatchBegin, BatchEnd, ExtAdd, ExtFinish,
           ExtCancel, Cancel, Retry, MoveUp, Requeue, CancelAll, PauseAll, ClearFinished,
           DeletePart, RetryStatus, SetMaxDl, ctl
  <2>3. maxdl' \in 1..MaxDl /\ latch' \in BOOLEAN
    BY <1>0, <1>5 DEF FlagsOK, UiStep, Add, BatchBegin, BatchEnd, ExtAdd, ExtFinish, ExtCancel,
         Cancel, Retry, MoveUp, Requeue, MoveEnd, CancelAll, PauseAll, ClearFinished, DeletePart,
         RetryStatus, SetMaxDl, ctl
  <2>4. hold' \in BOOLEAN /\ batch' \in BOOLEAN /\ dirty' \in BOOLEAN
    BY ZenonT(30), <1>0, <1>5 DEF FlagsOK, UiStep, Add, BatchBegin, BatchEnd, ExtAdd, ExtFinish, ExtCancel,
         Cancel, Retry, MoveUp, Requeue, MoveEnd, CancelAll, PauseAll, ClearFinished, DeletePart,
         RetryStatus, SetMaxDl, SaveIf, SaveLocked, SaveOpen, ctl
  <2>5. net' \in BOOLEAN /\ space' \in BOOLEAN /\ run' \in {"up", "stopping", "final", "down"}
    BY <1>0, <2>1 DEF FlagsOK
  <2> QED BY <2>2, <2>3, <2>4, <2>5 DEF FlagsOK
<1>6. CASE Stop \/ ExitSave \/ NetFlip \/ SpaceFlip \/ UNCHANGED vars
  BY <1>0, <1>6 DEF FlagsOK, Stop, ExitSave, NetFlip, SpaceFlip, SaveLocked, SaveOpen, vars, ctl
<1>7. CASE Exit \/ Crash
  <2>1. 1 \in 1..(MaxSeq + 1) BY QueueAssumption
  <2> QED BY <1>0, <1>7, <2>1 DEF FlagsOK, Exit, Crash, Gone
<1>8. CASE Load
  BY <1>0, <1>8, QueueAssumption DEF FlagsOK, Load
<1> QED BY <1>2, <1>3, <1>4, <1>5, <1>6, <1>7, <1>8 DEF Next

\* Between two runs of the program no worker is at anything.
LEMMA AsleepStep ==
  ASSUME IInv, [Next]_vars
  PROVE  Asleep'
<1>1. CASE wk' = wk /\ run' = run BY <1>1 DEF IInv, Asleep
<1>2. CASE Exit \/ Crash BY <1>2 DEF Exit, Crash, Gone, Asleep
<1>3. CASE Stop \/ ExitSave \/ Load BY <1>3 DEF Stop, ExitSave, Load, Asleep
<1>4. CASE SaveDone \/ NetFlip \/ SpaceFlip \/ UNCHANGED vars
  BY <1>1, <1>4 DEF SaveDone, NetFlip, SpaceFlip, vars, env
<1>5. ASSUME UiStep PROVE wk' = wk /\ run' = run
  BY <1>5 DEF UiStep, Add, BatchBegin, BatchEnd, ExtAdd, ExtFinish, ExtCancel, Cancel, Retry,
       MoveUp, Requeue, MoveEnd, CancelAll, PauseAll, ClearFinished, DeletePart, RetryStatus,
       SetMaxDl, Quiet, env
<1>6. ASSUME NEW w \in Workers, run # "down" \/ wk[w].pc # "idle", run' = run PROVE Asleep'
  BY <1>6 DEF IInv, Asleep, IdleWorker
<1> USE DEF PcIs, Running
<1>7. ASSUME NEW w \in Dl, DlStep(w) PROVE (run # "down" \/ wk[w].pc # "idle") /\ run' = run
  BY <1>7 DEF DlStep, Pick, Rest, Wake, MeasureShort, Unclaim, MeasureFits, Begin, Receive, Transferred,
       SettleStop, SettleCancel, SettleShort, SettleWhole, Park, VerifyStopped, Verified, Await,
       Move, env
<1>8. ASSUME NEW w \in Workers, AnyStep(w)
      PROVE  (run # "down" \/ wk[w].pc # "idle") /\ run' = run
  BY <1>8 DEF AnyStep, Fail, MoveFailed, CancelRead, Drop, GiveBack, Log, Done, env
<1>9. ASSUME ExStep PROVE (run # "down" \/ wk[Ex].pc # "idle") /\ run' = run
  BY <1>9 DEF ExStep, ExPick, UnpackStop, UnpackCancel, Unpacked, UnpackFailed, KeepRaw, env
<1> QED
  BY <1>1, <1>2, <1>3, <1>4, <1>5, <1>6, <1>7, <1>8, <1>9 DEF Next, Workers

-----------------------------------------------------------------------------
(* The theorems. *)

\* The inductive invariant holds at the start,
LEMMA InitHolds == Init => IInv
<1> SUFFICES ASSUME Init PROVE IInv OBVIOUS
<1>1. FreeItem \in Item /\ FreeItem.status = "FREE"
  BY QueueAssumption DEF FreeItem, NewItem, Item, Status, AllFiles
<1>2. IdleWorker \in Worker /\ IdleWorker.slot = NoSlot /\ IdleWorker.pc = "idle"
  BY DEF IdleWorker, Worker, Pcs, Waiting
<1>3. ItemsInv BY <1>1 DEF Init, ItemsInv, ItemsOK, Listed, Live
<1>4. CrewInv BY <1>2 DEF Init, CrewInv, WorkersOK, PathKnown, OneWorkerPerItem, Holding
<1>5. FilesOK BY DEF Init, FilesOK, Content
<1>6. FlagsOK
  <2>1. 1 \in 1..(MaxSeq + 1) BY QueueAssumption
  <2>2. net \in BOOLEAN /\ space \in BOOLEAN BY DEF Init
  <2> QED BY <2>1, <2>2 DEF Init, FlagsOK
<1>7. Asleep BY DEF Init, Asleep
<1> QED BY <1>3, <1>4, <1>5, <1>6, <1>7 DEF IInv

\* and every step preserves it.
LEMMA NextKeeps == IInv /\ [Next]_vars => IInv'
BY ItemsAndCrewStep, FilesStep, FlagsStep, AsleepStep DEF IInv

\* The inductive invariant holds in every reachable state.
THEOREM Invariance == Spec => []IInv
BY InitHolds, NextKeeps, PTL DEF Spec

\* Whatever the UI, the workers and the card do, every variable keeps its type:
\* the numbers queue_move_end deals out stay in range, a worker without an item
\* is one that is idle.
THEOREM TypeCorrect == Spec => []TypeOK
<1>1. IInv => TypeOK BY DEF IInv, ItemsInv, CrewInv, TypeOK
<1> QED BY <1>1, Invariance, PTL

\* No two workers ever drive one item, and no call takes an item away from the
\* worker that drives it.
THEOREM OwnersCorrect == Spec => []OneWorkerPerItem
<1>1. IInv => OneWorkerPerItem BY DEF IInv, CrewInv
<1> QED BY <1>1, Invariance, PTL

-----------------------------------------------------------------------------
(* The shapes of a step, and what the queue promises about every item. *)

Stays(s)      == items'[s].status = items[s].status
OthersStay(s) == \A t \in Slots \ {s} : Stays(t)
SameName(s) ==
  items'[s].file = items[s].file /\ items'[s].seq = items[s].seq /\ items'[s].ext = items[s].ext

Published == {"log", "done"}
Held(s) == \E w \in Workers : Holding(w) /\ wk[w].slot = s

\* The shapes of a worker's step.
Takes(w) ==
  LET s == wk'[w].slot IN
  /\ wk[w].pc = "idle" /\ s \in Slots /\ OthersStay(s)
  /\ \/ /\ w = Ex /\ wk'[w].pc = "unpack"
        /\ items[s].status = "AWAIT_EXTRACT" /\ items'[s].status = "EXTRACTING"
     \/ /\ w # Ex /\ wk'[w].pc = "measure"
        /\ items[s].status \in Waiting /\ items'[s].status = "DOWNLOADING"
Keeps(w) ==
  LET s == wk[w].slot IN
  /\ Holding(w) /\ Holding(w)' /\ wk'[w].slot = s /\ OthersStay(s)
  /\ items'[s].status \in Own(w)
  /\ wk'[w].pc \in {"measure", "unclaim"} => Stays(s) /\ wk[w].pc \in {"measure", "unclaim"}
LetsGo(w) ==
  LET s == wk[w].slot IN
  /\ Holding(w) /\ OthersStay(s)
  /\ \/ wk'[w].pc \in Published
     \/ wk'[w].pc = "idle" /\ items'[s].status \in Waiting
  /\ \/ items'[s].status \in Waiting \cup Terminal
     \/ items'[s].status = "AWAIT_EXTRACT" /\ w # Ex
     \/ Stays(s) /\ ~Running
Rests(w) == ~Holding(w) /\ ~Holding(w)' /\ \A s \in Slots : Stays(s)

Turn(w) ==
  /\ run' = run /\ batch' = batch
  /\ \A s \in Slots : SameName(s)
  /\ \A v \in Workers \ {w} : wk'[v] = wk[v]
  /\ Takes(w) \/ Keeps(w) \/ LetsGo(w) \/ Rests(w)

\* What a worker's step does to queue.json.
Filed == disk' = Torn \/ (batch' /\ dirty') \/ ~kept'
Files_(w) ==
  \/ Filed
  \/ UNCHANGED <<disk, kept, dirty>> /\ (wk[w].pc \in Published => wk'[w].pc \in Published)

\* What a call of the UI may make of an item.
Fate(s) ==
  \/ Stays(s) /\ items'[s].ext = items[s].ext
  \/ /\ items[s].status \in Waiting /\ items'[s].status \in Waiting \cup {"CANCELLED"}
     /\ items'[s].ext = items[s].ext
  \/ /\ items[s].status \in Terminal /\ items'[s].status \in {"QUEUED", "FREE"}
     /\ items'[s].ext = items[s].ext
  \/ /\ items[s].status = "FREE"
     /\ items'[s].status = "QUEUED" \/ (items'[s].status = "DOWNLOADING" /\ items'[s].ext)
  \/ /\ items[s].status = "DOWNLOADING" /\ items[s].ext /\ ~Held(s)
     /\ items'[s].status \in Terminal /\ items'[s].ext
Call == run # "down" /\ wk' = wk /\ run' = run /\ \A s \in Slots : Fate(s)

\* It saves, or nothing enters or leaves the queue.
Entry(s) ==
  /\ InQueue(s)' <=> InQueue(s)
  /\ InQueue(s) => items'[s].file = items[s].file /\ items'[s].seq = items[s].seq
Reported ==
  \/ Filed
  \/ /\ disk' = disk /\ kept' = kept /\ (batch /\ dirty => batch' /\ dirty')
     /\ \A s \in Slots : Entry(s)

-----------------------------------------------------------------------------
(* The invariants. *)

\* Only a worker that has its own item's room to measure gives it back unstarted.
Early == \A w \in Dl : wk[w].pc \in {"measure", "unclaim"} => Mine(w).status = "DOWNLOADING"

\* Between two runs of the program the list is empty.
Empty == run = "down" => \A s \in Slots : items[s].status = "FREE"

OnDisk(s)  == \E r \in disk : r.file = items[s].file /\ r.seq = items[s].seq
Listed_(r) == \/ \E s \in Slots : InQueue(s) /\ items[s].file = r.file /\ items[s].seq = r.seq
              \/ \E w \in Workers : wk[w].pc \in Published
Agrees ==
  run # "down" /\ disk # Torn /\ kept /\ ~(batch /\ dirty) =>
    /\ \A s \in Slots : InQueue(s) => OnDisk(s)
    /\ \A r \in disk : Listed_(r)

Promises == Early /\ Empty /\ NobodyStranded /\ Agrees

-----------------------------------------------------------------------------
(* Every worker's step is a turn. *)

LEMMA Types ==
  ASSUME IInv
  PROVE  /\ items \in [Slots -> Item] /\ wk \in [Workers -> Worker]
         /\ batch \in BOOLEAN /\ dirty \in BOOLEAN
         /\ \A w \in Workers : Holding(w) =>
              wk[w].slot \in Slots /\ items[wk[w].slot].status \in Own(w)
         /\ \A v, w \in Workers : Holding(v) /\ Holding(w) /\ wk[v].slot = wk[w].slot => v = w
         /\ Dl \subseteq Workers /\ Ex \in Workers /\ Ex \notin Dl
BY QueueAssumption
   DEF IInv, ItemsInv, ItemsOK, CrewInv, WorkersOK, OneWorkerPerItem, FlagsOK, Own, Mine, Workers

LEMMA SaveIsFiled ==
  ASSUME IInv, SaveLocked, batch' = batch
  PROVE  Filed
BY DEF IInv, FlagsOK, SaveLocked, SaveOpen, Filed

\* A step of the worker's own, its item untouched.
LEMMA GotoTurn ==
  ASSUME IInv, NEW w \in Workers, Holding(w), NEW c \in Pcs \ {"idle", "nap"}, Goto(w, c),
         c \in {"measure", "unclaim"} => wk[w].pc \in {"measure", "unclaim"},
         c \in Published => ~Running,
         items' = items, run' = run, batch' = batch, UNCHANGED <<disk, kept, dirty>>
  PROVE  Turn(w) /\ Files_(w)
<1>1. /\ wk'[w].pc = c /\ wk'[w].slot = wk[w].slot
      /\ \A v \in Workers \ {w} : wk'[v] = wk[v]
  BY Types DEF Goto, Worker
<1>2. wk[w].slot \in Slots /\ items[wk[w].slot].status \in Own(w) /\ wk[w].pc \notin Published
  BY Types DEF Holding, Published
<1>3. CASE c \in Published
  BY <1>1, <1>2, <1>3 DEF Turn, LetsGo, OthersStay, Stays, SameName, Files_
<1>4. CASE c \notin Published
  BY <1>1, <1>2, <1>4 DEF Turn, Keeps, OthersStay, Stays, SameName, Files_, Holding, Published
<1> QED BY <1>3, <1>4

\* A step of the worker's own that edits its item.
LEMMA EditTurn ==
  ASSUME IInv, NEW w \in Workers, Holding(w), NEW c \in Pcs \ {"idle", "nap", "measure", "unclaim"},
         Goto(w, c), NEW b, Edited(items[wk[w].slot], b), items' = [items EXCEPT ![wk[w].slot] = b],
         IF c \in Published THEN b.status \in (Waiting \cup Terminal) \/ (b.status = "AWAIT_EXTRACT" /\ w # Ex)
                            ELSE b.status \in Own(w),
         run' = run, batch' = batch, Filed \/ UNCHANGED <<disk, kept, dirty>>
  PROVE  Turn(w) /\ Files_(w)
<1>1. /\ wk'[w].pc = c /\ wk'[w].slot = wk[w].slot
      /\ \A v \in Workers \ {w} : wk'[v] = wk[v]
  BY Types DEF Goto, Worker
<1>2. wk[w].slot \in Slots /\ wk[w].pc \notin Published
  BY Types DEF Holding, Published
<1>3. /\ items'[wk[w].slot] = b /\ \A t \in Slots \ {wk[w].slot} : items'[t] = items[t]
      /\ \A t \in Slots : SameName(t)
  BY <1>2, Types DEF Edited, SameName
<1>4. CASE c \in Published
  BY <1>1, <1>2, <1>3, <1>4 DEF Turn, LetsGo, OthersStay, Stays, Files_
<1>5. CASE c \notin Published
  BY <1>1, <1>2, <1>3, <1>5 DEF Turn, Keeps, OthersStay, Stays, Files_, Holding, Published
<1> QED BY <1>4, <1>5

LEMMA RestTurn ==
  ASSUME IInv, NEW w \in Workers, ~Holding(w), ~Holding(w)', run' = run, batch' = batch,
         \A v \in Workers \ {w} : wk'[v] = wk[v],
         \A s \in Slots : SameName(s) /\ Stays(s),
         Filed \/ (UNCHANGED <<disk, kept, dirty>> /\ (wk[w].pc \in Published => wk'[w].pc \in Published))
  PROVE  Turn(w) /\ Files_(w)
BY DEF Turn, Rests, Files_

\* Forgetting which items lacked room.
LEMMA NoSpaceStays ==
  ASSUME IInv, ForgetNoSpace
  PROVE  \A s \in Slots : SameName(s) /\ Stays(s)
BY Types DEF ForgetNoSpace, Item, SameName, Stays

LEMMA PickTurn ==
  ASSUME IInv, NEW w \in Dl, Pick(w)
  PROVE  Turn(w) /\ Files_(w)
<1> PICK s \in Oldest(Runnable) :
      /\ items' = [items EXCEPT ![s].status = "DOWNLOADING", ![s].pause = FALSE]
      /\ wk' = [wk EXCEPT ![w] = [IdleWorker EXCEPT !.pc = "measure", !.slot = s,
                                                    !.prev = items[s].status]]
  BY DEF Pick
<1>1. /\ s \in Slots /\ items[s].status \in Waiting /\ wk[w].pc = "idle"
      /\ w \in Workers /\ w # Ex
  BY Types DEF Oldest, Runnable, Pick, PcIs
<1>2. /\ wk'[w].pc = "measure" /\ wk'[w].slot = s
      /\ \A v \in Workers \ {w} : wk'[v] = wk[v]
  BY <1>1, Types DEF IdleWorker
<1>3. /\ items'[s].status = "DOWNLOADING" /\ \A t \in Slots \ {s} : items'[t] = items[t]
      /\ \A t \in Slots : SameName(t)
  BY <1>1, Types DEF Item, SameName
<1>4. run' = run /\ batch' = batch /\ UNCHANGED <<disk, kept, dirty>>
  BY DEF Pick, env, ctl
<1>5. Takes(w)
  BY <1>1, <1>2, <1>3 DEF Takes, OthersStay, Stays
<1> QED BY <1>1, <1>2, <1>3, <1>4, <1>5 DEF Turn, Files_, Published

LEMMA ExPickTurn ==
  ASSUME IInv, ExPick
  PROVE  Turn(Ex) /\ Files_(Ex)
<1> PICK s \in Oldest(Extractable) :
      /\ Set(s, "EXTRACTING")
      /\ wk' = [wk EXCEPT ![Ex] = [IdleWorker EXCEPT !.pc = "unpack", !.slot = s,
                                                     !.path = Path(s)]]
  BY DEF ExPick
<1>1. /\ s \in Slots /\ items[s].status = "AWAIT_EXTRACT" /\ wk[Ex].pc = "idle" /\ Ex \in Workers
  BY Types DEF Oldest, Extractable, ExPick, PcIs
<1>2. /\ wk'[Ex].pc = "unpack" /\ wk'[Ex].slot = s
      /\ \A v \in Workers \ {Ex} : wk'[v] = wk[v]
  BY <1>1, Types DEF IdleWorker
<1>3. /\ items'[s].status = "EXTRACTING" /\ \A t \in Slots \ {s} : items'[t] = items[t]
      /\ \A t \in Slots : SameName(t)
  BY <1>1, Types DEF Set, Item, SameName
<1>4. run' = run /\ batch' = batch /\ UNCHANGED <<disk, kept, dirty>>
  BY DEF ExPick, env, ctl
<1> QED BY <1>1, <1>2, <1>3, <1>4 DEF Turn, Takes, OthersStay, Stays, Files_, Published

LEMMA RestingTurn ==
  ASSUME IInv, NEW w \in Dl, Rest(w) \/ Wake(w)
  PROVE  Turn(w) /\ Files_(w)
<1>1. w \in Workers /\ wk[w].pc \in {"idle", "nap"}
  BY Types DEF Rest, Wake, PcIs
<1>2. wk'[w].pc \in {"idle", "nap"} /\ \A v \in Workers \ {w} : wk'[v] = wk[v]
  BY <1>1, Types DEF Rest, Wake, Goto, Worker
<1>3. \A s \in Slots : SameName(s) /\ Stays(s)
  BY NoSpaceStays DEF Rest, Wake, SameName, Stays
<1>4. run' = run /\ batch' = batch /\ UNCHANGED <<disk, kept, dirty>>
  BY DEF Rest, Wake, env, ctl
<1> QED BY <1>1, <1>2, <1>3, <1>4, RestTurn DEF Holding, Published

LEMMA LogTurn ==
  ASSUME IInv, NEW w \in Workers, Log(w)
  PROVE  Turn(w) /\ Files_(w)
<1>1. /\ wk[w].pc = "log" /\ wk'[w].pc = "done" /\ \A v \in Workers \ {w} : wk'[v] = wk[v]
      /\ items' = items /\ run' = run /\ batch' = batch /\ UNCHANGED <<disk, kept, dirty>>
  BY Types DEF Log, PcIs, Goto, Worker, env, ctl
<1>2. \A s \in Slots : SameName(s) /\ Stays(s)
  BY <1>1 DEF SameName, Stays
<1> QED BY <1>1, <1>2, RestTurn DEF Holding, Published

LEMMA DoneTurn ==
  ASSUME IInv, NEW w \in Workers, Done(w)
  PROVE  Turn(w) /\ Files_(w)
<1>1. /\ wk[w].pc = "done" /\ wk'[w].pc = "idle" /\ \A v \in Workers \ {w} : wk'[v] = wk[v]
      /\ run' = run /\ batch' = batch /\ SaveLocked
  BY Types DEF Done, PcIs, IdleWorker, env
<1>2. \A s \in Slots : SameName(s) /\ Stays(s)
  BY NoSpaceStays DEF Done, SameName, Stays
<1>3. Filed
  BY <1>1, SaveIsFiled
<1> QED BY <1>1, <1>2, <1>3, RestTurn DEF Holding, Published

LEMMA UnclaimTurn ==
  ASSUME IInv, Early, NEW w \in Dl, Unclaim(w)
  PROVE  Turn(w) /\ Files_(w)
<1> DEFINE s == wk[w].slot
<1>1. /\ w \in Workers /\ wk[w].pc = "unclaim" /\ Holding(w) /\ s \in Slots
      /\ items[s].status = "DOWNLOADING" /\ wk[w].prev \in Waiting
  BY Types DEF Unclaim, PcIs, Holding, Early, Mine, Worker
<1>2. /\ wk'[w].pc = "idle" /\ \A v \in Workers \ {w} : wk'[v] = wk[v]
      /\ run' = run /\ batch' = batch /\ UNCHANGED <<disk, kept, dirty>>
  BY <1>1, Types DEF Unclaim, IdleWorker, env
<1>3. items' = [items EXCEPT ![s].nospace = TRUE,
                             ![s].status = IF @ = "DOWNLOADING" THEN wk[w].prev ELSE @]
  BY DEF Unclaim
<1> HIDE DEF s
<1>4. /\ items'[s].status = wk[w].prev /\ \A t \in Slots \ {s} : items'[t] = items[t]
      /\ \A t \in Slots : SameName(t)
  BY <1>1, <1>3, Types DEF Item, SameName
<1> QED BY <1>1, <1>2, <1>4 DEF Turn, LetsGo, OthersStay, Stays, Files_, Published, s

LEMMA MeasureTurn ==
  ASSUME IInv, NEW w \in Dl, MeasureShort(w) \/ MeasureFits(w)
  PROVE  Turn(w) /\ Files_(w)
<1>1. PICK c \in {"unclaim", "begin"} : Goto(w, c)
  BY DEF MeasureShort, MeasureFits
<1>2. w \in Workers /\ wk[w].pc = "measure" /\ Holding(w) /\ c \in Pcs \ {"idle", "nap"}
  BY Types DEF MeasureShort, MeasureFits, PcIs, Holding, Pcs
<1>3. items' = items /\ run' = run /\ batch' = batch /\ UNCHANGED <<disk, kept, dirty>>
  BY DEF MeasureShort, MeasureFits, env, ctl
<1> QED BY <1>1, <1>2, <1>3, GotoTurn DEF Published

\* Two steps that set a local of the worker's too.
LEMMA LocalTurn ==
  ASSUME IInv, NEW w \in Dl, Begin(w) \/ Transferred(w) \/ Receive(w)
  PROVE  Turn(w) /\ Files_(w)
<1>1. /\ w \in Workers /\ wk[w].pc \in {"begin", "xfer"} /\ Holding(w)
      /\ items' = items /\ run' = run /\ batch' = batch /\ UNCHANGED <<disk, kept, dirty>>
  BY Types DEF Begin, Transferred, Receive, PcIs, Holding, env, ctl
<1>2. /\ wk'[w].pc \in {"xfer", "fail", "settle"} /\ wk'[w].slot = wk[w].slot
      /\ \A v \in Workers \ {w} : wk'[v] = wk[v]
  <2>1. CASE Receive(w)
    BY <1>1, <2>1, Types DEF Receive, PcIs
  <2>2. CASE Begin(w)
    <3> PICK pc \in {"xfer", "fail"} : wk' = [wk EXCEPT ![w].path = Path(wk[w].slot), ![w].pc = pc]
      BY <2>2 DEF Begin
    <3> QED BY <1>1, Types DEF Worker
  <2>3. CASE Transferred(w)
    <3> PICK o \in Outcomes(w) : wk' = [wk EXCEPT ![w].ok = o[2], ![w].pc = "settle"]
      BY <2>3 DEF Transferred
    <3> QED BY <1>1, Types DEF Worker
  <2> QED BY <2>1, <2>2, <2>3
<1>3. wk[w].slot \in Slots /\ items[wk[w].slot].status \in Own(w)
  BY <1>1, Types
<1> QED BY <1>1, <1>2, <1>3 DEF Turn, Keeps, OthersStay, Stays, SameName, Files_, Holding, Published

\* An item given its outcome.
LEMMA PublishTurn ==
  ASSUME IInv, NEW w \in Workers, Holding(w), NEW c \in Published, Goto(w, c),
         NEW st \in Status, st \in Waiting \cup Terminal \/ (st = "AWAIT_EXTRACT" /\ w # Ex),
         Set(wk[w].slot, st), run' = run, batch' = batch, UNCHANGED <<disk, kept, dirty>>
  PROVE  Turn(w) /\ Files_(w)
<1> DEFINE b == [items[wk[w].slot] EXCEPT !.status = st]
<1>1. wk[w].slot \in Slots /\ items[wk[w].slot].status # "FREE"
  BY Types DEF Own
<1>2. Edited(items[wk[w].slot], b) /\ b.status = st
  BY <1>1, Types DEF Edited, Item
<1>3. items' = [items EXCEPT ![wk[w].slot] = b]
  BY DEF Set
<1>4. c \in Pcs \ {"idle", "nap", "measure", "unclaim"}
  BY DEF Published, Pcs
<1> HIDE DEF b
<1> QED BY <1>2, <1>3, <1>4, EditTurn

LEMMA GiveBackTurn ==
  ASSUME IInv, NEW w \in Workers, GiveBack(w)
  PROVE  Turn(w) /\ Files_(w)
<1> DEFINE it == items[wk[w].slot]
           b  == [Restart(it) EXCEPT !.requeue = 0]
<1>1. /\ Holding(w) /\ Goto(w, "done") /\ "done" \in Pcs /\ "done" \in Published
      /\ run' = run /\ batch' = batch
  BY DEF GiveBack, PcIs, Holding, Pcs, Published, env
<1>2. wk[w].slot \in Slots /\ it \in Item /\ it.status # "FREE"
  BY <1>1, Types DEF Own
<1>3. Edited(it, b)
  BY <1>2, RestartIsEdit
<1>4. b.status = "QUEUED"
  <2>1. Restart(it) \in Item /\ Restart(it).status = "QUEUED"
    BY <1>2, RestartIsEdit DEF Restart, Edited, Item
  <2> QED BY <2>1 DEF Item
<1>5. items' = [items EXCEPT ![wk[w].slot] = b] /\ Filed
  BY <1>1, SaveIsFiled DEF GiveBack
<1> HIDE DEF b, it
<1> QED BY <1>1, <1>3, <1>4, <1>5, EditTurn DEF it, Waiting

LEMMA SettleTurn ==
  ASSUME IInv, NEW w \in Dl, SettleShort(w) \/ SettleWhole(w)
  PROVE  Turn(w) /\ Files_(w)
<1> DEFINE it  == items[wk[w].slot]
           un  == [it EXCEPT !.pause = FALSE]
           ver == [it EXCEPT !.pause = FALSE, !.status = "VERIFYING"]
<1>1. /\ w \in Workers /\ w # Ex /\ wk[w].pc = "settle" /\ Holding(w)
      /\ run' = run /\ batch' = batch /\ UNCHANGED <<disk, kept, dirty>>
  BY Types DEF SettleShort, SettleWhole, PcIs, Holding, env, ctl
<1>2. wk[w].slot \in Slots /\ it \in Item /\ it.status \in Own(w)
  BY <1>1, Types
<1>3. /\ Edited(it, un) /\ un.status \in Own(w)
      /\ Edited(it, ver) /\ ver.status \in Own(w)
  BY <1>1, <1>2 DEF Edited, Item, Own, Status
<1>4. PICK c \in {"park", "fail", "verify", "await", "move"} : Goto(w, c)
  <2>1. CASE SettleShort(w)
    BY <2>1 DEF SettleShort
  <2>2. CASE SettleWhole(w)
    BY <2>2 DEF SettleWhole, Landing
  <2> QED BY <2>1, <2>2
<1>5. \/ items' = [items EXCEPT ![wk[w].slot] = un]
      \/ items' = [items EXCEPT ![wk[w].slot] = ver]
  BY <1>2, Types DEF SettleShort, SettleWhole, Unpause
<1>6. c \in Pcs \ {"idle", "nap", "measure", "unclaim"} /\ c \notin Published
  BY DEF Pcs, Published
<1> HIDE DEF un, ver
<1> QED BY <1>1, <1>3, <1>4, <1>5, <1>6, EditTurn

\* A .part moved into the library.
LEMMA InstallTurn ==
  ASSUME IInv, NEW w \in Workers, Holding(w), NEW c \in Published, Goto(w, c),
         NEW st \in {"DONE", "SAVED"}, Install(w, st), run' = run, batch' = batch,
         UNCHANGED <<disk, kept, dirty>>
  PROVE  Turn(w) /\ Files_(w)
BY PublishTurn DEF Install, Status, Terminal

LEMMA AnyTurn ==
  ASSUME IInv, NEW w \in Workers, AnyStep(w)
  PROVE  Turn(w) /\ Files_(w)
<1> USE DEF PcIs, env, ctl
<1>0. /\ {"fail", "drop", "requeue", "cancel"} \subseteq Pcs \ {"idle", "nap"}
      /\ "log" \in Published /\ "done" \in Published
      /\ {"fail", "drop", "requeue", "cancel"} \cap Published = {}
      /\ {"FAILED", "CANCELLED"} \subseteq Status \cap Terminal
  BY DEF Pcs, Published, Status, Terminal
<1>1. CASE Fail(w)
  BY <1>0, <1>1, PublishTurn DEF Fail, Holding
<1>2. CASE MoveFailed(w)
  BY <1>0, <1>2, GotoTurn DEF MoveFailed, Holding
<1>3. CASE CancelRead(w)
  BY <1>0, <1>3, GotoTurn DEF CancelRead, Holding
<1>4. CASE Drop(w)
  BY <1>0, <1>4, PublishTurn DEF Drop, Holding
<1> QED BY <1>1, <1>2, <1>3, <1>4, GiveBackTurn, LogTurn, DoneTurn DEF AnyStep

LEMMA DlTurn ==
  ASSUME IInv, Early, NEW w \in Dl, DlStep(w)
  PROVE  Turn(w) /\ Files_(w)
<1> USE DEF PcIs, env, ctl
<1>0. /\ {"cancel", "fail", "await", "move", "done"} \subseteq Pcs \ {"idle", "nap", "measure", "unclaim"}
      /\ "log" \in Published /\ "done" \in Published
      /\ {"cancel", "fail", "await", "move"} \cap Published = {}
      /\ "PAUSED" \in Status \cap Waiting /\ "AWAIT_EXTRACT" \in Status
      /\ w \in Workers /\ w # Ex
  BY Types DEF Pcs, Published, Status, Waiting
<1>1. CASE SettleStop(w)
  BY <1>0, <1>1, GotoTurn DEF SettleStop, Holding
<1>2. CASE SettleCancel(w)
  BY <1>0, <1>2, GotoTurn DEF SettleCancel, Holding
<1>3. CASE Park(w)
  BY <1>0, <1>3, PublishTurn DEF Park, Holding
<1>4. CASE VerifyStopped(w)
  BY <1>0, <1>4, GotoTurn DEF VerifyStopped, Holding
<1>5. CASE Verified(w)
  BY <1>0, <1>5, GotoTurn DEF Verified, Holding, Landing
<1>6. CASE Await(w)
  BY <1>0, <1>6, PublishTurn DEF Await, Holding
<1>7. CASE Move(w)
  BY <1>0, <1>7, InstallTurn DEF Move, Holding
<1> QED
  BY <1>1, <1>2, <1>3, <1>4, <1>5, <1>6, <1>7, PickTurn, RestingTurn, UnclaimTurn, MeasureTurn,
     LocalTurn, SettleTurn DEF DlStep

LEMMA ExTurn ==
  ASSUME IInv, ExStep
  PROVE  Turn(Ex) /\ Files_(Ex)
<1> USE DEF PcIs, env, ctl
<1>0. /\ {"cancel", "unrar", "raw", "done"} \subseteq Pcs \ {"idle", "nap", "measure", "unclaim"}
      /\ "log" \in Published /\ "done" \in Published
      /\ {"cancel", "unrar", "raw"} \cap Published = {}
      /\ Ex \in Workers
  BY Types DEF Pcs, Published
<1>1. CASE UnpackStop
  BY <1>0, <1>1, GotoTurn DEF UnpackStop, Holding
<1>2. CASE UnpackCancel
  BY <1>0, <1>2, GotoTurn DEF UnpackCancel, Holding
<1>3. CASE Unpacked
  BY <1>0, <1>3, InstallTurn DEF Unpacked, Holding
<1>4. CASE UnpackFailed
  BY <1>0, <1>4, GotoTurn DEF UnpackFailed, Holding
<1>5. CASE KeepRaw
  BY <1>0, <1>5, InstallTurn DEF KeepRaw, Holding
<1> QED BY <1>1, <1>2, <1>3, <1>4, <1>5, ExPickTurn DEF ExStep

-----------------------------------------------------------------------------
(* Every call of the UI deals each item a fate, and reports what it changed. *)

LEMMA CallSaves ==
  ASSUME UiFree, SaveLocked
  PROVE  Filed
BY DEF UiFree, SaveLocked, SaveOpen, Filed

LEMMA Idle ==
  ASSUME Quiet, Running
  PROVE  run # "down" /\ wk' = wk /\ run' = run
BY DEF Quiet, env, Running

\* A restarted item goes back to waiting.
LEMMA Restarted ==
  ASSUME NEW it \in Item
  PROVE  /\ Restart(it) \in Item /\ Restart(it).status = "QUEUED" /\ Restart(it).ext = it.ext
         /\ [Restart(it) EXCEPT !.requeue = 0].status = "QUEUED"
         /\ [Restart(it) EXCEPT !.requeue = 0].ext = it.ext
<1> DEFINE r == Restart(it)
<1>1. r \in Item /\ r.status = "QUEUED" /\ r.ext = it.ext
  BY DEF Restart, Item, Status
<1> HIDE DEF r
<1> QED BY <1>1 DEF Item, r

LEMMA AddCall ==
  ASSUME IInv, NEW f \in Files, Add(f)
  PROVE  Call /\ Reported
<1>1. Filed /\ run # "down" /\ wk' = wk /\ run' = run
  BY Idle DEF Add, SaveLocked, SaveOpen, Filed
<1>2. PICK s \in Slots : ~Live(s) /\ items' = [items EXCEPT ![s] = NewItem("QUEUED", f, gseq, FALSE)]
  BY DEF Add
<1>3. \A t \in Slots : Fate(t)
  BY <1>2, Types DEF Live, NewItem, Fate, Stays
<1> QED BY <1>1, <1>3 DEF Call, Reported

LEMMA BatchCall ==
  ASSUME IInv, BatchBegin \/ BatchEnd
  PROVE  Call /\ Reported
<1>1. run # "down" /\ wk' = wk /\ run' = run /\ items' = items
  BY DEF BatchBegin, BatchEnd, UiFree, Lock, Quiet, env
<1>2. \A s \in Slots : Fate(s) /\ Entry(s)
  BY <1>1 DEF Fate, Stays, Entry, InQueue
<1>3. Filed \/ (disk' = disk /\ kept' = kept /\ (batch /\ dirty => batch' /\ dirty'))
  BY DEF BatchBegin, BatchEnd, SaveOpen, Filed
<1> QED BY <1>1, <1>2, <1>3 DEF Call, Reported

LEMMA ExtAddCall ==
  ASSUME IInv, ExtAdd
  PROVE  Call /\ Reported
<1>1. /\ run # "down" /\ wk' = wk /\ run' = run
      /\ disk' = disk /\ kept' = kept /\ batch' = batch /\ dirty' = dirty
  BY Idle DEF ExtAdd, UiFree
<1>2. PICK s \in Slots :
        ~Live(s) /\ items' = [items EXCEPT ![s] = NewItem("DOWNLOADING", NoFile, gseq, TRUE)]
  BY DEF ExtAdd
<1>3. \A t \in Slots : Fate(t) /\ Entry(t)
  BY <1>2, Types DEF Live, NewItem, Fate, Stays, Entry, InQueue, Pending, Waiting, Active
<1> QED BY <1>1, <1>3 DEF Call, Reported

LEMMA ExtFinishCall ==
  ASSUME IInv, NEW s \in Slots, ExtFinish(s)
  PROVE  Call /\ Reported
<1>1. /\ run # "down" /\ wk' = wk /\ run' = run
      /\ disk' = disk /\ kept' = kept /\ batch' = batch /\ dirty' = dirty
  BY Idle DEF ExtFinish, UiFree, ctl
<1>2. PICK st \in {"DONE", "FAILED"} : Set(s, st)
  BY DEF ExtFinish
<1>3. items[s].ext /\ items[s].status = "DOWNLOADING" /\ ~Held(s)
  BY Types DEF ExtFinish, Held, Own, Workers
<1>4. \A t \in Slots : Fate(t) /\ Entry(t)
  BY <1>2, <1>3, Types DEF Set, Item, Fate, Stays, Entry, InQueue, Terminal
<1> QED BY <1>1, <1>4 DEF Call, Reported

LEMMA ExtCancelCall ==
  ASSUME IInv, NEW s \in Slots, ExtCancel(s)
  PROVE  Call /\ Reported
<1>1. /\ run # "down" /\ wk' = wk /\ run' = run
      /\ disk' = disk /\ kept' = kept /\ batch' = batch /\ dirty' = dirty
  BY Idle DEF ExtCancel, UiFree, ctl
<1>2. \A t \in Slots : Fate(t) /\ Entry(t)
  BY Types DEF ExtCancel, Item, Fate, Stays, Entry, InQueue
<1> QED BY <1>1, <1>2 DEF Call, Reported

\* A cancel changes the status of a waiting item, and of no other.
LEMMA CancelledFate ==
  ASSUME NEW it \in Item
  PROVE  /\ Cancelled(it).ext = it.ext /\ Cancelled(it).file = it.file /\ Cancelled(it).seq = it.seq
         /\ Cancelled(it).status = IF it.status \in Waiting THEN "CANCELLED" ELSE it.status
BY DEF Cancelled, Item

LEMMA CancelCall ==
  ASSUME IInv, NEW s \in Slots, Cancel(s)
  PROVE  Call /\ Reported
<1>1. /\ run # "down" /\ wk' = wk /\ run' = run /\ batch' = batch
      /\ items' = [items EXCEPT ![s] = Cancelled(@)]
  BY Idle DEF Cancel, UiFree
<1>2. \A t \in Slots : t # s => items'[t] = items[t]
  BY <1>1, Types
<1>3. /\ items'[s].ext = items[s].ext /\ items'[s].file = items[s].file /\ items'[s].seq = items[s].seq
      /\ items'[s].status = IF items[s].status \in Waiting THEN "CANCELLED" ELSE items[s].status
  BY <1>1, CancelledFate, Types
<1>4. \A t \in Slots : Fate(t)
  BY <1>2, <1>3 DEF Fate, Stays
<1>5. CASE items[s].status \in Waiting
  BY <1>1, <1>4, <1>5, CallSaves DEF Cancel, SaveIf, Call, Reported
<1>6. CASE items[s].status \notin Waiting
  <2>1. \A t \in Slots : Entry(t)
    BY <1>2, <1>3, <1>6 DEF Entry, InQueue
  <2> QED BY <1>1, <1>4, <1>6, <2>1 DEF Cancel, SaveIf, Call, Reported
<1> QED BY <1>5, <1>6

LEMMA CancelAllCall ==
  ASSUME IInv, CancelAll
  PROVE  Call /\ Reported
<1>1. /\ run # "down" /\ wk' = wk /\ run' = run /\ batch' = batch
      /\ items' = [s \in Slots |-> Cancelled(items[s])]
  BY Idle DEF CancelAll, UiFree
<1>2. \A s \in Slots :
      /\ items'[s].ext = items[s].ext /\ items'[s].file = items[s].file /\ items'[s].seq = items[s].seq
      /\ items'[s].status = IF items[s].status \in Waiting THEN "CANCELLED" ELSE items[s].status
  BY <1>1, CancelledFate, Types
<1>3. \A s \in Slots : Fate(s)
  BY <1>2 DEF Fate, Stays
<1>4. CASE \E s \in Slots : items[s].status \in Waiting
  BY <1>1, <1>3, <1>4, CallSaves DEF CancelAll, SaveIf, Call, Reported
<1>5. CASE ~\E s \in Slots : items[s].status \in Waiting
  <2>1. \A t \in Slots : Entry(t)
    BY <1>2, <1>5 DEF Entry, InQueue
  <2> QED BY <1>1, <1>3, <1>5, <2>1 DEF CancelAll, SaveIf, Call, Reported
<1> QED BY <1>4, <1>5

LEMMA DeletePartCall ==
  ASSUME IInv, NEW p \in Paths, DeletePart(p)
  PROVE  Call /\ Reported
<1> DEFINE hits == {s \in Slots : items[s].status \in Pending /\ Path(s) = p}
<1>1. /\ run # "down" /\ wk' = wk /\ run' = run /\ batch' = batch /\ UiFree
      /\ items' = [s \in Slots |-> IF s \in hits THEN Cancelled(items[s]) ELSE items[s]]
      /\ SaveIf(hits # {})
  BY DEF DeletePart, UiFree, Running, env
<1> HIDE DEF hits
<1>2. \A s \in Slots : \/ items'[s] = items[s]
                       \/ /\ items'[s].ext = items[s].ext
                          /\ items'[s].status = IF items[s].status \in Waiting THEN "CANCELLED"
                                                ELSE items[s].status
  BY <1>1, CancelledFate, Types
<1>3. \A s \in Slots : Fate(s)
  BY <1>2 DEF Fate, Stays
<1>4. CASE hits # {}
  BY <1>1, <1>3, <1>4, CallSaves DEF SaveIf, Call, Reported
<1>5. CASE hits = {}
  <2>1. \A t \in Slots : Entry(t)
    BY <1>1, <1>5 DEF Entry, InQueue
  <2> QED BY <1>1, <1>3, <1>5, <2>1 DEF SaveIf, Call, Reported
<1> QED BY <1>4, <1>5

LEMMA RetryCall ==
  ASSUME IInv, NEW s \in Slots, Retry(s)
  PROVE  Call /\ Reported
<1>1. /\ run # "down" /\ wk' = wk /\ run' = run /\ Filed
      /\ items' = [items EXCEPT ![s] = Restart(@)]
  BY Idle, CallSaves DEF Retry, UiFree
<1>2. items[s].status \in Waiting \cup Terminal
  BY DEF Retry, Waiting, Terminal
<1>3. \A t \in Slots : Fate(t)
  BY <1>1, <1>2, Restarted, Types DEF Fate, Stays, Waiting
<1> QED BY <1>1, <1>3 DEF Call, Reported

LEMMA RetryStatusCall ==
  ASSUME IInv, NEW want \in {"FAILED", "CANCELLED", "PAUSED"}, RetryStatus(want)
  PROVE  Call /\ Reported
<1>1. /\ run # "down" /\ wk' = wk /\ run' = run /\ batch' = batch
      /\ items' = [s \in Slots |-> IF items[s].status = want THEN Restart(items[s]) ELSE items[s]]
  BY Idle DEF RetryStatus, UiFree
<1>2. want \in Waiting \cup Terminal
  BY DEF Waiting, Terminal
<1>3. \A s \in Slots : Fate(s)
  BY <1>1, <1>2, Restarted, Types DEF Fate, Stays, Waiting
<1>4. CASE \E s \in Slots : items[s].status = want
  BY <1>1, <1>3, <1>4, CallSaves DEF RetryStatus, SaveIf, Call, Reported
<1>5. CASE ~\E s \in Slots : items[s].status = want
  <2>1. \A t \in Slots : Entry(t)
    BY <1>1, <1>5 DEF Entry, InQueue
  <2>2. Filed \/ (disk' = disk /\ kept' = kept /\ dirty' = dirty)
    BY CallSaves DEF RetryStatus, SaveIf
  <2> QED BY <1>1, <1>3, <2>1, <2>2 DEF Call, Reported
<1> QED BY <1>4, <1>5

LEMMA RequeueCall ==
  ASSUME IInv, NEW s \in Slots, NEW kind \in {1, 2}, Requeue(s, kind)
  PROVE  Call /\ Reported
<1>1. run # "down" /\ wk' = wk /\ run' = run /\ batch' = batch
  BY Idle DEF Requeue, UiFree
<1>2. CASE /\ items' = [items EXCEPT ![s].requeue = kind, ![s].cancel = TRUE]
           /\ UNCHANGED <<disk, kept, dirty>>
  <2>1. \A t \in Slots : Fate(t) /\ Entry(t)
    BY <1>2, Types DEF Item, Fate, Stays, Entry, InQueue
  <2> QED BY <1>1, <1>2, <2>1 DEF Call, Reported
<1>3. CASE /\ items[s].status \in Waiting \cup {"FAILED", "CANCELLED"}
           /\ items' = [items EXCEPT ![s] = [Restart(@) EXCEPT !.requeue = 0]]
           /\ SaveLocked
  <2>1. items[s].status \in Waiting \cup Terminal
    BY <1>3 DEF Terminal
  <2>2. items'[s].status = "QUEUED" /\ items'[s].ext = items[s].ext
    BY <1>3, Restarted, Types
  <2>3. \A t \in Slots : t # s => items'[t] = items[t]
    BY <1>3, Types
  <2>4. \A t \in Slots : Fate(t)
    BY <2>1, <2>2, <2>3 DEF Fate, Stays, Waiting
  <2> QED BY <1>1, <1>3, <2>4, CallSaves DEF Requeue, Call, Reported
<1> QED BY <1>2, <1>3 DEF Requeue

LEMMA PauseAllCall ==
  ASSUME IInv, PauseAll
  PROVE  Call /\ Reported
<1>1. run # "down" /\ wk' = wk /\ run' = run /\ Filed
  BY Idle, CallSaves DEF PauseAll, UiFree
<1>2. \A s \in Slots : Fate(s)
  BY Types DEF PauseAll, Item, Fate, Stays, Waiting
<1> QED BY <1>1, <1>2 DEF Call, Reported

LEMMA SetMaxDlCall ==
  ASSUME IInv, NEW n \in 1..MaxDl, SetMaxDl(n)
  PROVE  Call /\ Reported
<1> DEFINE dl      == {s \in Slots : items[s].status = "DOWNLOADING"}
           rank(s) == Cardinality({t \in dl : items[t].seq < items[s].seq})
<1>1. items' = [s \in Slots |-> IF s \in dl THEN [items[s] EXCEPT !.pause = (rank(s) >= n)]
                                            ELSE items[s]]
  BY DEF SetMaxDl
<1> HIDE DEF dl, rank
<1>2. /\ run # "down" /\ wk' = wk /\ run' = run
      /\ disk' = disk /\ kept' = kept /\ batch' = batch /\ dirty' = dirty
  BY Idle DEF SetMaxDl, UiFree
<1>3. \A s \in Slots : Fate(s) /\ Entry(s)
  BY <1>1, Types DEF Item, Fate, Stays, Entry, InQueue
<1> QED BY <1>2, <1>3 DEF Call, Reported

LEMMA MoveCall ==
  ASSUME IInv, NEW s \in Slots, MoveUp(s) \/ \E bottom \in BOOLEAN : MoveEnd(s, bottom)
  PROVE  Call /\ Reported
<1>1. run # "down" /\ wk' = wk /\ run' = run /\ Filed
  BY Idle, CallSaves DEF MoveUp, MoveEnd, UiFree
<1>2. CASE MoveUp(s)
  <2>1. PICK t \in Above(s) :
          items' = [items EXCEPT ![s].seq = items[t].seq, ![t].seq = items[s].seq]
    BY <1>2 DEF MoveUp
  <2>2. t \in Slots
    BY DEF Above, Order
  <2>3. \A u \in Slots : Fate(u)
    BY <2>1, <2>2, Types DEF Item, Fate, Stays
  <2> QED BY <1>1, <2>3 DEF Call, Reported
<1>3. ASSUME NEW bottom \in BOOLEAN, MoveEnd(s, bottom)
      PROVE  \A u \in Slots : Fate(u)
  <2> DEFINE heading == {t \in Order : \A u \in Above(t) \cup {t} : items[u].status \in Active}
             to      == IF bottom THEN Cardinality(Order) ELSE Cardinality(heading) + 1
             rank(t) == Cardinality(Above(t) \ {s}) + 1
             place(t) == IF t = s THEN to ELSE IF rank(t) < to THEN rank(t) ELSE rank(t) + 1
  <2>1. items' = [t \in Slots |-> IF t \in Order THEN [items[t] EXCEPT !.seq = place(t)]
                                                 ELSE items[t]]
    BY <1>3 DEF MoveEnd
  <2> HIDE DEF place
  <2> QED BY <2>1, Types DEF Item, Fate, Stays
<1> QED BY <1>1, <1>2, <1>3 DEF Call, Reported

LEMMA ClearFinishedCall ==
  ASSUME IInv, ClearFinished
  PROVE  Call /\ Reported
<1>1. /\ run # "down" /\ wk' = wk /\ run' = run
      /\ disk' = disk /\ kept' = kept /\ batch' = batch /\ dirty' = dirty
  BY Idle DEF ClearFinished, UiFree, ctl
<1>2. \A s \in Slots : Fate(s) /\ Entry(s)
  BY Types DEF ClearFinished, Item, Fate, Stays, Entry, InQueue, Terminal, Pending, Waiting, Active
<1> QED BY <1>1, <1>2 DEF Call, Reported

LEMMA UiCall ==
  ASSUME IInv, UiStep
  PROVE  Call /\ Reported
<1>1. ASSUME NEW s \in Slots,
             \/ ExtFinish(s) \/ ExtCancel(s) \/ Cancel(s) \/ Retry(s) \/ MoveUp(s)
             \/ \E k \in {1, 2} : Requeue(s, k)
             \/ \E b \in BOOLEAN : MoveEnd(s, b)
      PROVE  Call /\ Reported
  BY <1>1, ExtFinishCall, ExtCancelCall, CancelCall, RetryCall, MoveCall, RequeueCall
<1>2. CASE \E f \in Files : Add(f)
  BY <1>2, AddCall
<1>3. CASE BatchBegin \/ BatchEnd \/ ExtAdd \/ CancelAll \/ PauseAll \/ ClearFinished
  BY <1>3, BatchCall, ExtAddCall, CancelAllCall, PauseAllCall, ClearFinishedCall
<1>4. CASE \E p \in Paths : DeletePart(p)
  BY <1>4, DeletePartCall
<1>5. CASE \E st \in {"FAILED", "CANCELLED", "PAUSED"} : RetryStatus(st)
  BY <1>5, RetryStatusCall
<1>6. CASE \E n \in 1..MaxDl : SetMaxDl(n)
  BY <1>6, SetMaxDlCall
<1> QED BY <1>1, <1>2, <1>3, <1>4, <1>5, <1>6 DEF UiStep

-----------------------------------------------------------------------------
(* The invariants are preserved. *)

\* Between two runs no worker takes a step.
LEMMA Awake ==
  ASSUME IInv, (\E w \in Dl : DlStep(w)) \/ (\E w \in Workers : AnyStep(w)) \/ ExStep
  PROVE  run # "down"
<1> USE DEF PcIs, Running, Lock
<1>1. ASSUME NEW w \in Workers, wk[w].pc # "idle" PROVE run # "down"
  BY <1>1 DEF IInv, Asleep, IdleWorker
<1>2. ASSUME NEW w \in Dl, DlStep(w) PROVE run # "down" \/ wk[w].pc # "idle"
  BY <1>2 DEF DlStep, Pick, Rest, Wake, MeasureShort, Unclaim, MeasureFits, Begin, Receive, Transferred,
       SettleStop, SettleCancel, SettleShort, SettleWhole, Park, VerifyStopped, Verified, Await, Move
<1>3. ASSUME NEW w \in Workers, AnyStep(w) PROVE run # "down" \/ wk[w].pc # "idle"
  BY <1>3 DEF AnyStep, Fail, MoveFailed, CancelRead, Drop, GiveBack, Log, Done
<1>4. ASSUME ExStep PROVE run # "down" \/ wk[Ex].pc # "idle"
  BY <1>4 DEF ExStep, ExPick, UnpackStop, UnpackCancel, Unpacked, UnpackFailed, KeepRaw
<1> QED BY <1>1, <1>2, <1>3, <1>4, Types

LEMMA TurnKeeps ==
  ASSUME IInv, Promises, run # "down", NEW w \in Workers, Turn(w), Files_(w)
  PROVE  Promises'
<1> USE DEF OthersStay, Stays
<1>1. /\ run' = run /\ batch' = batch /\ \A s \in Slots : SameName(s)
      /\ \A v \in Workers \ {w} : wk'[v] = wk[v]
      /\ Takes(w) \/ Keeps(w) \/ LetsGo(w) \/ Rests(w)
  BY DEF Turn
<1>2. Early'
  <2> SUFFICES ASSUME NEW v \in Dl, wk'[v].pc \in {"measure", "unclaim"}
               PROVE  items'[wk'[v].slot].status = "DOWNLOADING"
    BY DEF Early, Mine
  <2>1. CASE v = w
    BY <1>1, <2>1, Types DEF Promises, Early, Mine, Takes, Keeps, LetsGo, Rests, Holding, Published
  <2>2. CASE v # w
    <3>1. /\ v \in Workers /\ wk'[v] = wk[v] /\ Holding(v)
          /\ wk[v].slot \in Slots /\ items[wk[v].slot].status = "DOWNLOADING"
      BY <1>1, <2>2, Types DEF Promises, Early, Mine, Holding
    <3>2. Holding(w) => wk[w].slot # wk[v].slot
      BY <2>2, <3>1, Types
    <3> QED BY <1>1, <3>1, <3>2 DEF Takes, Keeps, LetsGo, Rests, Waiting
  <2> QED BY <2>1, <2>2
<1>3. Empty'
  BY <1>1 DEF Empty
<1>4. NobodyStranded'
  <2> SUFFICES ASSUME run = "up", NEW s \in Slots
               PROVE  /\ ~items'[s].ext /\ items'[s].status \in {"DOWNLOADING", "VERIFYING"}
                           => \E v \in Dl : Holding(v)' /\ wk'[v].slot = s
                      /\ items'[s].status = "EXTRACTING" => Holding(Ex)' /\ wk'[Ex].slot = s
    BY <1>1 DEF NobodyStranded, Running, Downloading
  <2>1. /\ ~items[s].ext /\ items[s].status \in {"DOWNLOADING", "VERIFYING"}
             => \E v \in Dl : Holding(v) /\ wk[v].slot = s
        /\ items[s].status = "EXTRACTING" => Holding(Ex) /\ wk[Ex].slot = s
    BY DEF Promises, NobodyStranded, Running, Downloading
  <2>2. items'[s].ext = items[s].ext /\ (w # Ex => w \in Dl)
    BY <1>1 DEF SameName, Workers
  <2>3. CASE Takes(w)
    BY <1>1, <2>1, <2>2, <2>3, Types DEF Takes, Holding
  <2>4. CASE Keeps(w)
    BY <1>1, <2>1, <2>2, <2>4, Types DEF Keeps, Holding, Own
  <2>5. CASE LetsGo(w)
    BY <1>1, <2>1, <2>2, <2>5, Types DEF LetsGo, Holding, Waiting, Terminal, Running
  <2>6. CASE Rests(w)
    BY <1>1, <2>1, <2>2, <2>6, Types DEF Rests, Holding
  <2> QED BY <1>1, <2>3, <2>4, <2>5, <2>6
<1>5. Agrees'
  <2>1. CASE Filed
    BY <2>1 DEF Filed, Agrees
  <2>2. CASE UNCHANGED <<disk, kept, dirty>> /\ (wk[w].pc \in Published => wk'[w].pc \in Published)
    <3>1. SUFFICES ASSUME disk # Torn, kept, ~(batch /\ dirty)
                   PROVE  /\ \A s \in Slots : InQueue(s)' => OnDisk(s)'
                          /\ \A r \in disk : Listed_(r)'
      BY <1>1, <2>2 DEF Agrees
    <3>2. (\A s \in Slots : InQueue(s) => OnDisk(s)) /\ (\A r \in disk : Listed_(r))
      BY <3>1 DEF Promises, Agrees
    <3>3. ASSUME NEW s \in Slots PROVE InQueue(s)' => InQueue(s)
      BY <1>1, Types DEF InQueue, SameName, Pending, Waiting, Active, Takes, Keeps, LetsGo, Rests,
         Own, Terminal
    <3>4. \A s \in Slots : InQueue(s)' => OnDisk(s)'
      BY <1>1, <2>2, <3>2, <3>3 DEF OnDisk, SameName
    <3>5. ASSUME NEW s \in Slots, InQueue(s) PROVE InQueue(s)' \/ wk'[w].pc \in Published
      BY <1>1, <3>5, Types DEF InQueue, SameName, Pending, Waiting, Active, Takes, Keeps, LetsGo,
         Rests, Own, Terminal
    <3>6. ASSUME NEW r \in disk PROVE Listed_(r)'
      <4>1. CASE \E v \in Workers : wk[v].pc \in Published
        BY <1>1, <2>2, <4>1 DEF Listed_
      <4>2. CASE \E s \in Slots : InQueue(s) /\ items[s].file = r.file /\ items[s].seq = r.seq
        BY <1>1, <3>5, <4>2 DEF Listed_, SameName
      <4> QED BY <3>2, <4>1, <4>2 DEF Listed_
    <3> QED BY <2>2, <3>4, <3>6
  <2> QED BY <2>1, <2>2 DEF Files_
<1> QED BY <1>2, <1>3, <1>4, <1>5 DEF Promises

LEMMA CallKeeps ==
  ASSUME IInv, Promises, Call, Reported
  PROVE  Promises'
<1>1. run # "down" /\ wk' = wk /\ run' = run /\ \A s \in Slots : Fate(s)
  BY DEF Call
<1>2. Early'
  <2> SUFFICES ASSUME NEW v \in Dl, wk[v].pc \in {"measure", "unclaim"}
               PROVE  items'[wk[v].slot].status = "DOWNLOADING"
    BY <1>1 DEF Early, Mine
  <2>1. v \in Workers /\ Holding(v) /\ wk[v].slot \in Slots /\ Held(wk[v].slot)
        /\ items[wk[v].slot].status = "DOWNLOADING"
    BY Types DEF Promises, Early, Mine, Holding, Held
  <2> QED BY <1>1, <2>1 DEF Fate, Stays, Waiting, Terminal
<1>3. Empty'
  BY <1>1 DEF Empty
<1>4. NobodyStranded'
  <2> SUFFICES ASSUME run = "up", NEW s \in Slots
               PROVE  /\ ~items'[s].ext /\ items'[s].status \in {"DOWNLOADING", "VERIFYING"}
                           => \E v \in Dl : Holding(v)' /\ wk'[v].slot = s
                      /\ items'[s].status = "EXTRACTING" => Holding(Ex)' /\ wk'[Ex].slot = s
    BY <1>1 DEF NobodyStranded, Running, Downloading
  <2>1. /\ ~items[s].ext /\ items[s].status \in {"DOWNLOADING", "VERIFYING"}
             => \E v \in Dl : Holding(v) /\ wk[v].slot = s
        /\ items[s].status = "EXTRACTING" => Holding(Ex) /\ wk[Ex].slot = s
    BY DEF Promises, NobodyStranded, Running, Downloading
  <2> QED BY <1>1, <2>1 DEF Fate, Stays, Waiting, Terminal, Holding
<1>5. Agrees'
  <2>1. CASE Filed
    BY <2>1 DEF Filed, Agrees
  <2>2. CASE /\ disk' = disk /\ kept' = kept /\ (batch /\ dirty => batch' /\ dirty')
             /\ \A s \in Slots : Entry(s)
    BY <1>1, <2>2 DEF Promises, Agrees, OnDisk, Listed_, Entry
  <2> QED BY <2>1, <2>2 DEF Reported
<1> QED BY <1>2, <1>3, <1>4, <1>5 DEF Promises

\* Steps that touch neither the items nor the workers.
LEMMA StillKeeps ==
  ASSUME Promises, items' = items, wk' = wk, run' = run \/ (run = "up" /\ run' = "stopping") \/ run' = "final",
         run = "down" <=> run' = "down",
         Filed \/ UNCHANGED <<disk, kept, batch, dirty>>
  PROVE  Promises'
<1>1. Early'
  BY DEF Promises, Early, Mine
<1>2. Empty'
  BY DEF Promises, Empty
<1>3. NobodyStranded'
  BY DEF Promises, NobodyStranded, Running, Downloading, Holding
<1>4. Agrees'
  BY DEF Promises, Agrees, OnDisk, Listed_, InQueue, Filed
<1> QED BY <1>1, <1>2, <1>3, <1>4 DEF Promises

\* A save that completes lists what is in the queue, or is known to have failed.
LEMMA SavedKeeps ==
  ASSUME Promises, SaveDone
  PROVE  Promises'
<1>1. items' = items /\ wk' = wk /\ run' = run /\ (disk' = PendingRecords \/ ~kept')
  BY DEF SaveDone, env
<1>2. Early' /\ Empty' /\ NobodyStranded'
  BY <1>1 DEF Promises, Early, Mine, Empty, NobodyStranded, Running, Downloading, Holding
<1>3. ASSUME NEW s \in Slots, InQueue(s)
      PROVE  \E r \in PendingRecords : r.file = items[s].file /\ r.seq = items[s].seq
  <2> DEFINE r == [file |-> items[s].file, seq |-> items[s].seq,
                   down |-> items[s].status \in {"VERIFYING", "AWAIT_EXTRACT", "EXTRACTING"}]
  <2>1. r \in PendingRecords
    BY <1>3 DEF PendingRecords
  <2>2. r.file = items[s].file /\ r.seq = items[s].seq
    OBVIOUS
  <2> HIDE DEF r
  <2> QED BY <2>1, <2>2
<1>4. ASSUME NEW r \in PendingRecords
      PROVE  \E s \in Slots : InQueue(s) /\ items[s].file = r.file /\ items[s].seq = r.seq
  BY DEF PendingRecords
<1>5. Agrees'
  <2>1. \A s \in Slots : InQueue(s)' <=> InQueue(s)
    BY <1>1 DEF InQueue
  <2> QED BY <1>1, <1>3, <1>4, <2>1 DEF Agrees, OnDisk, Listed_
<1> QED BY <1>2, <1>5 DEF Promises

\* Nothing of the process remains.
LEMMA GoneKeeps ==
  ASSUME Gone
  PROVE  Promises'
<1>1. Early'
  BY DEF Gone, Early, IdleWorker, Workers
<1>2. Empty'
  BY DEF Gone, Empty, FreeItem, NewItem
<1> QED BY <1>1, <1>2 DEF Gone, NobodyStranded, Running, Agrees, Promises

\* The list a program starts with is the saved one.
LEMMA LoadKeeps ==
  ASSUME IInv, Promises, Load
  PROVE  Promises'
<1> DEFINE recs == IF disk = Torn THEN {} ELSE disk
<1>1. PICK home \in [recs -> Slots] :
        /\ \A a, b \in recs : a # b => home[a] # home[b]
        /\ items' = [s \in Slots |->
             IF \E r \in recs : home[r] = s
             THEN Loaded(CHOOSE r \in recs : home[r] = s) ELSE FreeItem]
  BY DEF Load
<1>2. disk' = recs /\ wk' = wk /\ run' = "up" /\ run = "down"
  BY DEF Load
<1> HIDE DEF recs
<1>3. ASSUME NEW r \in recs
      PROVE  items'[home[r]] = Loaded(r)
  BY <1>1
<1>4. ASSUME NEW s \in Slots, ~\E r \in recs : home[r] = s
      PROVE  items'[s] = FreeItem
  BY <1>1, <1>4
<1>5. \A r \in recs : /\ Loaded(r).status \in {"AWAIT_EXTRACT", "QUEUED"} /\ ~Loaded(r).ext
                      /\ Loaded(r).file = r.file /\ Loaded(r).seq = r.seq
  BY DEF Loaded, NewItem
<1>6. FreeItem.status = "FREE"
  BY DEF FreeItem, NewItem
<1>7. Early' /\ Empty'
  <2>1. \A w \in Workers : wk[w].pc = "idle"
    BY <1>2 DEF IInv, Asleep, IdleWorker
  <2> QED BY <1>2, <2>1, Types DEF Early, Empty
<1>8. NobodyStranded'
  BY <1>3, <1>4, <1>5, <1>6 DEF NobodyStranded, Downloading
<1>9. Agrees'
  BY <1>2, <1>3, <1>4, <1>5, <1>6 DEF Agrees, OnDisk, Listed_, InQueue, Pending, Waiting, Active
<1> QED BY <1>7, <1>8, <1>9 DEF Promises

LEMMA PromisesStep ==
  ASSUME IInv, Promises, [Next]_vars
  PROVE  Promises'
<1>1. ASSUME NEW w \in Dl, DlStep(w) PROVE Promises'
  BY <1>1, DlTurn, TurnKeeps, Awake, Types DEF Promises
<1>2. ASSUME NEW w \in Workers, AnyStep(w) PROVE Promises'
  BY <1>2, AnyTurn, TurnKeeps, Awake
<1>3. CASE ExStep
  BY <1>3, ExTurn, TurnKeeps, Awake, Types
<1>4. CASE UiStep
  BY <1>4, UiCall, CallKeeps
<1>5. CASE Stop \/ ExitSave \/ NetFlip \/ SpaceFlip \/ UNCHANGED vars
  BY <1>5, StillKeeps
  DEF Stop, UiFree, Running, ExitSave, SaveLocked, SaveOpen, Filed, NetFlip, SpaceFlip, vars, ctl
<1>6. CASE Exit \/ Crash
  BY <1>6, GoneKeeps DEF Exit, Crash
<1> QED BY <1>1, <1>2, <1>3, <1>4, <1>5, <1>6, SavedKeeps, LoadKeeps DEF Next

LEMMA PromisesInit == Init => Promises
BY Types, InitHolds
DEF Init, Promises, Early, Empty, NobodyStranded, Running, Downloading, Agrees, InQueue, FreeItem,
    NewItem, IdleWorker, Pending, Waiting, Active

-----------------------------------------------------------------------------
(* The theorems. *)

\* The two invariants hold in every reachable state.
THEOREM PromisesKept == Spec => [](IInv /\ Promises)
BY InitHolds, NextKeeps, PromisesInit, PromisesStep, PTL DEF Spec

\* An item shown as running is in some worker's hands, whatever the calls and
\* the workers did before.
THEOREM NoneStranded == Spec => []NobodyStranded
BY PromisesKept, PTL DEF Promises

\* At every moment a power cut may come, outside a save and a batch, queue.json
\* lists what is still to be done, and nothing else but what a worker is about
\* to take off it: unless the last save of it failed (save_locked tells nobody), and
\* then again from the next one that goes through.
THEOREM QueueFileCorrect == Spec => []QueueFileAgrees
<1>1. Promises => QueueFileAgrees
  BY DEF Promises, Agrees, QueueFileAgrees, FileAgrees, Lock, Locked, OnDisk, Listed_, Published
<1> QED BY <1>1, PromisesKept, PTL

-----------------------------------------------------------------------------
(* The queue implements JobPool. *)

\* What JobOf and HolderOf make of an item.
HoldersAre ==
  \A s \in Slots :
    /\ \A w \in Workers : HolderOf(s) = w <=> Holding(w) /\ wk[w].slot = s
    /\ HolderOf(s) = Nobody <=> ~Held(s)
    /\ HolderOf(s) \in Workers \cup {Nobody}
JobsAre ==
  \A s \in Slots :
    /\ items[s].status = "FREE" => JobOf(s) = "none"
    /\ items[s].status \in Waiting => JobOf(s) = "open"
    /\ items[s].status \in Terminal => JobOf(s) = "closed"
    /\ items[s].status = "AWAIT_EXTRACT" => JobOf(s) = "staged"
    /\ items[s].status \in InHands =>
         JobOf(s) = IF Held(s) THEN "held" ELSE IF items[s].ext THEN "outside" ELSE "left"
Seen == HoldersAre /\ JobsAre

LEMMA Holders == IInv => HoldersAre
<1> SUFFICES ASSUME IInv, NEW s \in Slots
             PROVE  /\ \A w \in Workers : HolderOf(s) = w <=> Holding(w) /\ wk[w].slot = s
                    /\ HolderOf(s) = Nobody <=> ~Held(s)
                    /\ HolderOf(s) \in Workers \cup {Nobody}
  BY DEF HoldersAre
<1> DEFINE hs == {w \in Workers : Holding(w) /\ wk[w].slot = s}
<1>1. HolderOf(s) = IF hs = {} THEN Nobody ELSE CHOOSE w \in hs : TRUE
  BY DEF HolderOf
<1>2. CASE hs = {}
  BY <1>1, <1>2, NobodyAssumption DEF Held
<1>3. CASE hs # {}
  <2>1. HolderOf(s) \in hs
    BY <1>1, <1>3
  <2> QED BY <2>1, Types, NobodyAssumption DEF Held
<1> QED BY <1>2, <1>3

LEMMA Jobs_ == IInv => JobsAre
<1> SUFFICES ASSUME IInv, NEW s \in Slots
             PROVE  /\ items[s].status = "FREE" => JobOf(s) = "none"
                    /\ items[s].status \in Waiting => JobOf(s) = "open"
                    /\ items[s].status \in Terminal => JobOf(s) = "closed"
                    /\ items[s].status = "AWAIT_EXTRACT" => JobOf(s) = "staged"
                    /\ items[s].status \in InHands =>
                         JobOf(s) = IF Held(s) THEN "held" ELSE IF items[s].ext THEN "outside" ELSE "left"
  BY DEF JobsAre
<1>1. HolderOf(s) = Nobody <=> ~Held(s)
  BY Holders DEF HoldersAre
<1>2. items[s].ext \in BOOLEAN
  BY Types DEF Item
<1>3. CASE items[s].status = "FREE"
  BY <1>3 DEF JobOf, Waiting, Terminal, Active, InHands
<1>4. CASE items[s].status \in Waiting
  BY <1>4 DEF JobOf, Waiting, Terminal, Active, InHands
<1>5. CASE items[s].status \in Terminal
  BY <1>5 DEF JobOf, Waiting, Terminal, Active, InHands
<1>6. CASE items[s].status = "AWAIT_EXTRACT"
  BY <1>6 DEF JobOf, Waiting, Terminal, Active, InHands
<1>7. CASE items[s].status \in InHands
  BY <1>1, <1>2, <1>7 DEF JobOf, Waiting, Terminal, Active, InHands
<1> QED BY <1>3, <1>4, <1>5, <1>6, <1>7 DEF Waiting, Terminal, InHands

\* In this state and in the next.
LEMMA SeenBoth ==
  IInv /\ IInv' => Seen /\ Seen'
<1>1. IInv => Seen
  BY Holders, Jobs_ DEF Seen
<1> QED BY <1>1, PTL

\* An item that keeps its status, its kind and its holder is the same job.
LEMMA SameJob ==
  ASSUME IInv, Seen, Seen', NEW s \in Slots, Stays(s), items'[s].ext = items[s].ext,
         Held(s)' <=> Held(s)
  PROVE  JobOf(s)' = JobOf(s)
<1>1. items[s].status \in {"FREE", "AWAIT_EXTRACT"} \cup Waiting \cup Terminal \cup InHands
  BY Types DEF Item, Status, Waiting, Terminal, InHands
<1> QED BY <1>1 DEF Seen, JobsAre, Stays

PoolStep == [Pool!Next]_(Pool!vars)

\* A turn takes a job, lets go of one, or changes none.
LEMMA TurnSimulates ==
  ASSUME IInv, IInv', Seen, Seen', NEW w \in Workers, Turn(w)
  PROVE  PoolStep
<1> USE DEF OthersStay
<1>1. /\ \A s \in Slots : items'[s].ext = items[s].ext
      /\ \A v \in Workers \ {w} : wk'[v] = wk[v]
      /\ Takes(w) \/ Keeps(w) \/ LetsGo(w) \/ Rests(w)
  BY DEF Turn, SameName
<1> DEFINE Same(t) == JobOf(t)' = JobOf(t) /\ HolderOf(t)' = HolderOf(t)
<1>2. ASSUME NEW t \in Slots, Stays(t),
             Holding(w) /\ wk[w].slot = t <=> Holding(w)' /\ wk'[w].slot = t
      PROVE  Same(t)
  <2>1. \A v \in Workers : Holding(v) /\ wk[v].slot = t <=> Holding(v)' /\ wk'[v].slot = t
    BY <1>1, <1>2 DEF Holding
  <2>2. Held(t)' <=> Held(t)
    BY <2>1 DEF Held
  <2>3. HolderOf(t)' = HolderOf(t)
    BY <2>1, <2>2 DEF Seen, HoldersAre
  <2> QED BY <1>1, <1>2, <2>2, <2>3, SameJob
<1>3. CASE Takes(w)
  <2> PICK s \in Slots : s = wk'[w].slot
    BY <1>3 DEF Takes
  <2>1. /\ s \in Slots /\ ~Holding(w) /\ Holding(w)'
        /\ \A t \in Slots \ {s} : Stays(t)
    BY <1>3 DEF Takes, Holding
  <2>2. \A t \in Slots \ {s} : Same(t)
    BY <1>2, <2>1
  <2>3. HolderOf(s)' = w /\ Held(s)'
    BY <2>1 DEF Seen, HoldersAre, Held
  <2>4. JobOf(s)' = "held"
    BY <1>3, <2>1, <2>3 DEF Seen, JobsAre, Takes, InHands
  <2>5. JobOf(s) = IF w = Ex THEN "staged" ELSE "open"
    BY <1>3, <2>1 DEF Seen, JobsAre, Takes
  <2>6. \A t \in Slots : HolderOf(t) # w
    BY <2>1 DEF Seen, HoldersAre
  <2>7. Pool!Take(w, s)
    BY <2>1, <2>2, <2>3, <2>4, <2>5, <2>6 DEF Pool!Take
  <2> QED BY <2>1, <2>7 DEF PoolStep, Pool!Next, Pool!Crew, Workers
<1>4. CASE Keeps(w)
  <2> PICK s \in Slots : s = wk[w].slot
    BY <1>4, Types DEF Keeps, LetsGo
  <2>1. /\ s \in Slots /\ Holding(w) /\ Holding(w)' /\ wk'[w].slot = s
        /\ \A t \in Slots \ {s} : Stays(t)
    BY <1>4, Types DEF Keeps
  <2>2. \A t \in Slots \ {s} : Same(t)
    BY <1>2, <2>1
  <2>3. Held(s) /\ Held(s)' /\ items[s].status \in InHands /\ items'[s].status \in InHands
    BY <1>4, <2>1, Types DEF Held, Keeps, Own, InHands
  <2>4. Same(s)
    BY <2>1, <2>3 DEF Seen, HoldersAre, JobsAre
  <2>5. \A t \in Slots : Same(t)
    BY <2>2, <2>4
  <2> QED BY <2>5 DEF PoolStep, Pool!vars
<1>5. CASE LetsGo(w)
  <2> PICK s \in Slots : s = wk[w].slot
    BY <1>5, Types DEF Keeps, LetsGo
  <2>1. /\ s \in Slots /\ Holding(w) /\ ~Holding(w)'
        /\ \A t \in Slots \ {s} : Stays(t)
    BY <1>5, Types DEF LetsGo, Holding, Published
  <2>2. \A t \in Slots \ {s} : Same(t)
    BY <1>2, <2>1
  <2>3. HolderOf(s) = w
    BY <2>1 DEF Seen, HoldersAre
  <2>4. ~Held(s)'
    BY <1>1, <2>1, Types DEF Held, Holding
  <2>5. HolderOf(s)' = Nobody
    BY <2>1, <2>4 DEF Seen, HoldersAre
  <2>6. JobOf(s)' \in {"open", "closed", "left", "outside"} \cup (IF w = Ex THEN {} ELSE {"staged"})
    BY <1>5, <2>1, <2>4, Types DEF LetsGo, Seen, JobsAre, Stays, Own, InHands
  <2>7. Pool!LetGo(w, s)
    BY <2>1, <2>2, <2>3, <2>5, <2>6 DEF Pool!LetGo
  <2> QED BY <2>1, <2>7 DEF PoolStep, Pool!Next, Pool!Crew, Workers
<1>6. CASE Rests(w)
  <2>1. \A t \in Slots : Same(t)
    BY <1>2, <1>6 DEF Rests
  <2> QED BY <2>1 DEF PoolStep, Pool!vars
<1> QED BY <1>1, <1>3, <1>4, <1>5, <1>6

\* A call moves jobs nobody holds.
LEMMA CallSimulates ==
  ASSUME IInv, IInv', Seen, Seen', Call
  PROVE  PoolStep
<1> DEFINE J  == {s \in Slots : JobOf(s)' # JobOf(s)}
           to == [s \in J |-> JobOf(s)']
<1>1. \A s \in Slots : (Held(s)' <=> Held(s)) /\ HolderOf(s)' = HolderOf(s)
  BY DEF Call, Held, Holding, Seen, HoldersAre
<1>2. ASSUME NEW s \in Slots
      PROVE  \/ JobOf(s)' = JobOf(s)
             \/ /\ JobOf(s)' \in {"none", "open", "closed", "outside"}
                /\ JobOf(s)' \in Pool!Reachable(JobOf(s))
  <2>0. Fate(s)
    BY DEF Call
  <2>1. CASE Stays(s) /\ items'[s].ext = items[s].ext
    BY <1>1, <2>1, SameJob
  <2>2. CASE items[s].status \in Waiting /\ items'[s].status \in Waiting \cup {"CANCELLED"}
    BY <2>2 DEF Seen, JobsAre, Terminal, Pool!Reachable
  <2>3. CASE items[s].status \in Terminal /\ items'[s].status \in {"QUEUED", "FREE"}
    BY <2>3 DEF Seen, JobsAre, Waiting, Pool!Reachable
  <2>4. CASE /\ items[s].status = "FREE"
             /\ items'[s].status = "QUEUED" \/ (items'[s].status = "DOWNLOADING" /\ items'[s].ext)
    <3>1. ~Held(s)
      BY <2>4, Types DEF Held, Own
    <3> QED BY <1>1, <2>4, <3>1 DEF Seen, JobsAre, Waiting, InHands, Pool!Reachable
  <2>5. CASE /\ items[s].status = "DOWNLOADING" /\ items[s].ext /\ ~Held(s)
             /\ items'[s].status \in Terminal
    BY <2>5 DEF Seen, JobsAre, InHands, Pool!Reachable
  <2> QED BY <2>0, <2>1, <2>2, <2>3, <2>4, <2>5 DEF Fate
<1>3. /\ J \in SUBSET Slots /\ to \in [J -> {"none", "open", "closed", "outside"}]
      /\ \A j \in J : to[j] \in Pool!Reachable(JobOf(j))
  BY <1>2
<1>4. \A s \in Slots : JobOf(s)' = IF s \in J THEN to[s] ELSE JobOf(s)
  OBVIOUS
<1> HIDE DEF J, to
<1>5. Pool!Command
  BY <1>1, <1>3, <1>4 DEF Pool!Command
<1> QED BY <1>5 DEF PoolStep, Pool!Next

\* No job is touched.
LEMMA StillSimulates ==
  ASSUME items' = items, wk' = wk
  PROVE  PoolStep
<1>1. \A s \in Slots : HolderOf(s)' = HolderOf(s)
  BY DEF HolderOf, Holding
<1>2. \A s \in Slots : JobOf(s)' = JobOf(s)
  BY <1>1 DEF JobOf
<1> QED BY <1>1, <1>2 DEF PoolStep, Pool!vars

\* The program ends.
LEMMA GoneSimulates ==
  ASSUME IInv, IInv', Seen', Gone
  PROVE  PoolStep
<1>1. \A s \in Slots : items'[s].status = "FREE" /\ ~Held(s)'
  BY DEF Gone, FreeItem, NewItem, IdleWorker, Held, Holding
<1>2. \A s \in Slots : JobOf(s)' = "none" /\ HolderOf(s)' = Nobody
  BY <1>1 DEF Seen, JobsAre, HoldersAre
<1>3. Pool!End
  BY <1>2 DEF Pool!End, Pool!Init
<1> QED BY <1>3 DEF PoolStep, Pool!Next

\* The next one starts from what was saved.
LEMMA LoadSimulates ==
  ASSUME IInv, IInv', Seen, Seen', Promises, Load
  PROVE  PoolStep
<1>1. wk' = wk /\ \A s \in Slots : items[s].status = "FREE"
  BY DEF Load, Promises, Empty
<1>2. \A s \in Slots : JobOf(s) = "none" /\ HolderOf(s)' = HolderOf(s)
  BY <1>1 DEF Seen, JobsAre, HoldersAre, Held, Holding
<1>3. \A s \in Slots : items'[s].status \in {"FREE", "QUEUED", "AWAIT_EXTRACT"}
  <2> DEFINE recs == IF disk = Torn THEN {} ELSE disk
  <2>1. PICK home \in [recs -> Slots] :
          items' = [s \in Slots |->
               IF \E r \in recs : home[r] = s
               THEN Loaded(CHOOSE r \in recs : home[r] = s) ELSE FreeItem]
    BY DEF Load
  <2> HIDE DEF recs
  <2>2. \A r : Loaded(r).status \in {"QUEUED", "AWAIT_EXTRACT"}
    BY DEF Loaded, NewItem
  <2>3. FreeItem.status = "FREE"
    BY DEF FreeItem, NewItem
  <2> QED BY <2>1, <2>2, <2>3
<1>4. \A s \in Slots : JobOf(s)' \in {"none", "open", "staged"}
  BY <1>3 DEF Seen, JobsAre, Waiting
<1>5. Pool!Restore
  BY <1>2, <1>4 DEF Pool!Restore
<1> QED BY <1>5 DEF PoolStep, Pool!Next

LEMMA StepSimulates ==
  ASSUME IInv, IInv', Seen, Seen', Promises, [Next]_vars
  PROVE  PoolStep
<1>1. ASSUME NEW w \in Dl, DlStep(w) PROVE PoolStep
  BY <1>1, DlTurn, TurnSimulates, Types DEF Promises
<1>2. ASSUME NEW w \in Workers, AnyStep(w) PROVE PoolStep
  BY <1>2, AnyTurn, TurnSimulates
<1>3. CASE ExStep
  BY <1>3, ExTurn, TurnSimulates, Types
<1>4. CASE UiStep
  BY <1>4, UiCall, CallSimulates
<1>5. CASE SaveDone \/ Stop \/ ExitSave \/ NetFlip \/ SpaceFlip \/ UNCHANGED vars
  BY <1>5, StillSimulates DEF SaveDone, Stop, ExitSave, NetFlip, SpaceFlip, vars
<1>6. CASE Exit \/ Crash
  BY <1>6, GoneSimulates DEF Exit, Crash
<1>7. CASE Load
  BY <1>7, LoadSimulates
<1> QED BY <1>1, <1>2, <1>3, <1>4, <1>5, <1>6, <1>7 DEF Next

LEMMA InitSimulates == Init => Pool!Init
<1> SUFFICES ASSUME Init PROVE Pool!Init
  OBVIOUS
<1>1. \A s \in Slots : items[s].status = "FREE" /\ ~Held(s)
  BY DEF Init, FreeItem, NewItem, IdleWorker, Held, Holding
<1>2. \A s \in Slots : JobOf(s) = "none" /\ HolderOf(s) = Nobody
  BY <1>1, InitHolds, Holders, Jobs_ DEF JobsAre, HoldersAre
<1> QED BY <1>2 DEF Pool!Init

\* The queue implements the pool: a job in a worker's hands stays with it until
\* that worker lets go, whatever is called meanwhile; a staged one waits for the
\* extract worker; what the user moves, nobody holds.
THEOREM Implements == Spec => PoolSpec
<1>1. IInv /\ IInv' /\ Promises /\ [Next]_vars => PoolStep
  BY SeenBoth, StepSimulates
<1> QED BY <1>1, PromisesKept, InitSimulates, PTL DEF Spec, PoolSpec, Pool!Spec, PoolStep

-----------------------------------------------------------------------------
(* Numbers. *)

\* No two items of the list, and no two records of queue.json, share a number;
\* the next one is free.
Numbered ==
  /\ \A s, t \in Slots : Live(s) /\ Live(t) /\ items[s].seq = items[t].seq => s = t
  /\ \A s \in Slots : Live(s) => items[s].seq < gseq
  /\ disk # Torn => \A a, b \in disk : a.seq = b.seq => a = b

\* What most steps do to numbers: none is dealt out.
Undealt ==
  /\ gseq' = gseq
  /\ disk' \in {disk, Torn}
  /\ \A s \in Slots : items'[s].seq = items[s].seq /\ (Live(s)' => Live(s))

LEMMA UndealtKeeps ==
  ASSUME Numbered, Undealt
  PROVE  Numbered'
BY DEF Numbered, Undealt

\* A worker's turn deals out none.
LEMMA TurnDeals ==
  ASSUME IInv, NEW w \in Workers, Turn(w), gseq' = gseq, disk' \in {disk, Torn}
  PROVE  Undealt
<1>1. \A s \in Slots : items'[s].seq = items[s].seq
  BY DEF Turn, SameName
<1>2. ASSUME NEW s \in Slots PROVE Live(s)' => Live(s)
  BY Types DEF Turn, Takes, Keeps, LetsGo, Rests, OthersStay, Stays, Live, Waiting, Own
<1> QED BY <1>1, <1>2 DEF Undealt

\* What a call does to an item it neither adds nor moves.
Touched(a, b) == Edited(a, b) /\ (a.status \in Active /\ a.cancel => b.cancel)
Dealing ==
  \/ \E f \in Files : Add(f)
  \/ ExtAdd
  \/ \E s \in Slots : MoveUp(s) \/ \E bottom \in BOOLEAN : MoveEnd(s, bottom)

LEMMA SameTouched ==
  ASSUME NEW it \in Item
  PROVE  Touched(it, it)
BY DEF Touched, Edited

LEMMA CancelledTouched ==
  ASSUME NEW it \in Item
  PROVE  Touched(it, Cancelled(it))
BY DEF Touched, Edited, Cancelled, Item, Status, Waiting, Active

LEMMA RestartTouched ==
  ASSUME NEW it \in Item, it.status \in Waiting \cup Terminal
  PROVE  /\ Touched(it, Restart(it)) /\ Touched(it, [Restart(it) EXCEPT !.requeue = 0])
<1>1. it.status # "FREE" /\ it.status \notin Active
  BY DEF Waiting, Terminal, Active
<1> QED BY <1>1, RestartIsEdit DEF Touched

LEMMA CallTouches ==
  ASSUME IInv, UiStep
  PROVE  Dealing \/ (gseq' = gseq /\ \A s \in Slots : Touched(items[s], items'[s]))
<1>0. \A s \in Slots : items[s] \in Item
  BY Types
<1>1. CASE BatchBegin \/ BatchEnd
  BY <1>0, <1>1, SameTouched DEF BatchBegin, BatchEnd
<1>2. ASSUME NEW s \in Slots, ExtFinish(s)
      PROVE  gseq' = gseq /\ \A t \in Slots : Touched(items[t], items'[t])
  BY <1>0, <1>2, Types DEF ExtFinish, Set, ctl, Touched, Edited, Item, Status
<1>3. ASSUME NEW s \in Slots, ExtCancel(s)
      PROVE  gseq' = gseq /\ \A t \in Slots : Touched(items[t], items'[t])
  BY <1>0, <1>3, Types DEF ExtCancel, ctl, Touched, Edited, Item
<1>4. ASSUME NEW s \in Slots, Cancel(s)
      PROVE  gseq' = gseq /\ \A t \in Slots : Touched(items[t], items'[t])
  BY <1>0, <1>4, Types, SameTouched, CancelledTouched DEF Cancel
<1>5. CASE CancelAll
  BY <1>0, <1>5, CancelledTouched DEF CancelAll
<1>6. ASSUME NEW p \in Paths, DeletePart(p)
      PROVE  gseq' = gseq /\ \A t \in Slots : Touched(items[t], items'[t])
  <2>1. PICK hits \in SUBSET Slots :
        items' = [s \in Slots |-> IF s \in hits THEN Cancelled(items[s]) ELSE items[s]]
    BY <1>6 DEF DeletePart
  <2> QED BY <1>0, <1>6, <2>1, SameTouched, CancelledTouched DEF DeletePart
<1>7. ASSUME NEW s \in Slots, Retry(s)
      PROVE  gseq' = gseq /\ \A t \in Slots : Touched(items[t], items'[t])
  <2>1. items[s].status \in Waiting \cup Terminal
    BY <1>7 DEF Retry, Waiting, Terminal
  <2> QED BY <1>0, <1>7, <2>1, Types, SameTouched, RestartTouched DEF Retry
<1>8. ASSUME NEW want \in {"FAILED", "CANCELLED", "PAUSED"}, RetryStatus(want)
      PROVE  gseq' = gseq /\ \A t \in Slots : Touched(items[t], items'[t])
  <2>1. want \in Waiting \cup Terminal
    BY DEF Waiting, Terminal
  <2> QED BY <1>0, <1>8, <2>1, SameTouched, RestartTouched DEF RetryStatus
<1>9. ASSUME NEW s \in Slots, NEW kind \in {1, 2}, Requeue(s, kind)
      PROVE  gseq' = gseq /\ \A t \in Slots : Touched(items[t], items'[t])
  <2>0. gseq' = gseq /\ kind \in 0..2
    BY <1>9 DEF Requeue
  <2>1. CASE items' = [items EXCEPT ![s].requeue = kind, ![s].cancel = TRUE]
    BY ZenonT(30), <1>0, <2>0, <2>1, Types DEF Touched, Edited, Item
  <2>2. CASE /\ items[s].status \in Waiting \cup {"FAILED", "CANCELLED"}
             /\ items' = [items EXCEPT ![s] = [Restart(@) EXCEPT !.requeue = 0]]
    <3>1. items[s].status \in Waiting \cup Terminal
      BY <2>2 DEF Terminal
    <3>2. Touched(items[s], items'[s])
      BY <1>0, <2>2, <3>1, RestartTouched, Types
    <3>3. \A t \in Slots : t # s => items'[t] = items[t]
      BY <2>2, Types
    <3> QED BY <1>0, <2>0, <3>2, <3>3, SameTouched
  <2> QED BY <1>9, <2>1, <2>2 DEF Requeue
<1>10. CASE PauseAll
  BY ZenonT(30), <1>0, <1>10 DEF PauseAll, Touched, Edited, Item, Status, Active
<1>11. ASSUME NEW n \in 1..MaxDl, SetMaxDl(n)
       PROVE  gseq' = gseq /\ \A t \in Slots : Touched(items[t], items'[t])
  <2> DEFINE dl      == {s \in Slots : items[s].status = "DOWNLOADING"}
             rank(s) == Cardinality({t \in dl : items[t].seq < items[s].seq})
  <2>1. /\ gseq' = gseq
        /\ items' = [s \in Slots |-> IF s \in dl THEN [items[s] EXCEPT !.pause = (rank(s) >= n)]
                                              ELSE items[s]]
    BY <1>11 DEF SetMaxDl
  <2> HIDE DEF dl, rank
  <2>2. \A s \in Slots : (rank(s) >= n) \in BOOLEAN
    OBVIOUS
  <2> QED BY <1>0, <2>1, <2>2 DEF Touched, Edited, Item
<1>12. CASE ClearFinished
  BY <1>0, <1>12 DEF ClearFinished, ctl, Touched, Edited, Item, Status, Active, Terminal
<1>13. CASE \E s \in Slots : MoveUp(s) \/ \E bottom \in BOOLEAN : MoveEnd(s, bottom)
  BY <1>13 DEF Dealing
<1>14. CASE ExtAdd \/ \E f \in Files : Add(f)
  BY <1>14 DEF Dealing
<1> QED
  BY <1>1, <1>2, <1>3, <1>4, <1>5, <1>6, <1>7, <1>8, <1>9, <1>10, <1>11, <1>12, <1>13, <1>14
  DEF UiStep

\* A new item takes the next number.
LEMMA NewItemDeals ==
  ASSUME IInv, Numbered, (\E f \in Files : Add(f)) \/ ExtAdd
  PROVE  Numbered'
<1>1. /\ gseq' = gseq + 1 /\ gseq \in Nat /\ (disk' = disk \/ disk' = Torn)
      /\ \A s \in Slots : items[s].seq \in Nat
  <2>1. gseq' = gseq + 1 /\ (disk' = disk \/ disk' = Torn)
    BY DEF Add, ExtAdd, SaveLocked, SaveOpen
  <2>2. gseq \in Nat
    BY QueueAssumption DEF IInv, FlagsOK
  <2>3. \A s \in Slots : items[s].seq \in Nat
    BY QueueAssumption, Types DEF Item
  <2> QED BY <2>1, <2>2, <2>3
<1>2. PICK s \in Slots, st \in Status, f \in AllFiles, x \in BOOLEAN :
        items' = [items EXCEPT ![s] = NewItem(st, f, gseq, x)]
  BY DEF Add, ExtAdd, Status, AllFiles
<1>3. items'[s].seq = gseq /\ \A t \in Slots : t # s => items'[t] = items[t]
  BY <1>2, Types DEF NewItem
<1>4. ASSUME NEW t \in Slots, t # s
      PROVE  (Live(t)' <=> Live(t)) /\ items'[t].seq = items[t].seq
  BY <1>3, <1>4 DEF Live
<1>5. \A t \in Slots : Live(t)' => items'[t].seq < gseq'
  BY <1>1, <1>3, <1>4 DEF Numbered
<1>6. \A t, u \in Slots : Live(t)' /\ Live(u)' /\ items'[t].seq = items'[u].seq => t = u
  BY <1>1, <1>3, <1>4 DEF Numbered
<1> QED BY <1>1, <1>5, <1>6 DEF Numbered

\* Two neighbours swap theirs.
LEMMA MoveUpDeals ==
  ASSUME IInv, Numbered, NEW s \in Slots, MoveUp(s)
  PROVE  Numbered'
<1>1. PICK t \in Above(s) :
        items' = [items EXCEPT ![s].seq = items[t].seq, ![t].seq = items[s].seq]
  BY DEF MoveUp
<1>2. /\ t \in Slots /\ Live(t) /\ Live(s) /\ items[t].seq < items[s].seq
      /\ gseq' = gseq /\ disk' \in {disk, Torn}
  BY DEF MoveUp, Above, Order, UiFree, SaveLocked, SaveOpen
<1>3. /\ items'[s].seq = items[t].seq /\ items'[t].seq = items[s].seq /\ s # t
      /\ \A u \in Slots : Live(u)' <=> Live(u)
      /\ \A u \in Slots \ {s, t} : items'[u].seq = items[u].seq
  BY <1>1, <1>2, Types DEF Item, Live
<1> QED BY <1>2, <1>3 DEF Numbered

\* Of two items the upper one has fewer above it.
LEMMA RankRises ==
  ASSUME IInv, NEW s \in Order, NEW t \in Order, NEW u \in Order, t # s, u # s,
         items[t].seq < items[u].seq
  PROVE  Cardinality(Above(t) \ {s}) < Cardinality(Above(u) \ {s})
<1> DEFINE A == Above(t) \ {s}
           B == Above(u) \ {s}
<1>1. \A v \in Order : items[v].seq \in Nat
  BY Types DEF Item, Order
<1>2. IsFiniteSet(B)
  BY QueueAssumption, FS_Subset DEF Order, Above
<1>3. t \in B /\ A \in SUBSET (B \ {t})
  BY <1>1 DEF Above
<1> HIDE DEF A, B
<1>4. /\ IsFiniteSet(B \ {t}) /\ Cardinality(B \ {t}) = Cardinality(B) - 1
      /\ Cardinality(B) \in Nat
  BY <1>2, <1>3, FS_RemoveElement, FS_CardinalityType
<1>5. Cardinality(A) <= Cardinality(B \ {t}) /\ IsFiniteSet(A)
  BY <1>3, <1>4, FS_Subset
<1>6. Cardinality(A) \in Nat
  BY <1>5, FS_CardinalityType
<1> QED BY <1>4, <1>5, <1>6 DEF A, B

\* The list is renumbered in its new order.
LEMMA MoveEndDeals ==
  ASSUME IInv, Numbered, NEW s \in Slots, NEW bottom \in BOOLEAN, MoveEnd(s, bottom)
  PROVE  Numbered'
<1> DEFINE heading == {t \in Order : \A u \in Above(t) \cup {t} : items[u].status \in Active}
           to      == IF bottom THEN Cardinality(Order) ELSE Cardinality(heading) + 1
           rank(t) == Cardinality(Above(t) \ {s}) + 1
           place(t) == IF t = s THEN to ELSE IF rank(t) < to THEN rank(t) ELSE rank(t) + 1
           n       == Cardinality(Order)
<1>1. /\ s \in Order /\ items[s].status \notin Active /\ disk' \in {disk, Torn}
      /\ items' = [t \in Slots |-> IF t \in Order THEN [items[t] EXCEPT !.seq = place(t)]
                                                 ELSE items[t]]
      /\ gseq' = IF gseq <= n THEN n + 1 ELSE gseq
  BY DEF MoveEnd, Order, UiFree, SaveLocked, SaveOpen
<1>2. /\ n \in 1..MaxSeq /\ MaxSeq \in Nat
      /\ to \in 1..n
      /\ \A t \in Order : t # s => rank(t) \in 1..(n - 1)
  <2>1. /\ n \in 1..MaxSeq /\ Cardinality(heading) + 1 \in 1..n
        /\ \A t \in Order : t # s => rank(t) \in 1..(n - 1)
    BY <1>1, Renumbering
  <2> HIDE DEF heading, n, rank
  <2> QED BY <2>1, QueueAssumption DEF n
<1>3. ASSUME NEW t \in Order, NEW u \in Order, t # s, u # s, items[t].seq < items[u].seq
      PROVE  rank(t) < rank(u)
  <2>1. Cardinality(Above(t) \ {s}) < Cardinality(Above(u) \ {s})
    BY <1>1, <1>3, RankRises
  <2>2. /\ IsFiniteSet(Above(t) \ {s}) /\ IsFiniteSet(Above(u) \ {s})
    BY QueueAssumption, FS_Subset DEF Order, Above
  <2>3. Cardinality(Above(t) \ {s}) \in Nat /\ Cardinality(Above(u) \ {s}) \in Nat
    BY <2>2, FS_CardinalityType
  <2> QED BY <2>1, <2>3
<1> HIDE DEF heading, to, rank, n
<1>4. \A t \in Order : place(t) \in 1..n
  BY <1>2
<1>5. ASSUME NEW t \in Order, NEW u \in Order, t # u
      PROVE  place(t) # place(u)
  <2>1. items[t].seq < items[u].seq \/ items[u].seq < items[t].seq
    BY <1>5, Types DEF Numbered, Order, Item
  <2> QED BY <1>2, <1>3, <1>5, <2>1
<1> HIDE DEF place
<1>6. \A t \in Slots : (Live(t)' => t \in Order) /\ (t \in Order => items'[t].seq = place(t))
  BY <1>1, Types DEF Live, Order, Item
<1>7. \A t \in Slots : Live(t)' => items'[t].seq < gseq'
  <2>1. gseq \in Nat /\ n \in Nat
    BY <1>2 DEF IInv, FlagsOK
  <2>2. n < gseq'
    BY <1>1, <2>1
  <2>3. gseq' \in Nat
    BY <1>1, <2>1
  <2> QED BY <1>4, <1>6, <2>1, <2>2, <2>3
<1>8. \A t, u \in Slots : Live(t)' /\ Live(u)' /\ items'[t].seq = items'[u].seq => t = u
  BY <1>5, <1>6
<1> QED BY <1>1, <1>7, <1>8 DEF Numbered

\* The queue is loaded with the numbers it was saved with.
LEMMA LoadDeals ==
  ASSUME IInv, Numbered, Load
  PROVE  Numbered'
<1> DEFINE recs == IF disk = Torn THEN {} ELSE disk
<1>1. PICK home \in [recs -> Slots] :
        /\ \A a, b \in recs : a # b => home[a] # home[b]
        /\ items' = [s \in Slots |->
             IF \E r \in recs : home[r] = s
             THEN Loaded(CHOOSE r \in recs : home[r] = s) ELSE FreeItem]
  BY DEF Load
<1>2. disk' = recs /\ \A r \in recs : r.seq < gseq'
  BY DEF Load
<1>3. \A a, b \in recs : a.seq = b.seq => a = b
  BY DEF Numbered
<1> HIDE DEF recs
<1>4. FreeItem.status = "FREE" /\ \A r : Loaded(r).seq = r.seq
  BY DEF FreeItem, Loaded, NewItem
<1>5. ASSUME NEW s \in Slots, Live(s)'
      PROVE  \E r \in recs : home[r] = s /\ items'[s].seq = r.seq
  BY <1>1, <1>4, <1>5 DEF Live
<1>6. \A s \in Slots : Live(s)' => items'[s].seq < gseq'
  BY <1>2, <1>5
<1>7. \A s, t \in Slots : Live(s)' /\ Live(t)' /\ items'[s].seq = items'[t].seq => s = t
  BY <1>3, <1>5
<1> QED BY <1>2, <1>3, <1>6, <1>7 DEF Numbered

\* What is saved has the numbers of the list.
LEMMA SaveDeals ==
  ASSUME Numbered, SaveDone
  PROVE  Numbered'
<1>1. /\ disk' \in {PendingRecords, {}} /\ gseq' = gseq /\ items' = items
  BY DEF SaveDone, ctl
<1>2. ASSUME NEW r \in PendingRecords
      PROVE  \E s \in Slots :
        /\ Live(s) /\ r.seq = items[s].seq
        /\ r = [file |-> items[s].file, seq |-> items[s].seq,
                down |-> items[s].status \in {"VERIFYING", "AWAIT_EXTRACT", "EXTRACTING"}]
  <2>1. PICK s \in {t \in Slots : InQueue(t)} :
        r = [file |-> items[s].file, seq |-> items[s].seq,
             down |-> items[s].status \in {"VERIFYING", "AWAIT_EXTRACT", "EXTRACTING"}]
    BY DEF PendingRecords
  <2>2. Live(s)
    BY DEF InQueue, Live, Pending, Waiting, Active
  <2> QED BY <2>1, <2>2
<1>3. \A a, b \in PendingRecords : a.seq = b.seq => a = b
  BY <1>2 DEF Numbered
<1> QED BY <1>1, <1>3 DEF Numbered, Live

LEMMA NumberedStep ==
  ASSUME IInv, Promises, Numbered, [Next]_vars
  PROVE  Numbered'
<1> USE DEF ctl
<1>1. ASSUME NEW w \in Dl, DlStep(w) PROVE Numbered'
  <2>1. gseq' = gseq /\ disk' = disk
    BY <1>1 DEF DlStep, Pick, Rest, Wake, MeasureShort, Unclaim, MeasureFits, Begin, Receive,
       Transferred, SettleStop, SettleCancel, SettleShort, SettleWhole, Park, VerifyStopped, Verified,
       Await, Move
  <2> QED BY <1>1, <2>1, DlTurn, TurnDeals, UndealtKeeps, Types DEF Promises
<1>2. ASSUME NEW w \in Workers, AnyStep(w) PROVE Numbered'
  <2>1. gseq' = gseq /\ disk' \in {disk, Torn}
    BY <1>2 DEF AnyStep, Fail, MoveFailed, CancelRead, Drop, GiveBack, Log, Done, SaveLocked, SaveOpen
  <2> QED BY <1>2, <2>1, AnyTurn, TurnDeals, UndealtKeeps
<1>3. CASE ExStep
  <2>1. gseq' = gseq /\ disk' = disk
    BY <1>3 DEF ExStep, ExPick, UnpackStop, UnpackCancel, Unpacked, UnpackFailed, KeepRaw
  <2> QED BY <1>3, <2>1, ExTurn, TurnDeals, UndealtKeeps, Types
<1>4. CASE UiStep
  <2>1. CASE Dealing
    BY <2>1, NewItemDeals, MoveUpDeals, MoveEndDeals DEF Dealing
  <2>2. CASE gseq' = gseq /\ \A s \in Slots : Touched(items[s], items'[s])
    <3>1. disk' \in {disk, Torn}
      BY <1>4 DEF UiStep, Add, BatchBegin, BatchEnd, ExtAdd, ExtFinish, ExtCancel, Cancel, Retry,
         MoveUp, Requeue, MoveEnd, CancelAll, PauseAll, ClearFinished, DeletePart, RetryStatus,
         SetMaxDl, SaveIf, SaveLocked, SaveOpen, Quiet
    <3>2. \A s \in Slots : items'[s].seq = items[s].seq /\ (Live(s)' => Live(s))
      BY <2>2 DEF Touched, Edited, Live
    <3> QED BY <2>2, <3>1, <3>2, UndealtKeeps DEF Undealt
  <2> QED BY <1>4, <2>1, <2>2, CallTouches
<1>5. CASE Stop \/ ExitSave \/ NetFlip \/ SpaceFlip \/ UNCHANGED vars
  BY <1>5, UndealtKeeps DEF Stop, ExitSave, SaveLocked, SaveOpen, NetFlip, SpaceFlip, vars, Undealt, Live
<1>6. CASE Exit \/ Crash
  BY <1>6 DEF Exit, Crash, Gone, FreeItem, NewItem, Numbered, Live
<1> QED BY <1>1, <1>2, <1>3, <1>4, <1>5, <1>6, SaveDeals, LoadDeals DEF Next

LEMMA NumberedInit == Init => Numbered
BY DEF Init, FreeItem, NewItem, Numbered, Live

\* No two items of the list share a number, whatever is added, moved and loaded.
THEOREM NumbersDiffer == Spec => []Numbered
BY PromisesKept, NumberedInit, NumberedStep, PTL DEF Spec

-----------------------------------------------------------------------------
(* What is in the .part files. *)

\* What may be installed for a file: the right bytes, as far as anything is
\* known about them and the program has seen the download end itself.
Sound(f, c) ==
  \/ c = "none"
  \/ /\ f \in Hashed /\ "start" \notin Ops => c = "good"
     /\ f \in Sized => c \in Whole

\* A worker past the verification, and one whose .part holds a whole download.
Landed    == {"await", "move", "unpack", "unrar", "raw"}
Filled(w) == wk[w].pc \in Landed \cup {"verify"} \/ (wk[w].pc = "settle" /\ wk[w].ok)

WorkerFile(w) ==
  Holding(w) /\ wk[w].path # <<>> =>
    /\ wk[w].path = Path(wk[w].slot)
    /\ wk[w].pc \in Landed => Sound(wk[w].path[1], At(wk[w].path))
    /\ Filled(w) /\ ~Mine(w).cancel => At(wk[w].path) # "none"
ItemFile(s) ==
  /\ items[s].status = "AWAIT_EXTRACT" =>
       /\ Sound(items[s].file, At(Path(s)))
       /\ ~items[s].cancel => At(Path(s)) # "none"
  /\ "move" \notin Ops /\ items[s].status \in {"DONE", "SAVED"} /\ ~items[s].ext =>
       At(Path(s)) = "none"

FilesInv ==
  /\ \A w \in Workers : WorkerFile(w)
  /\ \A s \in Slots : ItemFile(s)
  /\ \A f \in Files : Sound(f, lib[f])

\* What a worker's step does to files: it writes the .part of the item it holds
\* and no other, and leaves that item, and itself, in order.
FileTurn(w) ==
  /\ \A v \in Workers \ {w} : wk'[v] = wk[v]
  /\ \A t \in Slots : SameName(t)
  /\ \A t \in Slots : (Holding(w) /\ t = wk[w].slot)
       \/ /\ items'[t].cancel = items[t].cancel
          /\ Stays(t) \/ items'[t].status \in {"DOWNLOADING", "EXTRACTING"}
  /\ part' = part \/ (Holding(w) /\ \E c : SetPart(Path(wk[w].slot), c))
  /\ \A f \in Files : lib'[f] = lib[f] \/ Sound(f, lib'[f])
  /\ WorkerFile(w)'
  /\ \A t \in Slots : Holding(w) /\ t = wk[w].slot => ItemFile(t)'

\* A write of one .part leaves the others.
LEMMA WriteOne ==
  ASSUME IInv, NEW p \in Paths, NEW c, SetPart(p, c)
  PROVE  /\ part'[p[1]][p[2]] = c
         /\ \A q \in Paths : q # p => part'[q[1]][q[2]] = part[q[1]][q[2]]
<1>1. p = <<p[1], p[2]>> /\ p[1] \in AllFiles /\ p[2] \in 1..MaxSeq
  BY DEF Paths
<1>2. part \in [AllFiles -> [1..MaxSeq -> Content]]
  BY DEF IInv, FilesOK
<1>3. part' = [part EXCEPT ![p[1]] = [part[p[1]] EXCEPT ![p[2]] = c]]
  BY DEF SetPart
<1>4. part'[p[1]][p[2]] = c
  BY <1>1, <1>2, <1>3
<1>5. ASSUME NEW q \in Paths, q # p
      PROVE  part'[q[1]][q[2]] = part[q[1]][q[2]]
  <2>1. q = <<q[1], q[2]>> /\ q[1] \in AllFiles /\ q[2] \in 1..MaxSeq
    BY DEF Paths
  <2>2. q[1] # p[1] \/ q[2] # p[2]
    BY <1>1, <1>5, <2>1
  <2> QED BY <1>1, <1>2, <1>3, <2>1, <2>2
<1> QED BY <1>4, <1>5

\* Items of the list have .part files of their own.
LEMMA OwnPath ==
  ASSUME IInv, Numbered, NEW s \in Slots, Live(s)
  PROVE  /\ Path(s) \in Paths
         /\ \A t \in Slots : Live(t) /\ Path(t) = Path(s) => t = s
<1>1. Path(s) \in Paths
  BY Types DEF IInv, ItemsInv, Listed, Item, Path, Paths
<1>2. ASSUME NEW t \in Slots, Live(t), Path(t) = Path(s)
      PROVE  t = s
  BY <1>2 DEF Path, Numbered
<1> QED BY <1>1, <1>2

LEMMA FileTurnKeeps ==
  ASSUME IInv, Numbered, FilesInv, NEW w \in Workers, FileTurn(w)
  PROVE  FilesInv'
<1> DEFINE s == wk[w].slot
<1>1. ASSUME NEW v \in Workers PROVE WorkerFile(v)'
  <2>1. CASE v = w
    BY <2>1 DEF FileTurn
  <2>2. CASE v # w
    <3>1. wk'[v] = wk[v]
      BY <2>2 DEF FileTurn
    <3> SUFFICES ASSUME Holding(v), wk[v].path # <<>>
                 PROVE  WorkerFile(v)'
      BY <3>1 DEF WorkerFile, Holding
    <3> DEFINE t == wk[v].slot
               p == wk[v].path
    <3>2. /\ t \in Slots /\ Live(t) /\ p = Path(t) /\ p \in Paths
          /\ Holding(w) => t # s /\ s \in Slots /\ Live(s)
      BY <2>2, Types, OwnPath DEF FilesInv, WorkerFile, Live, Own
    <3>3. part'[p[1]][p[2]] = part[p[1]][p[2]]
      <4>1. CASE part' = part
        BY <4>1
      <4>2. ASSUME Holding(w), NEW c, SetPart(Path(s), c)
            PROVE  part'[p[1]][p[2]] = part[p[1]][p[2]]
        <5>1. Path(s) \in Paths /\ p # Path(s)
          BY <3>2, <4>2, OwnPath
        <5> QED BY <3>2, <4>2, <5>1, WriteOne
      <4> QED BY <4>1, <4>2 DEF FileTurn
    <3>4. /\ items'[t].file = items[t].file /\ items'[t].seq = items[t].seq
          /\ items'[t].cancel = items[t].cancel
      BY <3>2 DEF FileTurn, SameName
    <3> QED BY <3>1, <3>2, <3>3, <3>4 DEF FilesInv, WorkerFile, Filled, Mine, At, Path, Holding
  <2> QED BY <2>1, <2>2
<1>2. ASSUME NEW t \in Slots PROVE ItemFile(t)'
  <2>1. CASE Holding(w) /\ t = s
    BY <2>1 DEF FileTurn
  <2>2. CASE ~(Holding(w) /\ t = s)
    <3>1. /\ items'[t].file = items[t].file /\ items'[t].seq = items[t].seq
          /\ items'[t].ext = items[t].ext /\ items'[t].cancel = items[t].cancel
          /\ items'[t].status = items[t].status \/ items'[t].status \in {"DOWNLOADING", "EXTRACTING"}
      BY <2>2 DEF FileTurn, SameName, Stays
    <3> SUFFICES ASSUME items[t].status \in {"AWAIT_EXTRACT", "DONE", "SAVED"},
                        items'[t].status = items[t].status
                 PROVE  ItemFile(t)'
      BY <3>1 DEF ItemFile
    <3> DEFINE p == Path(t)
    <3>2. Live(t) /\ p \in Paths
      BY OwnPath DEF Live
    <3>3. part'[p[1]][p[2]] = part[p[1]][p[2]]
      <4>1. CASE part' = part
        BY <4>1
      <4>2. ASSUME Holding(w), NEW c, SetPart(Path(s), c)
            PROVE  part'[p[1]][p[2]] = part[p[1]][p[2]]
        <5>1. s \in Slots /\ Live(s) /\ t # s
          BY <2>2, <4>2, Types DEF Live, Own
        <5>2. Path(s) \in Paths /\ p # Path(s)
          BY <3>2, <5>1, OwnPath
        <5> QED BY <3>2, <4>2, <5>2, WriteOne
      <4> QED BY <4>1, <4>2 DEF FileTurn
    <3>4. Path(t)' = Path(t)
      BY <3>1 DEF Path
    <3> QED BY <3>1, <3>3, <3>4 DEF FilesInv, ItemFile, At
  <2> QED BY <2>1, <2>2
<1>3. \A f \in Files : Sound(f, lib[f])'
  BY DEF FilesInv, FileTurn, Sound
<1> QED BY <1>1, <1>2, <1>3 DEF FilesInv

-----------------------------------------------------------------------------
(* Every worker's step is one of those. *)

LEMMA PathOf ==
  ASSUME IInv, FilesInv, NEW w \in Workers, Holding(w), wk[w].pc \in Past
  PROVE  wk[w].path = Path(wk[w].slot) /\ wk[w].path \in Paths /\ wk[w].path # <<>>
BY DEF IInv, CrewInv, PathKnown, Past, FilesInv, WorkerFile, Paths

\* A step of the worker's own: what it must have done to go on with its item.
LEMMA OwnStep ==
  ASSUME IInv, FilesInv, NEW w \in Workers, Holding(w),
         NEW c \in Pcs \ {"idle", "nap", "settle"}, Goto(w, c),
         NEW b, Edited(items[wk[w].slot], b), items' = [items EXCEPT ![wk[w].slot] = b],
         part' = part \/ (wk[w].pc \in Past /\ \E x : SetPart(wk[w].path, x)),
         \A f \in Files : lib'[f] = lib[f] \/ Sound(f, lib'[f]),
         c \in Landed \/ b.status = "AWAIT_EXTRACT" =>
           wk[w].pc \in Past /\ part' = part /\ Sound(wk[w].path[1], At(wk[w].path)),
         c \in Landed \cup {"verify"} \/ b.status = "AWAIT_EXTRACT" =>
           part' = part /\ (b.cancel \/ At(wk[w].path) # "none"),
         b.status \in {"DONE", "SAVED"} => wk[w].pc \in Past /\ SetPart(wk[w].path, "none")
  PROVE  FileTurn(w)
<1> DEFINE p == wk[w].path
<1> PICK s \in Slots : s = wk[w].slot
  BY Types
<1>1. /\ wk'[w].pc = c /\ wk'[w].slot = s /\ wk'[w].path = p
      /\ \A v \in Workers \ {w} : wk'[v] = wk[v]
  BY Types DEF Goto, Worker
<1>2. /\ items'[s] = b /\ \A t \in Slots \ {s} : items'[t] = items[t]
      /\ b.file = items[s].file /\ b.seq = items[s].seq /\ b.ext = items[s].ext
  BY <1>1, Types DEF Edited
<1>3. p # <<>> => p = Path(s)
  BY DEF FilesInv, WorkerFile
<1>4. wk[w].pc \in Past => p \in Paths /\ p = Path(s)
  BY PathOf
<1>5. part' = part \/ \E x : SetPart(Path(s), x)
  BY <1>4
<1>6. Path(s)' = Path(s)
  BY <1>2 DEF Path
<1>7. WorkerFile(w)'
  <2> SUFFICES ASSUME p # <<>>
               PROVE  /\ c \in Landed => Sound(p[1], part'[p[1]][p[2]])
                      /\ c \in Landed \cup {"verify"} /\ ~b.cancel => part'[p[1]][p[2]] # "none"
    BY <1>1, <1>2, <1>3 DEF WorkerFile, Filled, Mine, At, Path
  <2> QED BY DEF At
<1>8. ItemFile(s)'
  <2>1. CASE b.status = "AWAIT_EXTRACT"
    <3>1. /\ p = Path(s) /\ part' = part
          /\ Sound(p[1], At(p)) /\ (b.cancel \/ At(p) # "none")
      BY <1>4, <2>1
    <3>2. p[1] = b.file
      BY <1>2, <3>1 DEF Path
    <3>3. At(Path(s))' = At(p)
      BY <1>6, <3>1 DEF At
    <3>4. Sound(b.file, At(Path(s))') /\ (b.cancel \/ At(Path(s))' # "none")
      BY <3>1, <3>2, <3>3
    <3> QED BY <1>2, <2>1, <3>4 DEF ItemFile, Sound
  <2>2. CASE b.status \in {"DONE", "SAVED"}
    <3>1. part'[p[1]][p[2]] = "none" /\ p = Path(s)
      BY <1>4, <2>2, WriteOne
    <3>2. At(Path(s))' = "none"
      BY <1>6, <3>1 DEF At
    <3> QED BY <1>2, <2>2, <3>2 DEF ItemFile
  <2>3. CASE b.status \notin {"AWAIT_EXTRACT", "DONE", "SAVED"}
    BY <1>2, <2>3 DEF ItemFile
  <2> QED BY <2>1, <2>2, <2>3
<1> QED BY <1>1, <1>2, <1>5, <1>8, <1>7 DEF FileTurn, SameName, Stays

\* Its item untouched.
LEMMA OwnGoto ==
  ASSUME IInv, FilesInv, NEW w \in Workers, Holding(w),
         NEW c \in Pcs \ {"idle", "nap", "settle"}, Goto(w, c), items' = items, lib' = lib,
         part' = part \/ (wk[w].pc \in Past /\ \E x : SetPart(wk[w].path, x)),
         c \in Landed =>
           wk[w].pc \in Past /\ part' = part /\ Sound(wk[w].path[1], At(wk[w].path)),
         c \in Landed \cup {"verify"} =>
           part' = part /\ (Mine(w).cancel \/ At(wk[w].path) # "none")
  PROVE  FileTurn(w)
<1> DEFINE b == items[wk[w].slot]
<1>1. wk[w].slot \in Slots /\ b \in Item /\ b.status \in Own(w)
  BY Types
<1>2. Edited(b, b) /\ items' = [items EXCEPT ![wk[w].slot] = b]
  BY <1>1, Types DEF Edited
<1>3. b.status \notin {"AWAIT_EXTRACT", "DONE", "SAVED"}
  BY <1>1 DEF Own
<1> HIDE DEF b
<1> QED BY <1>2, <1>3, OwnStep DEF b, Mine

\* Its item given an outcome other than an installed file.
LEMMA OwnPublish ==
  ASSUME IInv, FilesInv, NEW w \in Workers, Holding(w),
         NEW c \in Published, Goto(w, c), NEW st \in Status \ {"DONE", "SAVED"},
         Set(wk[w].slot, st), lib' = lib,
         part' = part \/ (wk[w].pc \in Past /\ \E x : SetPart(wk[w].path, x)),
         st = "AWAIT_EXTRACT" =>
           /\ wk[w].pc \in Past /\ part' = part /\ Sound(wk[w].path[1], At(wk[w].path))
           /\ Mine(w).cancel \/ At(wk[w].path) # "none"
  PROVE  FileTurn(w)
<1> DEFINE a == items[wk[w].slot]
           b == [a EXCEPT !.status = st]
<1>1. wk[w].slot \in Slots /\ a \in Item /\ a.status # "FREE"
  BY Types DEF Own
<1>2. Edited(a, b) /\ b.status = st /\ b.cancel = a.cancel
  BY <1>1 DEF Edited, Item
<1>3. items' = [items EXCEPT ![wk[w].slot] = b]
  BY DEF Set
<1>4. c \in Pcs \ {"idle", "nap", "settle"} /\ c \notin Landed \cup {"verify"}
  BY DEF Published, Pcs, Landed
<1> HIDE DEF b
<1> QED BY <1>2, <1>3, <1>4, OwnStep DEF Mine

\* A sound .part moved into the library.
LEMMA OwnInstall ==
  ASSUME IInv, FilesInv, NEW w \in Workers, wk[w].pc \in Landed,
         NEW c \in Published, Goto(w, c), NEW st \in {"DONE", "SAVED"}, Install(w, st)
  PROVE  FileTurn(w)
<1> DEFINE a == items[wk[w].slot]
           b == [a EXCEPT !.status = st]
<1>0. Holding(w) /\ wk[w].pc \in Past
  BY DEF Landed, Holding, Past, Pcs
<1>1. wk[w].slot \in Slots /\ a \in Item /\ a.status # "FREE"
  BY <1>0, Types DEF Own
<1>2. Edited(a, b) /\ b.status = st
  BY <1>1 DEF Edited, Item, Status
<1>3. items' = [items EXCEPT ![wk[w].slot] = b]
  BY DEF Set, Install
<1>4. c \in Pcs \ {"idle", "nap", "settle"} /\ c \notin Landed \cup {"verify"}
  BY DEF Published, Pcs, Landed
<1>5. wk[w].path \in Paths /\ Sound(wk[w].path[1], At(wk[w].path))
  BY <1>0, PathOf DEF FilesInv, WorkerFile
<1>6. \A f \in Files : lib'[f] = lib[f] \/ Sound(f, lib'[f])
  BY <1>5 DEF Install, IInv, FilesOK
<1>7. SetPart(wk[w].path, "none")
  BY DEF Install
<1> HIDE DEF b
<1> QED BY <1>0, <1>2, <1>3, <1>4, <1>6, <1>7, OwnStep

LEMMA RestingFiles ==
  ASSUME IInv, NEW w \in Workers, (w \in Dl /\ (Rest(w) \/ Wake(w))) \/ Log(w) \/ Done(w)
  PROVE  FileTurn(w)
<1>1. ~Holding(w) /\ part' = part /\ lib' = lib
  BY DEF Rest, Wake, Log, Done, PcIs, Holding, fs
<1>2. wk'[w].pc \in {"idle", "nap", "done"} /\ \A v \in Workers \ {w} : wk'[v] = wk[v]
  BY Types DEF Rest, Wake, Log, Done, PcIs, Goto, Worker, IdleWorker
<1>3. items' = items \/ ForgetNoSpace
  BY DEF Rest, Wake, Log, Done
<1>4. \A t \in Slots : SameName(t) /\ Stays(t) /\ items'[t].cancel = items[t].cancel
  BY <1>3, Types DEF ForgetNoSpace, SameName, Stays, Item
<1> QED BY <1>1, <1>2, <1>4 DEF FileTurn, WorkerFile, Holding

LEMMA UnclaimFiles ==
  ASSUME IInv, Early, NEW w \in Dl, Unclaim(w)
  PROVE  FileTurn(w)
<1> PICK s \in Slots : s = wk[w].slot
  BY Types DEF Unclaim, PcIs, Holding
<1>1. /\ w \in Workers /\ wk[w].pc = "unclaim" /\ Holding(w)
      /\ items[s].status = "DOWNLOADING" /\ wk[w].prev \in Waiting
  BY Types DEF Unclaim, PcIs, Holding, Early, Mine, Worker
<1>2. /\ wk'[w].pc = "idle" /\ \A v \in Workers \ {w} : wk'[v] = wk[v]
      /\ part' = part /\ lib' = lib
  BY <1>1, Types DEF Unclaim, IdleWorker, fs
<1>3. items' = [items EXCEPT ![s].nospace = TRUE,
                             ![s].status = IF @ = "DOWNLOADING" THEN wk[w].prev ELSE @]
  BY DEF Unclaim
<1>4. /\ items'[s].status = wk[w].prev /\ \A t \in Slots \ {s} : items'[t] = items[t]
      /\ \A t \in Slots : SameName(t)
  BY <1>1, <1>3, Types DEF Item, SameName
<1> QED BY <1>1, <1>2, <1>4 DEF FileTurn, WorkerFile, Holding, ItemFile, Waiting, Stays

LEMMA PickFiles ==
  ASSUME IInv, NEW w \in Dl, Pick(w)
  PROVE  FileTurn(w)
<1> PICK s \in Oldest(Runnable) :
      /\ items' = [items EXCEPT ![s].status = "DOWNLOADING", ![s].pause = FALSE]
      /\ wk' = [wk EXCEPT ![w] = [IdleWorker EXCEPT !.pc = "measure", !.slot = s,
                                                    !.prev = items[s].status]]
  BY DEF Pick
<1>1. s \in Slots /\ w \in Workers /\ ~Holding(w) /\ part' = part /\ lib' = lib
  BY Types DEF Oldest, Runnable, Pick, PcIs, Holding, fs
<1>2. /\ wk'[w].path = <<>> /\ \A v \in Workers \ {w} : wk'[v] = wk[v]
  BY <1>1, Types DEF IdleWorker
<1>3. /\ items'[s].status = "DOWNLOADING" /\ items'[s].cancel = items[s].cancel
      /\ \A t \in Slots \ {s} : items'[t] = items[t]
      /\ \A t \in Slots : SameName(t)
  BY <1>1, Types DEF Item, SameName
<1> QED BY <1>1, <1>2, <1>3 DEF FileTurn, WorkerFile, Stays

LEMMA ExPickFiles ==
  ASSUME IInv, Numbered, FilesInv, ExPick
  PROVE  FileTurn(Ex)
<1> PICK s \in Oldest(Extractable) :
      /\ Set(s, "EXTRACTING")
      /\ wk' = [wk EXCEPT ![Ex] = [IdleWorker EXCEPT !.pc = "unpack", !.slot = s,
                                                     !.path = Path(s)]]
  BY DEF ExPick
<1>1. /\ s \in Slots /\ items[s].status = "AWAIT_EXTRACT" /\ Ex \in Workers /\ ~Holding(Ex)
      /\ part' = part /\ lib' = lib
  BY Types DEF Oldest, Extractable, ExPick, PcIs, Holding, fs
<1>2. /\ wk'[Ex].path = Path(s) /\ wk'[Ex].slot = s /\ wk'[Ex].pc = "unpack"
      /\ \A v \in Workers \ {Ex} : wk'[v] = wk[v]
  BY <1>1, Types DEF IdleWorker
<1>3. /\ items'[s].status = "EXTRACTING" /\ items'[s].cancel = items[s].cancel
      /\ \A t \in Slots \ {s} : items'[t] = items[t]
      /\ \A t \in Slots : SameName(t)
  BY <1>1, Types DEF Set, Item, SameName
<1>4. Sound(items[s].file, At(Path(s))) /\ (~items[s].cancel => At(Path(s)) # "none")
  BY <1>1 DEF FilesInv, ItemFile
<1>5. WorkerFile(Ex)'
  BY <1>1, <1>2, <1>3, <1>4 DEF WorkerFile, Path, At, Mine, SameName
<1> QED BY <1>1, <1>2, <1>3, <1>5 DEF FileTurn, Stays

\* Three steps that set a local of the worker's, or none.
LEMMA LocalFiles ==
  ASSUME IInv, FilesInv, NEW w \in Dl, Begin(w) \/ Receive(w) \/ Transferred(w)
  PROVE  FileTurn(w)
<1> PICK s \in Slots : s = wk[w].slot
  BY Types DEF Begin, Receive, Transferred, PcIs, Holding
<1>1. /\ w \in Workers /\ wk[w].pc \in {"begin", "xfer"} /\ Holding(w)
      /\ items' = items /\ lib' = lib /\ items[s].status \in Own(w)
  BY Types DEF Begin, Transferred, Receive, PcIs, Holding
<1>2. Path(s)' = Path(s)
  BY <1>1 DEF Path
<1>3. \A t \in Slots : SameName(t) /\ Stays(t) /\ items'[t].cancel = items[t].cancel
  BY <1>1 DEF SameName, Stays
<1>4. ItemFile(s)'
  BY <1>1 DEF ItemFile, Own
<1>5. CASE Begin(w)
  <2>1. PICK pc \in {"xfer", "fail"} : wk' = [wk EXCEPT ![w].path = Path(s), ![w].pc = pc]
    BY <1>5 DEF Begin
  <2>2. /\ wk'[w].pc = pc /\ wk'[w].path = Path(s) /\ wk'[w].slot = s
        /\ \A v \in Workers \ {w} : wk'[v] = wk[v]
    BY <1>1, <2>1, Types DEF Worker
  <2>3. part' = part \/ SetPart(Path(s), "none")
    BY <1>5 DEF Begin
  <2>4. WorkerFile(w)'
    BY <1>2, <2>2 DEF WorkerFile, Filled, Landed
  <2> QED BY <1>1, <1>3, <1>4, <2>2, <2>3, <2>4 DEF FileTurn
<1>6. CASE wk[w].pc = "xfer"
  <2>1. wk[w].path = Path(s) /\ Path(s) \in Paths
    BY <1>1, <1>6, PathOf DEF Past, Pcs
  <2>2. CASE Receive(w)
    <3>1. wk' = wk /\ SetPart(Path(s), "some")
      BY <2>1, <2>2 DEF Receive
    <3>2. WorkerFile(w)'
      BY <1>2, <1>6, <2>1, <3>1 DEF WorkerFile, Filled, Landed
    <3> QED BY <1>1, <1>3, <1>4, <3>1, <3>2 DEF FileTurn
  <2>3. CASE Transferred(w)
    <3>1. PICK o \in Outcomes(w) : /\ SetPart(Path(s), o[1])
                                   /\ wk' = [wk EXCEPT ![w].ok = o[2], ![w].pc = "settle"]
      BY <2>1, <2>3 DEF Transferred
    <3>2. o[2] => o[1] # "none"
      <4>1. CASE wk[w].path[1] = NoFile
        <5>1. o = <<At(wk[w].path), FALSE>>
          BY <4>1 DEF Outcomes
        <5> QED BY <5>1
      <4>2. CASE wk[w].path[1] # NoFile
        BY <4>2 DEF Outcomes
      <4> QED BY <4>1, <4>2
    <3>3. /\ wk'[w].pc = "settle" /\ wk'[w].path = Path(s) /\ wk'[w].slot = s /\ wk'[w].ok = o[2]
          /\ \A v \in Workers \ {w} : wk'[v] = wk[v]
      BY <1>1, <2>1, <3>1, Types DEF Worker
    <3>5. WorkerFile(w)'
      <4>1. At(wk[w].path)' = o[1]
        BY <1>2, <2>1, <3>1, <3>3, WriteOne DEF At
      <4> QED BY <1>2, <3>2, <3>3, <4>1 DEF WorkerFile, Filled, Landed
    <3> QED BY <1>1, <1>3, <1>4, <3>1, <3>3, <3>5 DEF FileTurn
  <2> QED BY <2>2, <2>3, <1>5
<1> QED BY <1>5, <1>6 DEF Receive, Transferred, PcIs

LEMMA SettleFiles ==
  ASSUME IInv, FilesInv, NEW w \in Dl, SettleShort(w) \/ SettleWhole(w)
  PROVE  FileTurn(w)
<1> DEFINE it  == items[wk[w].slot]
           un  == [it EXCEPT !.pause = FALSE]
           ver == [it EXCEPT !.pause = FALSE, !.status = "VERIFYING"]
           p   == wk[w].path
<1>1. w \in Workers /\ wk[w].pc = "settle" /\ Holding(w) /\ wk[w].pc \in Past /\ lib' = lib
  BY Types DEF SettleShort, SettleWhole, PcIs, Holding, Past, Pcs, fs
<1>2. wk[w].slot \in Slots /\ it \in Item /\ it.status \in Own(w) /\ w # Ex
  BY <1>1, Types
<1>3. /\ Edited(it, un) /\ un.status \in Own(w) /\ un.cancel = it.cancel
      /\ Edited(it, ver) /\ ver.status \in Own(w) /\ ver.cancel = it.cancel
  BY <1>2 DEF Edited, Item, Own, Status
<1>4. p = Path(wk[w].slot) /\ p \in Paths /\ p # <<>>
  BY <1>1, PathOf
<1>5. ~it.cancel /\ wk[w].ok => At(p) # "none"
  BY <1>1, <1>4 DEF FilesInv, WorkerFile, Filled, Mine
<1>6. \A b : b.status \in Own(w) => b.status \notin {"AWAIT_EXTRACT", "DONE", "SAVED"}
  BY DEF Own
<1>7. items' = [items EXCEPT ![wk[w].slot] = un] \/ items' = [items EXCEPT ![wk[w].slot] = ver]
  BY <1>2, Types DEF SettleShort, SettleWhole, Unpause
<1> HIDE DEF un, ver, it
<1>8. CASE SettleShort(w)
  <2>1. PICK c \in {"park", "fail"} : Goto(w, c)
    BY <1>8 DEF SettleShort
  <2>2. c \in Pcs \ {"idle", "nap", "settle"} /\ c \notin Landed \cup {"verify"} /\ part' = part
    BY <1>8 DEF SettleShort, Pcs, Landed, fs
  <2> QED BY <1>1, <1>3, <1>6, <1>7, <2>1, <2>2, OwnStep DEF it
<1>9. CASE SettleWhole(w)
  <2>1. ~it.cancel /\ (wk[w].ok \/ (p[1] \in Sized /\ At(p) \in Whole))
    BY <1>9 DEF SettleWhole, Arrived, Mine, Whole_, it
  <2>2. At(p) # "none"
    BY <1>5, <2>1 DEF Whole
  <2>3. CASE p[1] \in Sized /\ At(p) \notin Whole
    <3>1. Goto(w, "fail") /\ SetPart(p, "none")
      BY <1>9, <2>3 DEF SettleWhole, Whole_
    <3>2. "fail" \in Pcs \ {"idle", "nap", "settle"} /\ "fail" \notin Landed \cup {"verify"}
      BY DEF Pcs, Landed
    <3> QED BY <1>1, <1>3, <1>6, <1>7, <3>1, <3>2, OwnStep DEF it
  <2>4. CASE p[1] \in Sized => At(p) \in Whole
    <3>1. part' = part /\ Goto(w, IF p[1] \in Hashed THEN "verify" ELSE Landing(p[1]))
      BY <1>9, <2>4 DEF SettleWhole, Whole_
    <3>2. p[1] \notin Hashed => Sound(p[1], At(p))
      BY <2>4 DEF Sound
    <3>3. PICK c \in {"verify", "await", "move"} :
            Goto(w, c) /\ (c # "verify" => p[1] \notin Hashed)
      BY <3>1 DEF Landing
    <3>4. c \in Pcs \ {"idle", "nap", "settle"} /\ (c \in Landed => c # "verify")
      BY DEF Pcs, Landed
    <3> QED BY <1>1, <1>3, <1>6, <1>7, <2>2, <3>1, <3>2, <3>3, <3>4, OwnStep DEF it
  <2> QED BY <2>3, <2>4
<1> QED BY <1>8, <1>9

LEMMA VerifyFiles ==
  ASSUME IInv, FilesInv, NEW w \in Dl, VerifyStopped(w) \/ Verified(w)
  PROVE  FileTurn(w)
<1>1. w \in Workers /\ wk[w].pc = "verify" /\ Holding(w) /\ wk[w].pc \in Past /\ items' = items /\ lib' = lib
  BY Types DEF VerifyStopped, Verified, PcIs, Holding, Past, Pcs, fs
<1>2. CASE VerifyStopped(w)
  <2>1. PICK c \in {"cancel", "fail"} : Goto(w, c)
    BY <1>2 DEF VerifyStopped
  <2>2. c \in Pcs \ {"idle", "nap", "settle"} /\ c \notin Landed \cup {"verify"} /\ part' = part
    BY <1>2 DEF VerifyStopped, Pcs, Landed, fs
  <2> QED BY <1>1, <2>1, <2>2, OwnGoto
<1>3. CASE Verified(w) /\ At(wk[w].path) = "good"
  <2>1. PICK c \in {"await", "move"} : Goto(w, c)
    BY <1>3 DEF Verified, Landing
  <2>2. c \in Pcs \ {"idle", "nap", "settle"} /\ part' = part
    BY <1>3 DEF Verified, Pcs
  <2>3. Sound(wk[w].path[1], At(wk[w].path))
    BY <1>3 DEF Sound, Whole
  <2> QED BY <1>1, <1>3, <2>1, <2>2, <2>3, OwnGoto
<1>4. CASE Verified(w) /\ At(wk[w].path) # "good"
  <2>1. Goto(w, "fail") /\ SetPart(wk[w].path, "none")
    BY <1>4 DEF Verified
  <2>2. "fail" \in Pcs \ {"idle", "nap", "settle"} /\ "fail" \notin Landed \cup {"verify"}
    BY DEF Pcs, Landed
  <2> QED BY <1>1, <2>1, <2>2, OwnGoto
<1> QED BY <1>2, <1>3, <1>4

LEMMA GiveBackFiles ==
  ASSUME IInv, FilesInv, NEW w \in Workers, GiveBack(w)
  PROVE  FileTurn(w)
<1> DEFINE it == items[wk[w].slot]
           b  == [Restart(it) EXCEPT !.requeue = 0]
<1>1. /\ Holding(w) /\ Goto(w, "done") /\ part' = part /\ lib' = lib
      /\ "done" \in Pcs \ {"idle", "nap", "settle"} /\ "done" \notin Landed \cup {"verify"}
  BY DEF GiveBack, PcIs, Holding, Pcs, Landed, fs
<1>2. wk[w].slot \in Slots /\ it \in Item /\ it.status # "FREE"
  BY <1>1, Types DEF Own
<1>3. Edited(it, b) /\ b.status = "QUEUED"
  BY <1>2, RestartIsEdit, Restarted
<1>4. items' = [items EXCEPT ![wk[w].slot] = b]
  BY DEF GiveBack
<1> HIDE DEF b
<1> QED BY <1>1, <1>3, <1>4, OwnStep

LEMMA AnyFiles ==
  ASSUME IInv, FilesInv, NEW w \in Workers, AnyStep(w)
  PROVE  FileTurn(w)
<1> USE DEF PcIs, fs
<1>0. /\ {"fail", "drop", "requeue", "cancel"} \subseteq Pcs \ {"idle", "nap", "settle"}
      /\ {"fail", "drop", "requeue", "cancel"} \subseteq Past
      /\ "log" \in Published
      /\ {"fail", "drop", "requeue", "cancel"} \cap (Landed \cup {"verify"}) = {}
      /\ {"FAILED", "CANCELLED"} \subseteq Status \ {"DONE", "SAVED"}
  BY DEF Pcs, Past, Published, Status, Landed
<1>1. CASE Fail(w)
  BY <1>0, <1>1, OwnPublish DEF Fail, Holding
<1>2. CASE MoveFailed(w)
  BY <1>0, <1>2, OwnGoto DEF MoveFailed, Holding
<1>3. CASE CancelRead(w)
  BY <1>0, <1>3, OwnGoto DEF CancelRead, Holding
<1>4. CASE Drop(w)
  BY <1>0, <1>4, OwnPublish DEF Drop, Holding
<1> QED BY <1>1, <1>2, <1>3, <1>4, GiveBackFiles, RestingFiles DEF AnyStep

LEMMA DlFiles ==
  ASSUME IInv, Early, FilesInv, NEW w \in Dl, DlStep(w)
  PROVE  FileTurn(w)
<1> USE DEF PcIs, fs
<1>0. /\ {"cancel", "fail", "done", "unclaim", "begin"} \subseteq Pcs \ {"idle", "nap", "settle"}
      /\ "log" \in Published /\ "done" \in Published
      /\ {"cancel", "fail", "done", "unclaim", "begin"} \cap (Landed \cup {"verify"}) = {}
      /\ {"PAUSED", "AWAIT_EXTRACT"} \subseteq Status \ {"DONE", "SAVED"}
      /\ w \in Workers /\ {"await", "move"} \subseteq Landed
  BY Types DEF Pcs, Published, Status, Landed
<1>1. CASE SettleStop(w)
  BY <1>0, <1>1, OwnGoto DEF SettleStop, Holding
<1>2. CASE SettleCancel(w)
  BY <1>0, <1>2, OwnGoto DEF SettleCancel, Holding
<1>3. CASE Park(w)
  BY <1>0, <1>3, OwnPublish DEF Park, Holding
<1>4. CASE Await(w)
  <2>1. Holding(w) /\ wk[w].pc \in Past /\ wk[w].pc \in Landed /\ Filled(w)
    BY <1>4 DEF Await, Holding, Past, Pcs, Landed, Filled
  <2>2. /\ Sound(wk[w].path[1], At(wk[w].path))
        /\ Mine(w).cancel \/ At(wk[w].path) # "none"
    BY <1>0, <2>1, PathOf DEF FilesInv, WorkerFile
  <2> QED BY <1>0, <1>4, <2>1, <2>2, OwnPublish DEF Await
<1>5. CASE Move(w)
  BY <1>0, <1>5, OwnInstall DEF Move
<1>6. CASE MeasureShort(w) \/ MeasureFits(w)
  BY <1>0, <1>6, OwnGoto DEF MeasureShort, MeasureFits, Holding
<1> QED
  BY <1>0, <1>1, <1>2, <1>3, <1>4, <1>5, <1>6, PickFiles, RestingFiles, UnclaimFiles,
     LocalFiles, SettleFiles, VerifyFiles DEF DlStep

LEMMA ExFiles ==
  ASSUME IInv, Numbered, FilesInv, ExStep
  PROVE  FileTurn(Ex)
<1> USE DEF PcIs, fs
<1>0. /\ {"cancel", "done", "unrar", "raw"} \subseteq Pcs \ {"idle", "nap", "settle"}
      /\ "log" \in Published /\ "done" \in Published
      /\ {"cancel", "done"} \cap (Landed \cup {"verify"}) = {}
      /\ Ex \in Workers /\ {"unpack", "unrar", "raw"} \subseteq Landed \cap Past
  BY Types DEF Pcs, Published, Landed, Past
<1>1. CASE UnpackStop
  BY <1>0, <1>1, OwnGoto DEF UnpackStop, Holding
<1>2. CASE UnpackCancel
  BY <1>0, <1>2, OwnGoto DEF UnpackCancel, Holding
<1>3. CASE Unpacked
  BY <1>0, <1>3, OwnInstall DEF Unpacked
<1>4. CASE UnpackFailed
  <2>1. Holding(Ex) /\ wk[Ex].pc \in Past /\ wk[Ex].pc \in Landed /\ Filled(Ex)
    BY <1>0, <1>4 DEF UnpackFailed, Holding, Filled
  <2>2. /\ Sound(wk[Ex].path[1], At(wk[Ex].path))
        /\ Mine(Ex).cancel \/ At(wk[Ex].path) # "none"
    BY <1>0, <2>1, PathOf DEF FilesInv, WorkerFile
  <2>3. PICK c \in {"unrar", "raw"} : Goto(Ex, c)
    BY <1>4 DEF UnpackFailed
  <2> QED BY <1>0, <1>4, <2>1, <2>2, <2>3, OwnGoto DEF UnpackFailed
<1>5. CASE KeepRaw
  BY <1>0, <1>5, OwnInstall DEF KeepRaw
<1> QED BY <1>1, <1>2, <1>3, <1>4, <1>5, ExPickFiles DEF ExStep

-----------------------------------------------------------------------------
(* Calls of the UI. *)

\* Short of queue_move_end, a call leaves the name and the cancel of an item at
\* work alone; short of queue_move too, the name of any item.
LEMMA CallNames ==
  ASSUME IInv, UiStep, "moveend" \notin Ops, NEW t \in Slots, Live(t)
  PROVE  /\ items[t].status \in Active \/ "move" \notin Ops =>
              items'[t].file = items[t].file /\ items'[t].seq = items[t].seq
         /\ items[t].status \in Active /\ items[t].cancel => items'[t].cancel
<1>1. CASE Touched(items[t], items'[t])
  BY <1>1 DEF Touched, Edited
<1>2. ASSUME (\E f \in Files : Add(f)) \/ ExtAdd PROVE items'[t] = items[t]
  <2>1. PICK s \in Slots, st \in Status, f \in AllFiles, x \in BOOLEAN :
          ~Live(s) /\ items' = [items EXCEPT ![s] = NewItem(st, f, gseq, x)]
    BY <1>2 DEF Add, ExtAdd, Status, AllFiles
  <2> QED BY <2>1, Types
<1>3. ASSUME NEW s \in Slots, MoveUp(s), items[t].status \in Active
      PROVE  items'[t] = items[t]
  <2>1. PICK u \in Above(s) :
          /\ items[u].status \notin Active
          /\ items' = [items EXCEPT ![s].seq = items[u].seq, ![u].seq = items[s].seq]
    BY <1>3 DEF MoveUp
  <2>2. t # s /\ t # u
    BY <1>3, <2>1 DEF MoveUp
  <2> QED BY <2>1, <2>2, Types
<1>4. \A s \in Slots : MoveUp(s) => "move" \in Ops
  BY DEF MoveUp
<1>5. \A s \in Slots, b \in BOOLEAN : ~MoveEnd(s, b)
  BY DEF MoveEnd
<1> QED BY <1>1, <1>2, <1>3, <1>4, <1>5, CallTouches DEF Dealing

\* A call that deletes the .part of an item at work has it cancelled.
LEMMA CallPart ==
  ASSUME IInv, UiStep, NEW t \in Slots, Live(t), NEW p \in Paths, p = Path(t)
  PROVE  \/ part'[p[1]][p[2]] = part[p[1]][p[2]]
         \/ /\ part'[p[1]][p[2]] = "none"
            /\ items[t].status \in Active => items'[t].cancel
<1>1. part' = part \/ \E q \in Paths : DeletePart(q)
  BY DEF UiStep, Add, BatchBegin, BatchEnd, ExtAdd, ExtFinish, ExtCancel, Cancel, Retry, MoveUp,
     Requeue, MoveEnd, CancelAll, PauseAll, ClearFinished, RetryStatus, SetMaxDl, Quiet, fs
<1>2. ASSUME NEW q \in Paths, DeletePart(q), SetPart(q, "none"), q # p
      PROVE  part'[p[1]][p[2]] = part[p[1]][p[2]]
  BY <1>2, WriteOne
<1>3. ASSUME DeletePart(p), SetPart(p, "none")
      PROVE  part'[p[1]][p[2]] = "none" /\ (items[t].status \in Active => items'[t].cancel)
  <2>1. part'[p[1]][p[2]] = "none"
    BY <1>3, WriteOne
  <2>2. ASSUME items[t].status \in Active PROVE items'[t].cancel
    <3>1. items[t].status \in Pending /\ items[t].status \notin Waiting
      BY <2>2 DEF Pending, Active, Waiting
    <3>2. items'[t] = Cancelled(items[t])
      BY <1>3, <3>1 DEF DeletePart
    <3> QED BY <2>2, <3>1, <3>2, Types DEF Cancelled, Item
  <2> QED BY <2>1, <2>2
<1> QED BY <1>1, <1>2, <1>3 DEF DeletePart

LEMMA CallFiles ==
  ASSUME IInv, Numbered, FilesInv, UiStep, "moveend" \notin Ops
  PROVE  FilesInv'
<1>0. Call /\ lib' = lib
  <2>1. lib' = lib
    BY DEF UiStep, Add, BatchBegin, BatchEnd, ExtAdd, ExtFinish, ExtCancel, Cancel, Retry, MoveUp,
       Requeue, MoveEnd, CancelAll, PauseAll, ClearFinished, DeletePart, RetryStatus, SetMaxDl, Quiet, fs
  <2> QED BY <2>1, UiCall
<1>1. ASSUME NEW v \in Workers PROVE WorkerFile(v)'
  <2> SUFFICES ASSUME Holding(v), wk[v].path # <<>>
               PROVE  WorkerFile(v)'
    BY <1>0 DEF Call, WorkerFile, Holding
  <2> PICK t \in Slots : t = wk[v].slot
    BY Types
  <2> DEFINE p == wk[v].path
  <2>1. Live(t) /\ items[t].status \in Active /\ p = Path(t) /\ p \in Paths
    BY Types, OwnPath DEF FilesInv, WorkerFile, Live, Own, Active
  <2>2. /\ items'[t].file = items[t].file /\ items'[t].seq = items[t].seq
        /\ items[t].cancel => items'[t].cancel
    BY <2>1, CallNames
  <2>3. \/ part'[p[1]][p[2]] = part[p[1]][p[2]]
        \/ part'[p[1]][p[2]] = "none" /\ items'[t].cancel
    BY <2>1, CallPart
  <2>4. p = <<items'[t].file, items'[t].seq>>
    BY <2>1, <2>2 DEF Path
  <2>5. /\ wk[v].pc \in Landed => Sound(p[1], part[p[1]][p[2]])
        /\ Filled(v) /\ ~items[t].cancel => part[p[1]][p[2]] # "none"
    BY DEF FilesInv, WorkerFile, At, Mine
  <2>6. wk' = wk
    BY <1>0 DEF Call
  <2> QED BY <2>2, <2>3, <2>4, <2>5, <2>6 DEF WorkerFile, Filled, Mine, At, Path, Sound
<1>2. ASSUME NEW t \in Slots PROVE ItemFile(t)'
  <2> SUFFICES ASSUME \/ items'[t].status = "AWAIT_EXTRACT"
                      \/ items'[t].status \in {"DONE", "SAVED"} /\ ~items'[t].ext /\ "move" \notin Ops
               PROVE  ItemFile(t)'
    BY DEF ItemFile
  <2>1. items'[t].status = items[t].status /\ items'[t].ext = items[t].ext
    BY <1>0 DEF Call, Fate, Stays, Waiting, Terminal
  <2> DEFINE p == Path(t)
  <2>2. Live(t) /\ p \in Paths /\ (items[t].status \in Active \/ "move" \notin Ops)
    BY <2>1, OwnPath DEF Live, Active
  <2>3. items'[t].file = items[t].file /\ items'[t].seq = items[t].seq
    BY <2>2, CallNames
  <2>4. \/ part'[p[1]][p[2]] = part[p[1]][p[2]]
        \/ /\ part'[p[1]][p[2]] = "none"
           /\ items[t].status \in Active => items'[t].cancel
    BY <2>2, CallPart
  <2>5. items[t].status \in Active /\ items[t].cancel => items'[t].cancel
    BY <2>2, CallNames
  <2>6. At(Path(t))' = part'[p[1]][p[2]]
    BY <2>3 DEF At, Path
  <2> QED BY <2>1, <2>3, <2>4, <2>5, <2>6 DEF FilesInv, ItemFile, Sound, At, Active
<1>3. \A f \in Files : Sound(f, lib[f])'
  BY <1>0 DEF FilesInv, Sound
<1> QED BY <1>1, <1>2, <1>3 DEF FilesInv

-----------------------------------------------------------------------------
(* The end of the program and its next start. *)

LEMMA StillFiles ==
  ASSUME FilesInv, items' = items, wk' = wk, part' = part, lib' = lib
  PROVE  FilesInv'
<1>1. \A v \in Workers : WorkerFile(v)'
  BY DEF FilesInv, WorkerFile, Filled, Holding, Mine, At, Path
<1>2. \A s \in Slots : ItemFile(s)'
  BY DEF FilesInv, ItemFile, At, Path
<1> QED BY <1>1, <1>2 DEF FilesInv, Sound

LEMMA GoneFiles ==
  ASSUME FilesInv, Gone, lib' = lib
  PROVE  FilesInv'
<1>1. \A v \in Workers : WorkerFile(v)'
  BY DEF Gone, WorkerFile, IdleWorker
<1>2. \A s \in Slots : ItemFile(s)'
  BY DEF Gone, ItemFile, FreeItem, NewItem
<1> QED BY <1>1, <1>2 DEF FilesInv, Sound

LEMMA LoadFiles ==
  ASSUME IInv, FilesInv, Load
  PROVE  FilesInv'
<1> DEFINE recs == IF disk = Torn THEN {} ELSE disk
<1>1. PICK home \in [recs -> Slots] :
        items' = [s \in Slots |->
             IF \E r \in recs : home[r] = s
             THEN Loaded(CHOOSE r \in recs : home[r] = s) ELSE FreeItem]
  BY DEF Load
<1>2. "start" \in Ops /\ wk' = wk /\ part' = part /\ lib' = lib /\ run = "down"
  BY DEF Load, fs
<1> HIDE DEF recs
<1>3. \A v \in Workers : WorkerFile(v)'
  BY <1>2 DEF IInv, Asleep, WorkerFile, IdleWorker, Holding
<1>4. ASSUME NEW s \in Slots PROVE ItemFile(s)'
  <2>1. CASE items'[s] = FreeItem
    BY <2>1 DEF ItemFile, FreeItem, NewItem
  <2>2. ASSUME NEW r, items'[s] = Loaded(r) PROVE ItemFile(s)'
    <3>1. /\ items'[s].file = r.file /\ items'[s].seq = r.seq
          /\ items'[s].status \in {"AWAIT_EXTRACT", "QUEUED"}
          /\ items'[s].status = "AWAIT_EXTRACT" => LooksComplete(r)
      BY <2>2 DEF Loaded, NewItem
    <3>2. At(Path(s))' = part[r.file][r.seq]
      BY <1>2, <3>1 DEF At, Path
    <3>3. LooksComplete(r) => Sound(r.file, part[r.file][r.seq]) /\ part[r.file][r.seq] # "none"
      BY <1>2 DEF LooksComplete, Sound, Whole
    <3> QED BY <1>2, <3>1, <3>2, <3>3 DEF ItemFile, Sound
  <2> QED BY <1>1, <2>1, <2>2
<1> QED BY <1>2, <1>3, <1>4 DEF FilesInv, Sound

LEMMA FilesInvStep ==
  ASSUME IInv, Promises, Numbered, FilesInv, [Next]_vars, "moveend" \notin Ops
  PROVE  FilesInv'
<1>1. ASSUME NEW w \in Dl, DlStep(w) PROVE FilesInv'
  BY <1>1, DlFiles, FileTurnKeeps, Types DEF Promises
<1>2. ASSUME NEW w \in Workers, AnyStep(w) PROVE FilesInv'
  BY <1>2, AnyFiles, FileTurnKeeps
<1>3. CASE ExStep
  BY <1>3, ExFiles, FileTurnKeeps, Types
<1>4. CASE UiStep
  BY <1>4, CallFiles
<1>5. CASE SaveDone \/ Stop \/ ExitSave \/ NetFlip \/ SpaceFlip \/ UNCHANGED vars
  BY <1>5, StillFiles DEF SaveDone, Stop, ExitSave, NetFlip, SpaceFlip, vars, fs
<1>6. CASE Exit \/ Crash
  BY <1>6, GoneFiles DEF Exit, Crash, fs
<1> QED BY <1>1, <1>2, <1>3, <1>4, <1>5, <1>6, LoadFiles DEF Next

LEMMA FilesInvInit == Init => FilesInv
BY DEF Init, FilesInv, WorkerFile, ItemFile, Sound, Holding, FreeItem, NewItem, IdleWorker

-----------------------------------------------------------------------------
(* The theorems. *)

\* As long as nothing is moved to an end of the list, the .part files are in
\* order in every reachable state.
THEOREM FilesInOrder ==
  "moveend" \notin Ops => (Spec => [](IInv /\ Numbered /\ FilesInv))
<1> SUFFICES ASSUME "moveend" \notin Ops
             PROVE  Spec => [](IInv /\ Numbered /\ FilesInv)
  OBVIOUS
<1>1. Init => FilesInv
  BY FilesInvInit
<1>2. IInv /\ Promises /\ Numbered /\ FilesInv /\ [Next]_vars => FilesInv'
  BY FilesInvStep
<1> QED BY <1>1, <1>2, PromisesKept, NumbersDiffer, PTL DEF Spec

\* As long as nothing is moved to an end of the list, the .part a worker is at is
\* the one whoever asks next will find,
THEOREM PathsAgree ==
  "moveend" \notin Ops => (Spec => []PathAgrees)
<1> SUFFICES ASSUME "moveend" \notin Ops
             PROVE  Spec => []PathAgrees
  OBVIOUS
<1>1. FilesInv => PathAgrees
  BY DEF FilesInv, WorkerFile, PathAgrees
<1> QED BY <1>1, FilesInOrder, PTL

\* and no two workers are ever at one .part file.
THEOREM WritersApart ==
  "moveend" \notin Ops => (Spec => []OneWriterPerPart)
<1> SUFFICES ASSUME "moveend" \notin Ops
             PROVE  Spec => []OneWriterPerPart
  OBVIOUS
<1>1. ASSUME IInv, Numbered, FilesInv PROVE OneWriterPerPart
  <2> SUFFICES ASSUME NEW v \in Workers, NEW w \in Workers, Holding(v), Holding(w),
                      wk[v].path = wk[w].path, wk[v].path # <<>>
               PROVE  v = w
    BY DEF OneWriterPerPart
  <2>1. wk[v].path = Path(wk[v].slot) /\ wk[w].path = Path(wk[w].slot)
    BY <1>1 DEF FilesInv, WorkerFile
  <2>2. /\ wk[v].slot \in Slots /\ Live(wk[v].slot)
        /\ wk[w].slot \in Slots /\ Live(wk[w].slot)
    BY <1>1, Types DEF Live, Own
  <2>3. wk[v].slot = wk[w].slot
    BY <1>1, <2>1, <2>2, OwnPath
  <2> QED BY <1>1, <2>3, Types
<1> QED BY <1>1, FilesInOrder, PTL

\* What reaches the library was verified, as long as nothing is moved to an end
\* of the list and the program has not been restarted: right bytes when the md5
\* is known, right length when the size is.
THEOREM LibraryCorrect ==
  {"moveend", "start"} \cap Ops = {} => (Spec => []LibraryIntact)
<1> SUFFICES ASSUME {"moveend", "start"} \cap Ops = {}
             PROVE  Spec => []LibraryIntact
  OBVIOUS
<1>1. "moveend" \notin Ops
  OBVIOUS
<1>2. FilesInv => LibraryIntact
  BY DEF FilesInv, Sound, LibraryIntact
<1> QED BY <1>1, <1>2, FilesInOrder, PTL

\* The right length survives restarts too.
LengthsRight == \A f \in Sized : lib[f] \in {"none"} \cup Whole
THEOREM LengthsCorrect ==
  "moveend" \notin Ops => (Spec => []LengthsRight)
<1> SUFFICES ASSUME "moveend" \notin Ops
             PROVE  Spec => []LengthsRight
  OBVIOUS
<1>1. FilesInv => LengthsRight
  BY QueueAssumption DEF FilesInv, Sound, LengthsRight
<1> QED BY <1>1, FilesInOrder, PTL

\* A .part is there exactly as long as somebody needs it, as long as nothing is
\* moved in the list.
THEOREM PartsFollow ==
  {"move", "moveend"} \cap Ops = {} => (Spec => []PartFollowsItem)
<1> SUFFICES ASSUME {"move", "moveend"} \cap Ops = {}
             PROVE  Spec => []PartFollowsItem
  OBVIOUS
<1>1. "moveend" \notin Ops
  OBVIOUS
<1>2. ASSUME IInv, FilesInv PROVE PartFollowsItem
  <2>1. ASSUME NEW s \in Slots, Unpacking(Ex), wk[Ex].slot = s, ~items[s].cancel
        PROVE  At(wk[Ex].path) # "none"
    <3>1. Ex \in Workers /\ Holding(Ex) /\ wk[Ex].pc \in Past /\ Filled(Ex)
      BY <2>1, <1>2, Types DEF Unpacking, Holding, Past, Pcs, Filled, Landed
    <3> QED BY <1>2, <2>1, <3>1, PathOf DEF FilesInv, WorkerFile, Mine
  <2> QED BY <1>2, <2>1 DEF FilesInv, ItemFile, PartFollowsItem
<1> QED BY <1>1, <1>2, FilesInOrder, PTL
=============================================================================
