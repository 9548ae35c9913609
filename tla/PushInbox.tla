------------------------------ MODULE PushInbox ------------------------------
(***************************************************************************)
(* What becomes of a file the PC pushes to the always-on server: it is     *)
(* streamed into "<name>.part" in the inbox (client_step, client_reset in  *)
(* source/httpsrv.c), may be interrupted and resumed from a record that    *)
(* outlives the program (the res_ functions), and once answered 200 is     *)
(* filed by InvApplyFile in source/MainApplication.cpp: moved into the     *)
(* inbox or a console folder, swapped in as an app with the old build      *)
(* parked at .bak, or, when it is an archive, handed to a background       *)
(* unpack whose pending jobs are kept in a file as well (PxtSave,          *)
(* PxtResume).                                                             *)
(*                                                                         *)
(* Everything but the unpack worker runs on the UI thread, one step after  *)
(* the other, but the power may go between any two of them and inside a    *)
(* save.  A file has Blocks blocks; a block of the card holds a block of   *)
(* the file it came from, so a mixture of two files can be told from       *)
(* either.  How the bytes of one push travel is RxPump's subject: here a   *)
(* push lands block by block and ends as PushStream says.                  *)
(*                                                                         *)
(* A definition marked "Variant" is the next one with a plausible slip;    *)
(* no behaviour uses it, it shows which property would notice.             *)
(***************************************************************************)
EXTENDS Integers, Sequences

CONSTANTS
  Files,      \* what the PC may push
  Consoles,   \* ... game archives for a console folder (X-Dest-Folder)
  Folders,    \* ... folders bundled into an archive (X-Fs-Extract)
  Dats,       \* ... bundles of DAT files (X-Dat-Bulk)
  Apps,       \* ... builds of an app (X-App-Path)
  Namesakes,  \* ... files that share one name
  NoId,       \* ... files pushed without X-Resume-Id
  Blocks,     \* blocks in a file
  Old,        \* the build of an app that is installed at first
  None,
  FlushFails, \* whether closing an interrupted .part may lose its last block
  MaxStarts,  \* bound: launches of the program
  MaxFaults   \* bound: power cuts and failing moves

ASSUME InboxAssumption ==
  /\ Consoles \cup Folders \cup Dats \cup Apps \cup Namesakes \cup NoId \subseteq Files
  \* a push is of one kind: the branches of InvApplyFile come in an order
  /\ Consoles \cap (Folders \cup Dats \cup Apps) = {}
  /\ Folders \cap (Dats \cup Apps) = {} /\ Dats \cap Apps = {}
  /\ Blocks \in Nat \ {0} /\ MaxStarts \in Nat /\ MaxFaults \in Nat
  /\ None \notin Files /\ Old \notin Files /\ None # Old

VARIABLES
  up,     \* "up", "exiting" (Shutdown) or "off"
  card,   \* what is where on the SD card
  push,   \* the push in the main slot of the server, and how far it is
  rec,    \* the resume record: g_res, and push_resume.txt when off
  queue,  \* pxt_queue
  cur,    \* the unpack job being worked on
  pend,   \* pxt_pending.txt
  boot,   \* jobs PxtResume has read and not queued yet
  stage,  \* what the DAT staging folder holds
  out,    \* <<f, g>>: the job of f has brought the content of g into place
  owed,   \* files answered 200 whose filing has not ended (a history variable)
  starts, \* launches so far
  faults  \* power cuts and failing moves so far

vars == <<up, card, push, rec, queue, cur, pend, boot, stage, out, owed, starts, faults>>
jobs == <<queue, cur, pend, boot, stage, out>>
env  == <<up, starts, faults>>

Name(f) == IF f \in Namesakes THEN "same" ELSE f
Names   == {Name(f) : f \in Files}
Places  == {"part", "inbox", "lib", "app", "bak"}
Paths   == Places \X Names
Absent  == <<>>
Whole(f) == [k \in 1..Blocks |-> f]
Content == [1..Blocks -> Files \cup {Old, None}] \cup {Absent}

At(place, f) == <<place, Name(f)>>
Exists(p) == card[p] # Absent
Removed(p) == [card EXCEPT ![p] = Absent]
Moved(p, q) == [card EXCEPT ![q] = card[p], ![p] = Absent]

\* The archive a job unpacks: a game's lies in the console folder, the others
\* where the push has left them.
Archive(f) == At(IF f \in Consoles THEN "lib" ELSE "part", f)
Unpacks(f) == f \in Consoles \cup Folders \cup Dats

Push   == [file : Files, len : 0..Blocks, restore : BOOLEAN,
           st : {"recv", "whole", "ask", "park", "place", "clean"}]
Record == [id : Files, name : Names, have : 1..Blocks]
Job    == [file : Files, st : {"run", "out", "done"}, inline : BOOLEAN]

ASSUME NoneAssumption == None \notin Push \cup Record \cup Job

Inline == cur # None /\ cur.inline
\* The UI thread is between frames: nothing of what it must do in one go is
\* half done.
UiFree == /\ up = "up" /\ boot = <<>> /\ ~Inline
          /\ push # None => push.st = "recv"

Steady(u) == up' = u /\ UNCHANGED <<starts, faults>>
Fault     == faults < MaxFaults /\ faults' = faults + 1
Failing   == Fault /\ UNCHANGED <<up, starts>>
\* The power goes; what is in memory goes with it.
PowerOff  == Fault /\ up' = "off" /\ UNCHANGED starts

-----------------------------------------------------------------------------
(* The resume record *)

\* res_save: a cut between opening the file and writing it leaves no record.
ResSave(r, u) == \/ rec' = r /\ Steady(u)
                 \/ rec' = None /\ PowerOff

\* What res_drop leaves of the card: the partial of the record is removed.
ResDropped == IF rec = None THEN card ELSE Removed(<<"part", rec.name>>)

\* What push_resume answers: the record, while its file is there.
Offer(f) == IF /\ rec # None /\ rec.id = f
               /\ Exists(<<"part", rec.name>>) THEN rec.have ELSE 0

-----------------------------------------------------------------------------
(* Receiving: client_step and client_reset of source/httpsrv.c *)

\* (Variant: the record is left alone.)
PushFreshKeeping(f) ==
  /\ UiFree /\ push = None /\ f \notin owed
  /\ card' = [card EXCEPT ![At("part", f)] = Whole(None)]
  /\ push' = [file |-> f, len |-> 0, restore |-> FALSE, st |-> "recv"]
  /\ UNCHANGED <<rec, jobs, owed, env>>

\* From the start: a resumable push gives up the partial of an older one, and
\* the .part is truncated and grown to its final size.
PushFresh(f) ==
  /\ UiFree /\ push = None /\ f \notin owed
  /\ LET left == IF f \in NoId THEN card ELSE ResDropped
     IN  card' = [left EXCEPT ![At("part", f)] = Whole(None)]
  /\ rec' = IF f \in NoId THEN rec ELSE None
  /\ push' = [file |-> f, len |-> 0, restore |-> FALSE, st |-> "recv"]
  /\ UNCHANGED <<jobs, owed, env>>

\* (Variant: only the file is compared, not whose partial it is.)
PushRestAnyId(f) ==
  /\ UiFree /\ push = None /\ f \notin owed \cup NoId
  /\ rec # None /\ rec.name = Name(f)
  /\ Exists(At("part", f))
  /\ push' = [file |-> f, len |-> rec.have, restore |-> FALSE, st |-> "recv"]
  /\ UNCHANGED <<card, rec, jobs, owed, env>>

\* The rest of a kept partial; any other offset is answered 409.
PushRest(f) ==
  /\ UiFree /\ push = None /\ f \notin owed \cup NoId
  /\ rec # None /\ rec.id = f /\ rec.name = Name(f)
  /\ Exists(At("part", f))
  /\ push' = [file |-> f, len |-> rec.have, restore |-> FALSE, st |-> "recv"]
  /\ UNCHANGED <<card, rec, jobs, owed, env>>

Receive ==
  /\ UiFree /\ push # None /\ push.len < Blocks
  /\ card' = [card EXCEPT ![At("part", push.file)][push.len + 1] = push.file]
  /\ push' = [push EXCEPT !.len = @ + 1]
  /\ UNCHANGED <<rec, jobs, owed, env>>

\* The body is there and the file closed: the record is spent, 200 is sent.
ResDone(f) == IF rec # None /\ rec.id = f THEN None ELSE rec

Accept ==
  /\ UiFree /\ push # None /\ push.len = Blocks
  /\ push' = [push EXCEPT !.st = "whole"]
  /\ rec' = IF push.file \in NoId THEN rec ELSE ResDone(push.file)
  /\ owed' = owed \cup {push.file}
  /\ UNCHANGED <<card, jobs, env>>

\* The card is full, the last bytes do not reach it, or the user cancels.
GiveUp ==
  /\ UiFree /\ push # None
  /\ card' = Removed(At("part", push.file))
  /\ push' = None
  /\ UNCHANGED <<rec, jobs, owed, env>>

\* client_reset with the sink still open keeps the .part of a resumable push
\* and what a resume can skip, whatever fclose said.
Unflushed(p, n) == [card EXCEPT ![p][n] = None]
Kept(f, n) == [id |-> f, name |-> Name(f), have |-> n]

ClientReset(u) ==
  IF push # None /\ push.file \notin NoId /\ push.len > 0
  THEN /\ \/ UNCHANGED card
          \/ FlushFails /\ card' = Unflushed(At("part", push.file), push.len)
       /\ ResSave(Kept(push.file, push.len), u)
  ELSE /\ card' = IF push = None THEN card ELSE Removed(At("part", push.file))
       /\ UNCHANGED rec /\ Steady(u)

\* The peer is gone or idle, or the network went with a sleep.
Drop ==
  /\ UiFree /\ push # None
  /\ ClientReset("up")
  /\ push' = None
  /\ UNCHANGED <<jobs, owed>>

-----------------------------------------------------------------------------
(* Unpacking: the Pxt and PushExtract functions of MainApplication.cpp *)

\* The pending file is rewritten; a cut may leave the first few lines of it.
PxtSave(js) ==
  \/ pend' = js /\ UNCHANGED env
  \/ /\ PowerOff
     /\ \E k \in 0..Len(js)-1 : pend' = SubSeq(js, 1, k)

Begun(f, inline) == [file |-> f, st |-> "run", inline |-> inline]

\* PushExtractStartNext on the jobs js, with no unpack running: without a
\* thread the UI thread does it itself.  The DAT staging folder is cleared.
StartFirst(js, staged) ==
  IF js = <<>> THEN cur' = None /\ queue' = <<>> /\ stage' = staged
  ELSE /\ \E inline \in BOOLEAN : cur' = Begun(Head(js), inline)
       /\ queue' = Tail(js)
       /\ stage' = IF Head(js) \in Dats THEN None ELSE staged

\* PushExtractQueue
Enqueue(f) ==
  IF cur = None
  THEN StartFirst(Append(queue, f), stage) /\ PxtSave(Append(queue, f))
  ELSE /\ queue' = Append(queue, f) /\ UNCHANGED <<cur, stage>>
       /\ PxtSave(<<cur.file>> \o queue')

\* The worker: what a whole archive holds is brought into place (that of DATs
\* into the staging folder), or it cannot, or it is told to stop.
Unpack ==
  /\ up # "off" /\ cur # None /\ cur.st = "run"
  /\ \E g \in Files :
       /\ card[Archive(cur.file)] = Whole(g)
       /\ IF cur.file \in Dats THEN stage' = g /\ UNCHANGED out
                               ELSE out' = out \cup {<<cur.file, g>>} /\ UNCHANGED stage
  /\ cur' = [cur EXCEPT !.st = "out"]
  /\ UNCHANGED <<card, push, rec, queue, pend, boot, owed, env>>

UnpackFails ==
  /\ up # "off" /\ cur # None /\ cur.st = "run"
  /\ cur' = [cur EXCEPT !.st = "done"]
  /\ UNCHANGED <<card, push, rec, queue, pend, boot, stage, out, owed, env>>

\* Only then the archive goes.
RemoveArchive ==
  /\ up # "off" /\ cur # None /\ cur.st = "out"
  /\ card' = Removed(Archive(cur.file))
  /\ cur' = [cur EXCEPT !.st = "done"]
  /\ UNCHANGED <<push, rec, queue, pend, boot, stage, out, owed, env>>

Worker == Unpack \/ UnpackFails \/ RemoveArchive

\* (Variant: the next job is not started.)
TickIdle ==
  /\ up = "up" /\ cur # None /\ cur.st = "done" /\ (cur.inline \/ UiFree)
  /\ cur' = None
  /\ PxtSave(queue)
  /\ owed' = owed \ {cur.file}
  /\ UNCHANGED <<card, push, rec, queue, boot, stage, out>>

\* PushExtractTick: the job leaves the file, staged DATs are applied, and the
\* next job starts.
Tick ==
  /\ up = "up" /\ cur # None /\ cur.st = "done" /\ (cur.inline \/ UiFree)
  /\ StartFirst(queue, stage) /\ PxtSave(queue)
  /\ out' = IF cur.file \in Dats /\ stage # None THEN out \cup {<<cur.file, stage>>} ELSE out
  /\ owed' = owed \ {cur.file}
  /\ UNCHANGED <<card, push, rec, boot>>

-----------------------------------------------------------------------------
(* Filing an accepted push: InvApplyFile *)

Applying(st) == up = "up" /\ ~Inline /\ push # None /\ push.st = st

\* Over an older file of that name; a failing move gives up both.
Land(place) ==
  LET f == push.file
  IN  \/ /\ card' = Moved(At("part", f), At(place, f))
         /\ UNCHANGED env
      \/ /\ card' = [Removed(At("part", f)) EXCEPT ![At(place, f)] = Absent]
         /\ Failing
Filed == push' = None /\ owed' = owed \ {push.file}

LandInbox ==
  /\ Land("inbox") /\ Filed
  /\ UNCHANGED <<rec, jobs>>

ApplyGame ==
  /\ Applying("whole") /\ ~Unpacks(push.file) /\ push.file \notin Apps
  /\ LandInbox

ApplyConsole ==
  /\ Applying("whole") /\ push.file \in Consoles
  /\ \/ /\ card' = Moved(At("part", push.file), At("lib", push.file))
        /\ Enqueue(push.file)
        /\ UNCHANGED <<owed, out, boot>>
     \/ /\ card' = [Removed(At("part", push.file)) EXCEPT ![At("lib", push.file)] = Absent]
        /\ Failing
        /\ owed' = owed \ {push.file} /\ UNCHANGED jobs
  /\ push' = None /\ UNCHANGED rec

\* The archive stays at its .part until the unpack is done with it.
ApplyArchive ==
  /\ Applying("whole") /\ push.file \in Folders \cup Dats
  /\ Enqueue(push.file)
  /\ push' = None
  /\ UNCHANGED <<card, rec, boot, out, owed>>

\* An installed app is updated, a new one installed; with neither it is filed
\* like a game.
ApplyApp ==
  /\ Applying("whole") /\ push.file \in Apps
  /\ \E fresh \in BOOLEAN :
       IF fresh \/ Exists(At("app", push.file))
       THEN push' = [push EXCEPT !.st = "ask"] /\ UNCHANGED <<card, rec, jobs, owed, env>>
       ELSE LandInbox

(* InvApplyEmuNroAt *)

\* Not an app after all, or the user says no.
Refuse ==
  /\ Applying("ask")
  /\ card' = Removed(At("part", push.file))
  /\ Filed
  /\ UNCHANGED <<rec, jobs, env>>

Confirm ==
  /\ Applying("ask")
  /\ push' = [push EXCEPT !.st = IF Exists(At("app", push.file)) THEN "park" ELSE "place"]
  /\ UNCHANGED <<card, rec, jobs, owed, env>>

\* (Variant: the installed build is removed to make room.)
ParkNowhere ==
  /\ Applying("park")
  /\ card' = Removed(At("app", push.file))
  /\ push' = [push EXCEPT !.st = "place"]
  /\ UNCHANGED <<rec, jobs, owed, env>>

\* The installed build makes room: at .bak, or, if that cannot be, removed.
Park ==
  /\ Applying("park")
  /\ \/ /\ card' = Moved(At("app", push.file), At("bak", push.file))
        /\ push' = [push EXCEPT !.st = "place", !.restore = TRUE]
        /\ UNCHANGED env
     \/ /\ card' = [Removed(At("app", push.file)) EXCEPT ![At("bak", push.file)] = Absent]
        /\ push' = [push EXCEPT !.st = "place"]
        /\ Failing
  /\ UNCHANGED <<rec, jobs, owed>>

Place ==
  /\ Applying("place")
  /\ card' = Moved(At("part", push.file), At("app", push.file))
  /\ push' = [push EXCEPT !.st = "clean"]
  /\ UNCHANGED <<rec, jobs, owed, env>>

\* The new build cannot be written: the old one is put back.
PlaceFails ==
  /\ Applying("place")
  /\ LET left == Removed(At("part", push.file))
     IN  card' = IF push.restore
                 THEN [left EXCEPT ![At("app", push.file)] = card[At("bak", push.file)],
                                   ![At("bak", push.file)] = Absent]
                 ELSE left
  /\ Failing
  /\ Filed
  /\ UNCHANGED <<rec, jobs>>

Clean ==
  /\ Applying("clean")
  /\ card' = IF push.restore THEN Removed(At("bak", push.file)) ELSE card
  /\ Filed
  /\ UNCHANGED <<rec, jobs, env>>

-----------------------------------------------------------------------------
(* Launch, exit, power *)

\* The jobs of the pending file whose archive is there, in their order.
ReadPending ==
  LET there == {i \in 1..Len(pend) : Exists(Archive(pend[i]))}
  IN  \E n \in 0..Len(pend) : \E at \in [1..n -> there] :
        /\ \A i, j \in 1..n : i < j => at[i] < at[j]
        /\ \A i \in there : \E j \in 1..n : at[j] = i
        /\ boot' = [i \in 1..n |-> pend[at[i]]]

\* OnLoad: PxtResume reads the pending file and removes it ...
Launch ==
  /\ up = "off" /\ starts < MaxStarts
  /\ up' = "up" /\ starts' = starts + 1
  /\ push' = None /\ cur' = None /\ queue' = <<>>
  /\ ReadPending /\ pend' = <<>>
  /\ UNCHANGED <<card, rec, stage, out, owed, faults>>

\* ... then queues the jobs one by one.
PxtResume ==
  /\ up = "up" /\ boot # <<>> /\ ~Inline
  /\ Enqueue(Head(boot))
  /\ boot' = Tail(boot)
  /\ UNCHANGED <<card, push, rec, out, owed>>

\* (Variant: the emptied queue is saved.)
ShutdownSaving ==
  /\ UiFree
  /\ ClientReset("exiting")
  /\ push' = None /\ queue' = <<>>
  /\ pend' = IF cur = None THEN <<>> ELSE <<cur.file>>
  /\ UNCHANGED <<cur, boot, stage, out, owed>>

\* Shutdown closes the server, tells the unpack to stop and forgets the queue.
Shutdown ==
  /\ UiFree
  /\ ClientReset("exiting")
  /\ push' = None /\ queue' = <<>>
  /\ UNCHANGED <<cur, pend, boot, stage, out, owed>>

Off ==
  /\ up = "exiting" /\ (cur # None => cur.st = "done")
  /\ up' = "off"
  /\ UNCHANGED <<card, push, rec, jobs, owed, starts, faults>>

PowerCut ==
  /\ up # "off" /\ PowerOff
  /\ UNCHANGED <<card, push, rec, jobs, owed>>

Ui == \/ Receive \/ Accept \/ Tick \/ PxtResume
      \/ ApplyGame \/ ApplyConsole \/ ApplyArchive \/ ApplyApp
      \/ Refuse \/ Confirm \/ Park \/ Place \/ PlaceFails \/ Clean
Pc == \/ \E f \in Files : PushFresh(f) \/ PushRest(f)
      \/ Drop \/ GiveUp
Program == Launch \/ Shutdown \/ Off \/ PowerCut

Init ==
  /\ up = "off" /\ starts = 0 /\ faults = 0
  /\ card = [p \in Paths |-> IF p[1] = "app" /\ \E f \in Apps : p[2] = Name(f)
                             THEN Whole(Old) ELSE Absent]
  /\ push = None /\ rec = None /\ queue = <<>> /\ cur = None /\ pend = <<>>
  /\ boot = <<>> /\ stage = None /\ out = {} /\ owed = {}

Next == Ui \/ Pc \/ Worker \/ Program
Spec == Init /\ [][Next]_vars

\* Each frame looks at the unpack (PollXfers) and files what was accepted; the
\* worker thread runs; a dialog is answered.
Fairness ==
  /\ SF_vars(Tick) /\ WF_vars(Worker) /\ WF_vars(PxtResume)
  /\ WF_vars(ApplyGame \/ ApplyConsole \/ ApplyArchive \/ ApplyApp)
  /\ WF_vars(Refuse \/ Confirm) /\ WF_vars(Park) /\ WF_vars(Place) /\ WF_vars(Clean)
FairSpec == Spec /\ Fairness

-----------------------------------------------------------------------------
(* Properties *)

TypeOK ==
  /\ up \in {"up", "exiting", "off"}
  /\ card \in [Paths -> Content]
  /\ push \in Push \cup {None} /\ rec \in Record \cup {None} /\ cur \in Job \cup {None}
  /\ queue \in Seq(Files) /\ pend \in Seq(Files) /\ boot \in Seq(Files)
  /\ stage \in Files \cup {None} /\ out \subseteq Files \X Files /\ owed \subseteq Files
  /\ starts \in 0..MaxStarts /\ faults \in 0..MaxFaults

\* What push_resume offers to skip is on the card, and is that file's: a
\* transfer that is resumed is never completed with foreign or missing bytes.
ResumeIsRight ==
  \A f \in Files : \A k \in 1..Offer(f) : card[At("part", f)][k] = f

\* Nothing but a whole file is ever filed under its name: in the inbox, in a
\* console folder, as an app, or unpacked into place, whatever was interrupted
\* and resumed on the way.
LandedIsWhole ==
  /\ \A place \in {"inbox", "lib", "app"}, n \in Names :
       card[<<place, n>>] \in {Absent, Whole(Old)} \cup {Whole(f) : f \in {g \in Files : Name(g) = n}}
  /\ \A p \in out : p[1] = p[2]

\* A file answered 200 is not lost by the program while the card and the power
\* hold, an exit and a new launch included: it is being filed, its content is
\* in place, or its archive is whole and its job is known -- to the running
\* program, or to the next launch.
Known(f) == LET js == IF up = "up" THEN queue \o boot ELSE pend
            IN  \/ \E i \in 1..Len(js) : js[i] = f
                \/ up = "up" /\ cur # None /\ cur.file = f
Safe(f) == \/ push # None /\ push.file = f
           \/ <<f, f>> \in out
           \/ Known(f) /\ card[Archive(f)] = Whole(f)
JobsKept == faults = 0 => \A f \in owed \ Dats : Safe(f)

\* The same of a bundle of DAT files, whose content has still to be applied
\* from the staging folder when the archive is gone.
Staged(f) == up = "up" /\ cur # None /\ cur.file = f /\ stage = f
DatsKept == faults = 0 => \A f \in owed \cap Dats : Safe(f) \/ Staged(f)

\* An app that was installed is at its place or at .bak, or the new build is
\* about to take the place, whatever single failure or power cut hits its update.
AppSurvives ==
  faults <= 1 => \A f \in Apps : \/ Exists(At("app", f)) \/ Exists(At("bak", f))
                                 \/ Applying("place") /\ At("app", push.file) = At("app", f)

\* A record is only replaced by one of the same transfer that has more of it.
ResumeGains ==
  [][(rec # None /\ rec' # None) => rec'.id = rec.id /\ rec'.have >= rec.have]_rec

\* Every waiting unpack gets its turn while the program runs.
JobsRun == queue # <<>> ~> queue = <<>> \/ up # "up"
=============================================================================
