# HaulNX: models, checks and proofs

HaulNX is a homebrew application for the Nintendo Switch that fills and tends a
game library on the SD card.  Games come from a download queue, from a PC over
Wi-Fi (an HTTP server inside the application), or over USB (an MTP responder).
The program is C with a C++ user interface.  This directory holds TLA+ models of
its concurrent core and of the code that has to survive a power cut, the TLC
instances that check them, and theorems about them that TLAPS proves.  Line
numbers below refer to `src/source/` unless a path is given.

1. [The system](#1-the-system)
2. [The modules](#2-the-modules)
3. [What the runs check](#3-what-the-runs-check)
4. [Fairness](#4-fairness)
5. [What is proved](#5-what-is-proved)
6. [Where the code and its comments disagree](#6-where-the-code-and-its-comments-disagree)
7. [What is not modelled](#7-what-is-not-modelled)
8. [Plan](#8-plan)
9. [Running it](#9-running-it)

## 1. The system

| Component | State | Operations | Talks to | Hard because |
|---|---|---|---|---|
| Download queue (`queue.c`) | `g_items` under `g_mtx`, `g_seq`, limit, pause latch, space hold, batch depth; `queue.json`; the `.part` files | some twenty `queue_*` calls of the UI; ten download workers, of which a limit lets some run; one extract worker | net.c, extract.c, fsutil.c, the UI's screens, box art (on landing) | threads, flags read outside the mutex, crash and restart, full card, lost network |
| HTTP server (`httpsrv.c`) | listener, main and side connection, the push being received, resume record, background delete | `httpsrv_poll` each frame, abort, close, rebind | the PC's companion, the inbox folder, the UI | two pump threads per push beside the UI thread, resumed and interrupted transfers, sleep and lost links |
| Accepted pushes (`InvApplyFile`, `Pxt*` in `MainApplication.cpp`) | inbox, waiting unpack jobs and their file, apps with a `.bak` | file, unpack, install | HTTP server, extract.c | power cuts between file operations, restarts |
| Extraction (`extract.c`, `rar3/`) | a ring of chunks between decompressor and writer thread | `extract_archive` | queue, UI, MTP | a writer thread that may fail, existing files |
| Network (`net.c`) | curl handles, stall watch | `http_download` | queue, archive.c, update.c, boxart.c | ranges, resumes, server quirks |
| MTP (`mtp/`) | USB session, object handles, ring of transfers, extract and delete jobs | one session thread, two helpers | the UI, extract.c | four threads, a protocol, unplugging |
| Box art (`boxart.c`, `InvBoxartTick`) | index under `g_ba_mtx`, its file, the companion's requests | fetch, scan, search, pick, forget | net.c, UI, HTTP and USB | lock dropped for the network; two links, two workers |
| Configuration (`config.c`) | the collection list, its staging file, two backups | save, import, restore, start | UI, fsutil.c | power cuts, failing card |
| SD usage (`sdusage.c`) | running scan, published result | request, report, shutdown | HTTP and USB threads | a scan thread replaced while reports are written |
| Caches (`hashcache.c`, `vfystatus.c`), DATs, verification | tables with (size, mtime) stamps | look up, put, save | UI worker | staleness |
| Updates (`updman.c`, `update.c`, the app manager in `MainApplication.cpp`) | the list of apps, a pool of downloads, `.bak` and kept builds with their files | check, download, swap, roll back, delete a backup | net.c, UI, accepted pushes | files swapped in steps by the UI and by a rollback thread, a list rebuilt by a third, power cuts |
| Catalogue (`archive.c`), game identification, JSON, i18n | tables and files | sequential calls | UI | – |
| UI (`MainApplication.cpp`) | screens, background tasks, mirrors of external transfers | input, one tick per frame | everything | calls any of the above between two frames |

What makes the components correct, in one line each:

* **queue** – an item is in one pair of hands; what was asked for is eventually
  downloaded, verified and installed, or ends with a reason; nothing unverified
  reaches the library; neither a power cut nor an exit forgets work; cancels,
  pauses and limits are obeyed.
* **push pump** – bytes reach the `.part` in order, the count of written bytes
  is true (a resume trusts it), no thread is left waiting, "received" means
  received.
* **connections** – nobody waits for ever behind a long transfer, a worker thread
  never outlives its connection, the server hears again after sleep.
* **accepted pushes** – what a resume skips is on the card and of that file; only
  whole files are filed; what the PC was told has arrived is not forgotten.
* **extraction** – an entry counted is whole, the archive is deleted only when all
  of it is on the card, an older file gives way only to a whole one.
* **MTP** – the byte pipe stays in step; what was acknowledged is on the card; the
  card on screen tells the truth; stopping returns.
* **box art** – an answer is that of the last request; a title the index resolves
  has its image.
* **configuration** – the old or the new list is on the card at every moment.
* **updates** – an app is never left without a build; a rollback brings back what
  the change found; what the user made of his files is not touched.

`PROJECT.json` lists every component with its status, and under `hazards` the
places where the code is hard to test, each with the properties that watch it or
the reason why none does yet.

## 2. The modules

Conventions of all of them: a critical section of a mutex is one action; what a
thread does outside is cut at each read of a flag another thread may write and
at each such write, volatile flags taken as sequentially consistent; a call that
waits is an action that is not enabled; where the power may fail, each file
operation is an action.  An operation that fails is a second action with the
same guard, or a choice in the first.  Definitions marked *Variant* are what a
plausible slip would make of the next definition; no behaviour uses them, they
were put in its place to see which property notices.

### Queue – the download queue

`Queue.tla` models `queue.c`.  Its variables are the file's globals (each
declaration names its own), the workers' program counters and locals (`wk`), the
phases of `queue_exit` (`run`), `queue.json` (`disk`), the `.part` files
(`part`), the library (`lib`), the connection (`net`) and the card's room
(`space`).  `save_locked` truncates `queue.json` before it fills it: a saving
action leaves `disk = Torn`, and `SaveDone`, which the mutex holder must take
before anyone else can lock, completes it; `Crash` may come in between.  Either half
may fail, which `save_locked` tells nobody: a file that cannot be opened stays as it
was, a short one loads as an empty queue (`"badsave"` in `Ops`).  `kept`, no variable
of the code, remembers whether the last save went through.

| Code | Actions |
|---|---|
| `dl_worker` (1019–1130) | `Pick`, `Rest`, `Wake`, `MeasureShort`, `Unclaim`, `MeasureFits`, `Done` |
| `process_item` (640–935) | `Begin`, `Receive`, `Transferred`, `SettleStop`, `SettleCancel`, `SettleShort`, `SettleWhole`, `Park`, `Fail`, `VerifyStopped`, `Verified`, `Await`, `Move`, `MoveFailed` |
| `finish_cancel`, `log_download` | `CancelRead`, `Drop`, `GiveBack`, `Log` |
| `ex_worker`, `extract_item` | `ExPick`, `UnpackStop`, `UnpackCancel`, `Unpacked`, `UnpackFailed`, `KeepRaw` |
| `queue_add`, `queue_batch_*` | `Add`, `BatchBegin`, `BatchEnd` |
| `queue_ext_*` | `ExtAdd`, `ExtFinish`, `ExtCancel` |
| `queue_cancel`, `queue_cancel_all`, `queue_cancel_by_part` and the staged delete | `Cancel`, `CancelAll`, `DeletePart` |
| `queue_retry*`, `queue_requeue` | `Retry`, `RetryStatus`, `Requeue` |
| `queue_pause_all`, `queue_set_max_dl` | `PauseAll`, `SetMaxDl` |
| `queue_move`, `queue_move_end`, `queue_clear_finished` | `MoveUp`, `MoveEnd`, `ClearFinished` |
| `queue_exit`, `queue_init`, `queue_load` | `Stop`, `ExitSave`, `Exit`, `Load` |
| the environment | `Crash`, `NetFlip`, `SpaceFlip` |

*Abstractions.*  A file is a model value, with the sets `Archives`, `Rars`,
`Sized` and `Hashed` for what is known about it.  The content of a `.part` is
absent, short, right, of the right length but wrong, or too long.  Which free
slot `queue_add` takes is left open, as is the pick among equal numbers.  Room on
the card is one Boolean for items whose size is known.  `net_is_up` is read
where the code reads it (its cache of a few seconds is left out).  The check for
room a second time at the start of a transfer may or may not fail.  `fs_move` or
`remove` and the status written after it are one step.  The retry loop within
one transfer is its set of outcomes (`Results`).  What a cut does to unflushed
data of the SD card is left out: a completed save is on the card.  Names that
are unsafe as a path, the history log and the RAR3 decoder are left out too.

*JobPool* is the abstract promise: every item is open, staged for the extract
worker, held by one worker, closed or outside; users move only what nobody
holds, and a holder alone decides what becomes of its item (a worker that
shutdown makes let go of a wrongly retried external item leaves it outside).  `Queue` implements
it under the mapping `JobOf`, `HolderOf` (`PoolSpec`).

### RxPump – receiving a streamed push

`RxPump.tla` models how `httpsrv.c` receives the body of one push (1734–2057,
2787–2938): the net thread fills slots of a bounded ring, the writer empties
them to the `.part`, the UI thread starts both, polls, stops or joins them, and
drains the socket itself when they cannot be started.  A wait on a condition
variable parks the thread in the same step and only a wake moves it on.
`rx_cancel` is read and written outside the mutex, in steps of its own; `recv`
and `fwrite` are steps outside the mutex.  Byte *k* of the file is the number
*k*, so a slot and the `.part` show where their bytes come from; offsets count
from the beginning of the file, also in a resumed push (`resume_base`).

| Code | Actions |
|---|---|
| `rx_net_fn` (1807) | `NetLoop`, `NetClaim`, `NetFill`, `NetData`, `NetQuiet`, `NetLost`, `NetPublish`, `NetEnd`, `NetExit` |
| `rx_wr_fn` (1912) | `WrTake`, `WrWrite`, `WrFail`, `WrWake`, `WrFree`, `WrExit` |
| `client_step`, start (2794) | `StartWriter`, `StartNet`, `StartNone`, `StartHalf`, `LoneJoined` |
| `client_step`, inline drain (2839) | `InlineData`, `InlineEnd`, `InlineDrop` |
| `rx_finalize`, `rx_stop`, `rx_join`, `client_reset` | `Finalize`, `Stop`, `Join`, `WakeAll`, `JoinEnd` |

*Abstractions.*  `EINTR` is skipped.  The two outcome variables of the threads
are set a step early; only the last thread out reads them.  `idx` of either
thread is `tail` or `head`, which nobody else moves.  A second `rx_stop` would
only wake threads again and is left out.  Bytes of a short inline `fwrite` are
not put in the file (the `.part` is removed).  stdio's buffer is left out but for
a failing `fclose` at the end (`Close`).  `asked` is a history variable: a resume
query has stopped this pump.

*PushStream* is the abstract promise to the rest of the server: bytes land in
order and the push ends once, accepted whole, kept short with its count, or
removed.  `RxPump` implements it (`StreamUnlessStopped`), but for a push accepted
short after a resume query, see section 6.

### InvServer – the two connection slots and the frame

`InvServer.tla` models what `httpsrv_poll` and `InvServerPoll` do in one frame of
the UI, in the order of `pc`: has the clock jumped, has the address changed, is
the item of the running push to be begun or cancelled, the side slot, the main
slot, the end of the poll.  A push is one long thing in the main slot with a
worker thread that may end by itself or be made to; how it travels is `RxPump`'s
subject and what it leaves on the card `PushInbox`'s.

| Code | Actions |
|---|---|
| the companion and its network | `Connect`, `SendHead`, `HangUp` |
| `InvServerPoll`: wake, link (`MainApplication.cpp` 6232–6330) | `WakeCheck`, `LinkCheck` with `Rebind` |
| `InvRecvXferTick` (10140–10200) | `RecvCancel`, `RecvBegin` |
| `side_*` (`httpsrv.c` 3060–3180) | `SideNobody`, `SideStep` (`SideQuick`, `SidePark`), `SideAccept`, `SideRead` |
| `httpsrv_poll`, main slot | `MainAccept`, `MainNobody`, `ServeWait`, `ServeAnswer`, `ServeStart`, `ServePull`, `ServeRm`, `ServePump`, `ServeBody` |
| end of the frame, the Tools panel | `EndOfPoll`, `Tick`, `PanelTick` |
| worker, user, console | `WorkerEnds`, `UserCancel`, `Switch`, `Sleep`, `LinkReturns` |

*Abstractions.*  A request is one of seven kinds, told apart by how the slots
treat them.  A deadline may pass whenever its connection is not finished.  What
arrives during a frame counts from the next one.  The backlog of `listen` is a
sequence of at most `Conns`.

### PushInbox – what becomes of an accepted push

`PushInbox.tla` models a push from its head to the place its file ends at: the
`.part`, the resume record in memory and on the card (the `res_` functions,
`client_reset`), `InvApplyFile` with the inbox, console folders and app builds,
the unpack jobs with their pending file (`PxtSave`, `PxtResume`), exit, launch
and power cuts.  A file is `Blocks` blocks and each block on the card says which
file it came from, so a mixture of two files shows.

| Code | Actions |
|---|---|
| `client_step`: head, body (`httpsrv.c` 2690–2790) | `PushFresh`, `PushRest`, `Receive`, `Accept`, `GiveUp` |
| `client_reset` (815–860) | `Drop` with `ClientReset` |
| `InvApplyFile` and its branches | `ApplyGame`, `ApplyConsole`, `ApplyArchive`, `ApplyApp`, `Refuse`, `Confirm` |
| app swap (`PushAppApply…`) | `Park`, `Place`, `PlaceFails`, `Clean` |
| unpack worker and `PxtTick` | `Unpack`, `UnpackFails`, `RemoveArchive`, `Tick` |
| life of the program | `Launch`, `PxtResume`, `Shutdown`, `Off`, `PowerCut` |

*Abstractions.*  Four namesake files share one name, the only relation between
names that matters.  `owed` and `out` are history variables: what was answered
200, and what an unpacking brought into place.  The record and the pending file are
written in place (`httpsrv.c` 761, `MainApplication.cpp` 7082), and a power cut there
leaves the first lines of the pending file, or no record; a write of them that fails
without a cut is left out (section 6).  `fs_move` is one rename that goes through or fails: what it does when a rename is
refused, to copy and then remove the source, is `Config`'s subject and is not repeated
here.  Staging copies that `push_app_apply` makes and the backup of the running
application (`backup_nro_before_replace`) are left out.

### ExWriter – unpacking an archive

`ExWriter.tla` is `extract_archive` of `extract.c`, from its first header to its
return, with the second thread that writes.

| Code | Actions |
|---|---|
| `ex_writer` (the thread) | `WriterTake`, `WriterWrite`, `WriterPop`, `WriterExit` |
| `ex_put`, `ex_flush`, `ex_begin_slot` | `PutThrough`, `PutJump`, `PutCopy`, `FlushSync`, `Publish`, `Begin` |
| the loop of `extract_archive` | `Open`, `Skip`, `EndOfArchive`, `ReadBlock`, `ReadBad`, `ReadEnd`, `Progress` |
| end of an entry | `Drain`, `Close`, `Swap`, `Rename`, `Count` |
| end of the archive | `Stop`, `Return` |
| another try of the caller | `Again` |

*Abstractions.*  An entry is a name and the offsets of its blocks, gaps being the
holes of a sparse file.  A mishap (bad header, bad block, failing write, cancel,
power cut) may hit anywhere, `MaxMishaps` in all.  Directories, links, sanitized
paths and the raw 7z read-ahead are left out; formats are libarchive's.

### MtpSession – the console as a USB device

`MtpSession.tla` models `mtp/mtp.cpp`, the command loop of `mtp/responder.cpp`
and the UI's tick over them.

| Code | Actions |
|---|---|
| the host and the cable | `LinkUp`, `LinkDrop`, `HostAnnounce`, `HostSend`, `HostSendLess`, `HostDelete` |
| `Responder::Run`, dispatch | `RPoll`, `RLeave`, `RSkip`, `RInfo`, `RDelete` |
| `SendObject` | `ROpen`, `RNoOpen`, `RPrime`, `RWrite`, `RReap`, `REarlyEnd`, `RBreak`, `RFail`, `RAck` |
| the extract and the delete worker | `EWait`, `ETake`, `EDone`, `DWait`, `DTake`, `DDone` |
| `mtp::Start`, `mtp::Stop` | `StartR`, `StartE`, `StartD`, `Stop`, `StopR`, `StopE`, `StopD`, `UndoE`, `UndoR` |
| `UsbMtpTick` | `TickGone`, `TickLost`, `TickMirror`, `TickCancel`, `UserCancel` |

*Abstractions.*  The host sends one command at a time.  The pipe holds what it
has yet to have read, packet by packet, and it may send less than its first packet
announces.  A file on the card is all that was sent or a part of it: a part where the
sending ended early, or where an `fclose` whose result nobody reads failed (1822,
1823).  Only a whole archive unpacks; libarchive's reading of a cut one fails, and the
archive stays.  Handles, properties, enumeration and
reads are left out, as are the mailboxes beside the box art's.

### BoxArt – covers and the companion's requests

`BoxArt.tla` models the fetch of `boxart.c`, whose index is locked for each touch
and never over the network, a scan, the companion's search and pick with its
status over Wi-Fi (`httpsrv.c`) and USB (the mailbox in `mtp.cpp`), and
`InvBoxartTick`, which serves one at a time.

| Code | Actions |
|---|---|
| `boxart_fetch`, `boxart_fetch_pick` | `Look`, `Search`, `OpenDest`, `Load`, `Remove`, `Record` |
| scan and drain | `ScanStart`, `ScanNext` |
| the user | `Forget`, `SetConsoleArt` |
| the companion | `WifiAsk`, `UsbAsk` |
| the workers of a request | `SearchRun`, `PickRun`, `PickEnd` |
| `InvBoxartTick` | `TickPoll`, `Start`, `Inline`, `TickPublish` |

*Abstractions.*  An image says only whether it is whole and whether the user chose
it.  An image pushed by the console's owner may fail to be written, noticed (it is
removed, 785–788) or not (the `fclose` of 784).  Parsing of catalogues, name matching and the index's own file are left out.

### Config – the collection list on the card

`Config.tla` models `config.c`'s saves, imports, restores and start, with
`fs_move` step by step.  A file is nothing, half a document, or a version.

| Code | Actions |
|---|---|
| `fs_move` (`fsutil.c`) | `ClearTarget`, `Rename`, `NothingToMove`, `RenameRefused`, `Copied`, `CopyFails`, `Unlink` |
| `config_save` | `Edit`, `OpenStage`, `OpenFails`, `CloseStage`, `WriteFails`, `Commit` |
| `commit_config`: import, restore | `Import`, `Restore`, and the moves above |
| `config_load` and its start-up | `Start`, `SeedBegin`, `SeedNothing`, `SeedEnd`, `Read` |
| life of the program | `Quit`, `PowerCut` |

### AppUpdates – updates and rollbacks of an app

`AppUpdates.tla` models the update manager for one app: files on the card, kept
builds with the files an update overwrote (`.files`) and the list of those it
added (`.new`), the row of the app list, and two actors that walk through files
one operation at a time: the UI thread (an update that has been downloaded, or a
build pushed by the PC) and the rollback's thread.  A file is the release it came
from, half a copy, or what the user made of it.

| Code (`MainApplication.cpp`) | Actions |
|---|---|
| `UmiStart`, `UmiTick` (8206–8568) | `UmiStart`, `UmiFails`, `UmiTick`, then the steps below |
| `copy_tree_backed` (7605–7717) | `CopyBegin`, `CopyEnd`, `CopyFails`, `CopyDone` |
| `backup_keep2` (7724) | `Keep`, `KeepEnd`, `KeepFails`, `Prune` |
| the swap (8462–8494, 7237–7259, 8700–8711) | `Park`, `Place`, `PlaceFails`, `Write`, `WriteEnd`, `WriteFails`, `Clean`, `Old` |
| `InvApplyEmuNroAt` (7200) | `Push`, then `Keep` and the swap |
| `AppRevert`, its thread and tick (8626–8782) | `AppRevert`, the steps above, `RemoveNew`, `RolledBack`, `AppRevertTick` |
| `AppChkThread` (9137) | `ScanStart`, `ScanRead`, `ScanPublish` |
| the Backups screen, the end of the program | `Delete`, `Exit`, `PowerCut` |
| outside | `Play` (the user), `Published` (a release) |

*Abstractions.*  The console's file system does not remove, rename or open for
writing what is open elsewhere; the model has that lock.  Extra files come in one
fixed order.  Where an archive's files go is fixed: the folder of the app.  A
rename is one step; `fs_move`'s second way, a copy, is taken when the source is
open for reading, and is one step too: its halves, and a copy for any other reason a
rename may be refused, are left out (`Config` has them).  `Delete` waits while the
rollback has the kept build open; the code goes on then, fails to remove the build, and
removes its `.files` and `.new` all the same.  A torn build has no version, hence the label `unknown`; whether
it passes `looks_like_nro`, which reads 20 bytes, is the constant `TornPasses`.
`snap` is a history variable: the app as the last change found it.  The list of
sources, the release check, tags, the bulk pump and pushes of a whole folder
(`push_app_apply`) are left out.

## 3. What the runs check

The `Ops` constant of `Queue` names the calls and events an instance exercises,
which keeps each question small enough to be exhausted.

| Run | Instance | Checks |
|---|---|---|
| `pipeline` | 2 slots, 1 archive, 2 download workers, limit 1–2; cancel, limit, pause all, external transfers | `NobodyStranded`, `PoolSpec` |
| `files` | 2 slots, a hashed archive RAR3 can open, 1 worker, all outcomes; cancel, retry, requeue, delete, clear | `OneWorkerPerItem`, `OneWriterPerPart`, `LibraryIntact`, `PartFollowsItem` |
| `restart` | 2 slots, an archive and a plain file; batches, both kinds of moves, saves that fail, power cuts, exits | `QueueFileAgrees` |
| `live` | 2 slots, a sized and an unsized file; cancel, exit; connection and room come and go | `Drains`, `ExitEnds`, `CancelEnds` |
| `pump` | a file of 7 bytes, a ring of 2 slots of 2 bytes, 2 timeouts | `SlotsDisjoint`, `CountedIsRight`, `StreamUnlessStopped`, `PushEnds` |
| `inbox` | a game and an app of one name, a console file, a DAT, 2 blocks each; 2 launches, 1 power cut or failing operation | `ResumeIsRight`, `LandedIsWhole`, `JobsKept`, `AppSurvives`, `JobsRun` |
| `extract` | a sparse entry, a name twice, one file that is there; rings of 0 to 3 slots of 2; 2 mishaps | `CountedIsWhole`, `ArchiveKept`, `GivesWayToWhole`, `Ends` |
| `slots` | 2 connections, all kinds of request, 2 faults (sleeps, lost links, workers that do not start) | `WorkerIsOwned`, `ItemEndsWithPush`, `NobodyWaitsForever`, `HearsAgain` |
| `usb` | a game and an archive in 2 chunks, a ring of 1 transfer, 2 numbers; 1 start, 1 fault (of any kind: an early end, a failing write or close, a dropped link, a cancel, a delete) | `PipeInSync`, `GameOnDisk`, `NoGhostCard`, `StopReturns` |
| `art` | 1 title, 2 requests, 1 scan, 1 edit of the user (a cover forgotten, pushed, or pushed in vain) | `PollIsOfLastRequest`, `HitHasImage`, `AnswersCome` |
| `config` | 5 versions, 3 failing operations, 2 power cuts, from before and after an upgrade | `OldOrNewOnCard`, `BackupsAge`, `FailureIsUndone` |
| `update` | 3 releases, the last under a new file name; a shipped file, an added one and one in the user's folder; 3 changes, deletions or faults, one of them a fault | `BuildSurvives`, `RollbackRestores`, `UserDataKept` |

*Why the bounds are enough to be interesting.*

* *Queue.* Two slots are the least for two items to compete for a worker, a
  number, a `.part` or the room, and for a reordering to change anything; two
  download workers and one extract worker are the least for every pair of
  workers to meet.  `MaxSeq = 2` bounds the numbers handed out: `Add` waits when
  they are used up, and a renumbering or a cleared list makes room again, so
  numbers are reused, which is where they might collide.  The real limits are
  256 items, ten workers and 32 bits.  Symmetry among slots and download workers
  is used in the safety runs; the slots' order in the array matters nowhere but
  in the choices left open.
* *RxPump.* The file takes up to four slots, so a ring of two fills, empties,
  wraps twice, and ends in a partly filled slot; every cut of the body into
  `recv` results happens, and any offset to resume from.  40 timeouts became 2:
  the count matters only by reaching its limit or being reset.
* *PushInbox.* Two namesakes are what it takes to mix two files; two blocks what
  it takes to have a half; two launches let a record written before a cut be
  offered, refused and replaced.
* *ExWriter.* A ring of 0 or 1 is the path without a thread; 2 is the code's own
  size; 3 shows that nothing depends on it.  Blocks straddle a slot's end.
* *InvServer.* Two connections fill both slots while a third request (of a
  connection that was closed) waits in the backlog.
* *MtpSession.* The ring of transfers is 16 in the code and 1 here, so a row is
  overwritten by the second transfer, which in the code takes seventeen.
* *BoxArt.* Two requests are the least for one to overtake another, on either
  link and in each order.
* *Config.* Three failing operations: one in the commit and one in what undoes it
  leave the list on the card, with the third it can be lost, see section 6;
  `OldOrNewOnCard` and `FailureIsUndone` speak of fewer than three.

* *AppUpdates.* Three releases make a rollback meet the builds before and after;
  three changes are the least for an update, its retry and a rollback, or for a
  rollback to overlap with an update that was begun on a stale row.

The bounds of faults, requests and launches are conjuncts of the actions that
use them up.  `CHECK_DEADLOCK FALSE` stands where the system may stop: the
process is gone (`live`), the program is finished or its bounds are used up
(`inbox`, `extract`, `usb`, `art`, `update`).

*Properties of note.*  `PoolSpec` and `StreamUnlessStopped` are refinements.
`LibraryIntact` relates the library to every path a file can take into it, and
is checked without power cuts: with them it fails, see below.
`QueueFileAgrees` relates memory to the card both ways: nothing owed is missing
from the file, nothing finished comes back; and after saves that failed, the next one
that goes through restores that.  `GameOnDisk` and `HitHasImage` also speak of a
card that fails: of a file the host was told has arrived at least what came stays, a
title loses its image to a failure only, and gets it back with the next one that is
written whole.  `ResumeIsRight` and `CountedIsRight`
are the two halves of a resumed push: the pump counts only what it wrote, and
the record offers only what the pump counted.
`BuildSurvives` is two promises: under one failure the app ends up in its place;
after a power cut, or with a rollback and an update at work at once, it is at
least on the card.  `RollbackRestores` compares a rollback with the app as the
change that filled its backup found it, which the history `snap` remembers as
long as that change and what followed it had no fault and overlapped with nobody.
`FailureIsUndone`, `GivesWayToWhole`, `ItemEndsWithPush`,
`NoGhostCard` and `UserDataKept` are action properties: they speak of the one step at which things could go wrong.

## 4. Fairness

Nothing is assumed of the user, of the peers, of the connection or the card's
room; what fails may fail, and need not.

* `Queue!FairSpec`: weak fairness of every step of a worker, of completing a
  save, of ending a batch, and of the steps of `queue_exit`.  The workers sleep
  for bounded times when idle (`Rest`, `Wake`); a transfer ends because curl
  aborts one below its low-speed limit; hashing and unpacking are finite; a batch
  is ended by the function that began it; the UI thread joins the workers once it
  has cleared `g_run`.  Properties that need a connection and room say so
  (`<>[](net /\ space)`).
* `RxPump!FairSpec`: weak fairness of each pump thread (as a whole), of the
  start-up, and of the UI's polling.  `recv` returns after 500 ms at the latest,
  `fwrite` returns, and `httpsrv_poll` runs every frame.  `PushEnds` needs no
  kind peer: silence ends a transfer after `stall_max` timeouts.
* `PushInbox!FairSpec`: weak fairness of the unpack worker, of the boot's
  `PxtResume`, of applying an accepted file, of the dialogs (the user answers
  one way or the other), and of the steps of a swap; strong fairness of `Tick`,
  because a frame comes again and again although a push or a dialog may hold it
  up for a while.
* `ExWriter!FairSpec`: weak fairness of the decompressor and of the writer.
* `InvServer!FairSpec`: weak fairness of the frame, of the link's return, and of a
  worker's end once it must end; strong fairness that the deadline of a waiting
  connection passes (deadlines are checked once a frame, and a frame may be
  spent on something else).  A transfer may last for ever: nobody else may have
  to wait for it.
* `MtpSession!FairSpec`: weak fairness of the responder's loop, the two workers,
  and the UI thread.  USB waits have timeouts, also with no host.
* `BoxArt!FairSpec`: weak fairness of the tick and of a request's worker: network
  calls time out.
* `Config` and `AppUpdates` state no fairness: nothing there is owed.

## 5. What is proved

For every number of slots, files and workers, and every limit (`QueueAssumption`:
finite sets, workers distinct, at least as many numbers as slots):

* `QueueProofs!TypeCorrect` – `Spec => []TypeOK`.  Not a formality: that
  `queue_move_end` renumbers within bounds needs a bijection of the listed items
  onto an interval, that an item in the list has a number and a file is used by
  `item_part_path`.
* `QueueProofs!OwnersCorrect` – `Spec => []OneWorkerPerItem`.

The first two follow from `Invariance`: `IInv` = `ItemsInv` (types, and every listed item
has a number and a file), `CrewInv` (types of workers, a worker past its first
steps knows a `.part`, `OneWorkerPerItem`), the types of the rest, and that no
worker is awake when the program is down.  The proof has a lemma per action.
The key step is that the UI's calls change only the status of items that no
worker holds (`OthersKeepCrew`), and that a worker takes only items in a status
that no held item has (`TakeKeepsCrew`).

With `NobodyAssumption` (the name for "nobody" is no worker's):

* `QueueProofs!NoneStranded` – `Spec => []NobodyStranded`,
* `QueueProofs!QueueFileCorrect` – `Spec => []QueueFileAgrees`,
* `QueueProofs!Implements` – `Spec => PoolSpec`, the refinement of `JobPool`.

The first two are not inductive.  `Promises` adds what a worker's place in its
routine says of its item's status (`Early`: the states in which it still holds an
item and those in which it has let go), that a free slot is a blank record
(`Empty`), and that `queue.json` agrees with memory whenever no batch is open
and the last save went through (`Agrees`): an action that saves leaves a file to be
filled or an unkept one (`Filed`), and `SaveDone` lists what is owed or is unkept.
The argument has one shape for every action: a worker's step is a
`Turn`, in which it takes an item, keeps it, lets it go or rests, and touches no
other worker's; a UI call deals each item a `Fate` of its own.  The cases of
`Turn` and `Fate` are the actions of the abstract pool: `Takes` is its `Take`,
`LetsGo` its `LetGo`, a call its `Command`, the rest stutter; a power cut or an
exit is its `End`, a load its `Restore`.

* `QueueProofs!NumbersDiffer` – for every mix of calls no two items, in memory
  or in a completed `queue.json`, carry one number (`Numbered`),
* `QueueProofs!PathsAgree`, `WritersApart` – without `queue_move_end` the worker's path is its
  item's `.part`, and a `.part` has one writer,
* `QueueProofs!LengthsCorrect` – without it, what enters the library has the
  length the item announced, over restarts too,
* `QueueProofs!LibraryCorrect` – without it and without restarts, nothing that
  failed verification reaches the library,
* `QueueProofs!PartsFollow` – without both kinds of moves, a `.part` is there
  exactly as long as somebody needs it (`PartFollowsItem`): a waiting archive has
  its own unless it is being cancelled, an item that has landed leaves none.

The conditions are on the constant `Ops` and name the calls of the code that
break these promises: `queue_move_end` renumbers items in workers' hands;
`queue_move` swaps the number of a finished item with that of a waiting one of the
same file; a load trusts the length of a `.part` that was never verified
(section 6).  They are what the `files` run leaves out, and nothing else is: all other
calls, power cuts included where not named, are in the theorems.
`Numbered` needs to know that `g_seq` is past every number, also those of
the file a load will read; `WorkerFile` that a worker's path is that of the item
it holds; `ItemFile` what each status says of the `.part`.

For any versions and any numbers of faults, cuts and edits:

* `CardProofs!ListIsKept` – `ConfigSpec => []OldOrNewOnCard` (of fewer than three faults),
* `CardProofs!BackupsAreAged` – `ConfigSpec => []BackupsAge` (of fewer than two),
* `CardProofs!FailuresAreUndone` – `ConfigSpec => FailureIsUndone` (of fewer than three),
* `CardProofs!ListTypeCorrect` – `ConfigSpec => []ListTypeOK`.

A move is up to five steps, each may fail, and what undoes it may fail again; the
invariant says, for each place in a save, an import or a restore, which of the
four files then holds the list in force, and how many operations must have
failed for it to be none.  A power cut leaves any such state to the next start.

For every body, ring and slot size and every timeout limit (`PumpAssumption`:
positive numbers):

* `RxPumpProofs!NoSlotRace` – `Spec => []SlotsDisjoint`,
* `RxPumpProofs!ProgressExact` – `Spec => []CountedIsRight`,
* `RxPumpProofs!TypeCorrect` – `Spec => []TypeOK`,
* `RxPumpProofs!ImplementsStream` – `Spec => StreamUnlessStopped`.

`CountedIsRight` is not inductive: one has to know what the ring holds.  `IInv`
says that the filled slots are the `count` ones from `head` to `tail` (`Shape`),
that each holds consecutive bytes which continue those of the slot before it,
from what is written up to what is received (`Chain`), that the slot being
filled is not one of them and goes on where they end (`Filling`), how the
threads come and go (`Idle`, `Ending`), and that a writer that left without an
error and without a resume query left an empty ring (`Outcome`).  The last one
gives the refinement: `RX_OK` then means that everything was written.

For any files and any mix of their kinds, any number of blocks, launches and faults
(`InboxAssumption`: a push is of one kind; `NoneAssumption`):

* `PushInboxProofs!TypeCorrect` – `Spec => []TypeOK`,
* `PushInboxProofs!ResumeOnlyGains` – `Spec => ResumeGains`,
* `PushInboxProofs!ResumeCorrect` – `Resumable => (Spec => []ResumeIsRight)`,
* `PushInboxProofs!LandedCorrect` – `Resumable /\ Apart => (Spec => []LandedIsWhole)`,
* `PushInboxProofs!JobsCorrect` – `Resumable /\ Apart => (Spec => []JobsKept)`,
* `PushInboxProofs!AppsCorrect` – `Apart => (Spec => []AppSurvives)`.

The conditions speak of constants, and each is a promise the code needs and does not
make.  `Resumable`: no name is pushed both with and without a resume id, and closing
a kept partial does not fail; without it the record can lie (section 6).
`Apart`: no archive that is to be unpacked shares its place with another file.  A
folder's or a DAT bundle's archive waits at the `.part` it was received in, a game's
in its console folder, and nothing keeps a later push of that name from replacing
it there.  The run's instance meets both, and has names that are shared otherwise.

None of the four invariants is inductive.  `Base` says what else goes on while a push
is filed (`Flow`: no inline unpack, no job still to be read, nothing across a clean
exit), that only what is to be unpacked becomes a job (`Works`), and whose the record
is (`Resumes`: never a file that has been answered, and with a push under way it
is that push's, with no more than it has).  `Bytes` then says that the first blocks of a
`.part` are those of the push or the record that claims them, which with the
lemma `Shrinks` (every other step takes a `.part` away or leaves it) gives
`ResumeCorrect`; `Filing` and `Unpacking` say what may lie where, the archives at
their waiting places included.  `Opened` (a job past its archive has its content in
place) and `JobsHeld` (the pending file lists what the program has to do) give
`JobsCorrect`, with `ArchiveStays` and `KnownStays` as its two steps; `Installing` says
where both builds are in each phase of a swap, for `AppsCorrect`.

For any archive, with sparse entries and with names and offsets that repeat, any
ring and chunk size and any number of mishaps (`ExWriterAssumption`):

* `ExWriterProofs!TypeCorrect` – `Spec => []TypeOK`,
* `ExWriterProofs!RingCorrect` – `Spec => [](SlotsApart /\ RingIsOfThisFile)`,
* `ExWriterProofs!CountedCorrect` – `~RenameFails => (Spec => []CountedIsWhole)`,
* `ExWriterProofs!CountedUnlessMissing` – `Spec => [](~incomplete => CountedIsWhole)`,
* `ExWriterProofs!ArchiveCorrect` – `Spec => []ArchiveKept`,
* `ExWriterProofs!GivesWayCorrect` – `Spec => GivesWayToWhole`.

A rename that fails after the old file is gone takes a counted entry of that name
with it (section 6), so the first needs `~RenameFails`; the archive stays
then, which is why the last two need nothing.  What has been read of an entry lies in
the file, in the slots that wait and in the chunk being filled.  The invariant says
that all three hold blocks of this entry at their offsets (`Blended`, `Queued`), and that
together they are what has been read, no more and no less, while nothing has failed
(`Covered`); so when the ring and the chunk are empty and the end is reached the
file is whole (`FileIsWhole`).  `Shape` says which slots wait, without remainders:
`RingGrows` and `RingShrinks` are the arithmetic.  A slot that the writer has
written but not freed counts twice, which does no harm.  `Counted`, `Tallied` and `Kept`
carry the result over the later entries and to the caller.

For any number of connections, whatever they ask for, and faults (`ServerAssumption`):

* `InvServerProofs!TypeCorrect` – `Spec => []TypeOK`,
* `InvServerProofs!PlacesCorrect` – `Spec => []OnePlace`,
* `InvServerProofs!WorkerCorrect` – `Spec => []WorkerIsOwned`,
* `InvServerProofs!ItemsEnd` – `Spec => ItemEndsWithPush`.

The last needs the others.  An item is named after the connection in the main slot,
so it must be known that no connection of that name can wait elsewhere (`Placed`:
backlog, side and main slot share nothing and hold what is open; `Items`: who waits
has no item) and that what is in the slot is at the work its own request asked for
(`Working`), which a rebind leaves alone.  `Framed` ties a frame's place to what it
finds, `OnePlace` follows from `Placed` by counting.

For any titles and any number of requests, scans and edits (`BoxArtAssumption`):

* `BoxArtProofs!TypeCorrect` – `Spec => []TypeOK`,
* `BoxArtProofs!PollCorrect` – `Spec => []PollIsOfLastRequest`,
* `BoxArtProofs!ImagesCorrect` – `Spec => []HitHasImage`.

A request passes through the mailbox, the waiting slot, the job and the outcome.  The
invariant says that the foremost of these is no older than the last one asked for
(`AtLeast`), that the last of a kind in the mailbox is the last asked for over USB
and none there is older than one over Wi-Fi (`Mailed`), and that nothing is shown
while something waits or runs (`Quiet`).  `ArtInv` extends `HitHasImage` to a thread
that is about to record a hit; `Linked` that the pick thread works for a running job.

For any files, archives and slots of the ring, and any number of transfers, packets,
sessions and faults (`MtpAssumption`):

* `MtpSessionProofs!PipeCorrect` – `Spec => []PipeInSync`,
* `MtpSessionProofs!GamesCorrect` – `Spec => []GameOnDisk`,
* `MtpSessionProofs!CardsCorrect` – `Spec => NoGhostCard`,
* `MtpSessionProofs!TypeCorrect` – `Spec => []TypeOK`.

Neither of the first two is inductive.  That no data is read as a command needs the
pipe's whole shape: one command at a time, which the host waits for and which a send
only follows once the announcement has been answered (`Commanded`); and, for each
place of the receive loop, how many of the packets behind it are still to be taken
(`InSync`): a copy that fails or is cancelled reads on to the end, a dropped link
empties the pipe, and only a stopping session leaves data behind unread.  Of a file
that ends early one packet less is on its way than announced, and an empty one in its
place (`Lined`); a file that
cannot be opened is the exception the property names.  That a game stays
on the card needs to know who may still remove a file (`Placed`): a delete that is
queued or in hand, and an unpacking that ends with removing its archive, have a file
the host has given up, or one that came to its path before they were done, which
is the exception `GameOnDisk` names.  `Whole` says that a path never holds all of
a transfer that was cut, so that no worker unpacks one.  `Threads` says which worker exists in
which step of Start and Stop, so that a worker that is joined is not also at work.
`NoGhostCard` rests on `UnzipIsInHand`: a row that shows an unpacking belongs to a job
that is queued or in the worker's hands, because row and job are given the same
transfer's id.

For any releases and what they ship, extra files, folders of the user's, labels,
jobs, and any number of operations and faults (`UpdatesAssumption`: contents,
names and `None` differ):

* `CardProofs!TypeCorrect` – `Spec => []TypeOK`,
* `CardProofs!NoUserDataLost` – `Spec => UserDataKept`,
* `CardProofs!RollbackCorrect` – `Spec => []RollbackRestores`,
* `CardProofs!BuildKept` – `MaxFaults \in {0, 1} => (Spec => [](spent.rough \/ BuildSurvives))`.

That an update skips a user's file it finds is one guard; that nothing else reaches
such a file is not.  A rollback copies every file a backup holds, a failed copy
puts back what had been moved, and the two may be at work at once.  `DataInv` says
that no backup ever holds a file of a user's folder, that a rollback has none to
copy, and that a copy in progress over one did not find the user's own there and
has moved nothing.  The lemma of each action splits on whether the files it changes
are the user's (`QuietFiles`, `OneOfTheirs`).

`BuildKept` is the first of `BuildSurvives`' two promises.  Its hypothesis is what the
promise says, one failing operation; with two it is false (section 6).  What the
property itself excepts, a backup the user deletes during a rollback or with no whole
build in place, it excepts too.  `Sound` says,
for every place in a change, which builds are whole: before the swap the one in its
place is, between park and place the parked or the kept one, and when the new one is
only a copy in the making the one it is copied from.  A file that would have to be
restored after a failure is restored by a step that can no longer fail, since the one
fault is spent; that is where the hypothesis enters.

`RollbackCorrect` needs two invariants.  `SnapInv` says what the backup of the last
change owes while that change goes on and after it: every extra file is either in the
backup as it was found, or on the card untouched, or was not there and is listed as
added (`Saved`), and what is still to be copied keeps it so (`OwesTodo`); the build is
kept, or still in its place while the keeping has not begun (`OwesBuild`).  `GoalInv` takes over when
a rollback to that backup begins, and says for each of its phases what it has given back
and what it has yet to give (`CopyBack`, `DueBuild`).  The two meet in `AppRevert`.
Pruning, deleting, a second try under the same label, a rollback elsewhere
and a scan of the list in between each have to keep or to cancel what is owed.

Only model-checked: all of liveness (`Drains`, `ExitEnds`, `CancelEnds`, `PushEnds`,
`JobsRun`, `Ends`, `NobodyWaitsForever`, `HearsAgain`, `StopReturns`, `AnswersCome`), which needs
fairness and `ENABLED` and is beyond the provers; and the second promise of
`BuildSurvives`, of what is left on the card after a power cut or when two were at work at
once.  That half holds for three operations in the run, and for four with two
releases, the second under a new name, and one added file; four in the run's own instance are
too many to be exhausted.

## 6. Where the code and its comments disagree

The code does not keep these promises.  No run is spent on them; each
names the instance that shows it (add the property to that configuration), or
says that it was found by reading.

*Queue and pump.*

* `QueueSurvives` (restart): `save_locked` returns without a word when `queue.json`
  cannot be opened (368–371), and looks at the result of no write nor of the `fclose`
  (372–409).  Until the next save that goes through, the file is the old list or
  loads as an empty queue, although 355 says the items are written "so the queue
  survives an app restart".
* `PathAgrees` (files, with `Ops` add, moveend and clear): `queue_move_end` (1853)
  renumbers every listed item, those in transfer included, and the `.part` is
  named after the number.  The worker goes on writing under the old one while the
  extract worker, a resume or the loader looks for the new; 425 says of `seq`
  that it is unique "for the item's whole lifetime", 414 that the callers "can
  never drift out of agreement".
* `ExternalIgnored` (pipeline, with `"retry"` in `Ops`): retry all failed (1735)
  queues a failed external transfer, and a download worker takes it with an
  empty address; `queue.h:155` says external items are not the workers'.
* `PauseHolds` (pipeline): changing the limit (1190) takes back the pauses that
  pause all has just asked for; `queue.h:242`.
* `LibraryIntact` (files, with `"crash"` and `"start"`): `save_locked` (404) lists an item
  under verification as downloaded; after a power cut it is extracted on the
  strength of its length; `queue.h:27`.
* `ReceivedIsWhole` (pump): a resume query stops the pump (3040) while the last
  `recv` returns: the writer has left its empty ring (1922), the net thread
  publishes the last slot and reports `RX_OK` (1975), and `rx_finalize` answers
  "received" for a file whose end was never written.

*Accepted pushes.*

* `ResumeIsRight` (inbox, with a file in `NoId`): a push without a resume id
  truncates the `.part` an older record names (2727); with `FlushFails = TRUE`: a
  failing `fclose` of a kept partial goes unnoticed (841), so "have" may claim
  bytes that never left stdio.
* `DatsKept` (inbox): the archive of a bundle of DATs is removed once it is staged
  (`MainApplication.cpp` 6998); an exit before the staged files are applied loses
  what the PC was told had arrived.
* By reading: `res_save` and `PxtSave` return without a word when their file cannot be
  opened and look at no write.  An older record then outlives its `.part` and may be
  offered for the next file of that name; an unpack job is lost, or done again.

*Extraction.* `OriginalStays` (extract, `RenameFails = TRUE`): an existing file is
removed before the new one is renamed (599); if the rename then fails, neither is
there.

*Connections.* `NeverDeaf` (slots): between the moment the console wakes and the rebind the
old socket is polled (6236).  `ItemIsLive` (slots): a push cancelled and replaced
within a frame leaves the new one with the old card (10196).  By reading: a
folder request answered "queued" is lost when the server goes off and on.

*MTP.*

* `AckedIsWhole` (usb): a file that ends before its announced length is trimmed and
  answered Ok (`mtp/responder.cpp` 1822), while 1825 calls "an incomplete write
  (cancel, disconnect, or short read)" garbage; and the `fclose` of 1823, where "a full
  card usually surfaces" (`fsutil.c` 215), is not looked at before the Ok.  A part of a
  game then stands for it, with an Ok to the host.
* `CancelHitsItsTarget` (usb): the cancel of a card is applied to whatever
  transfer runs when the flag is read (`MainApplication.cpp` 10938).
* `PushedStays` (usb, no archives, `MaxFaults = 2`): a cancelled overwrite removes what
  it was to replace (`mtp/responder.cpp` 932).
* By reading: a failed `fopen` leaves the data phase on the pipe; a row that falls
  out of the ring of 16 while its archive is unpacked leaves its card running;
  `Start` clears the delete list after the responder has begun; deletes that were
  acknowledged, and unpackings that were queued, are dropped by `Stop`; an
  announcement without a send leaves its row active; the folder mailbox drops
  what comes after the eighth; pushed art is staged in one fixed place.

*Box art.*

* `ChoiceStays` (art, as an invariant): a fetch that began earlier writes over what the
  user has picked (`include/boxart.h` 67).
* `HitIsWhole` (art): `boxart_set_console_art` empties the old image as it opens it
  (779) and on a short write removes it and returns (785–788), with the index's
  old hit left; an `fclose` that fails (784) has a part of an image recorded.  A re-pick
  that fails removes the image while the index keeps its hit, too.
* By reading: a download cut in its body is recorded as a miss; a pick queued behind
  a newer search reads that one's results.

*Configuration.* `OldOrNewOnCard` does not mean that the program will find it: a
start after a cut between the removal of the list and the rename of its stage
seeds the default list (`config.c` 805–808, while `include/config.h` 53 promises
the previous one).  After a third failing operation the list can be lost.  A failed
import loses the older backup.  By reading: `BoxArtScanThread` saves the same
stage from its own thread (`MainApplication.cpp` 17046).

*Updates.*

* `BuildSurvives` with `TornPasses = TRUE`: a copy cut by a power loss in
  `backup_keep2` is never made again (7731 asks only whether it exists), passes
  `looks_like_nro` (1510), and a rollback to it replaces the whole build and drops
  the `.bak`.  With `MaxFaults = 2`: where parking fails the installed build is removed
  (8469), and if the move then fails too only the kept copy is left, which the
  list does not show as installed.
* `RollbackRestores`, if a change under a label that has a backup already owed what the
  first one did (update, with `MaxOps = 4` and `Replaced(l)` in `Owed` taken for true): `UmiStart` notes
  the label of the backup (8206–8254), `UmiTick` uses it when the download has
  ended.  A rollback meanwhile moves a file that the former update had added into its
  own backup.  The update then finds the file missing and lists it as added under the stale
  label (8433), and a later rollback to that one first puts it back and then removes it
  (7763–7815), although 7584–7587 says that every replaced file comes back.  `Owed` owes nothing in that case.
* By reading: `backup_keep2` may prune what it has just made room for.  After
  A→B, B→C and a rollback to A the copy of A is the oldest; the next update of A
  finds it, does not copy again, and prunes it with its fresh `.files` and `.new`
  (7728–7741).  "The first one kept is the true original" (7587) fails when
  a cut left a mixture behind, or when the folder's content is not a function of
  its version; versions without a digit share the label `unknown`.  A rollback
  over two updates does not undo the middle one's files.  After a cut between park
  and place only the `.bak` exists; nothing puts it back, the list calls the app
  not installed, and a fresh install does not spare the user's files.
* By reading: a rollback and an update or push at work at once share
  `<dest>.bak`; deleting the backup meanwhile may then cost the app.
  `AppBulkPump` (9944) reads the list while `AppChkThread` publishes it, although
  8518–8526 says that every touch point waits for it.  A rollback begun over a
  running one joins it without its tick (8664), so its card never ends.

## 7. What is not modelled

`PROJECT.json` names every part.  Most of the program by length is its screens
(`MainApplication.cpp`, `CardGrid.hpp`, `MainApplication.hpp`: some 27 000 lines
of layout, drawing, menus and input); a model of them would say nothing beyond
their code, and only the functions they run each frame over the shared state are
modelled, with the component they serve.  Left out for good besides them: parsing
and formatting (JSON, HTTP heads, Internet Archive metadata), lookup tables,
translations, pure computations (hashes, the vendored RAR3 decoder), packaging.

Left out for now, with state worth a model: the MTP handle table and enumeration,
the SD usage scan (a scan thread replaced while reports are written), the hash
and verification caches (staleness by size and time), the life of a background
task of the UI, the retry loop of `http_download`, the application's own update,
and the verify and tidy workers.  Abstracted inside the modelled parts: byte
counters, rates, the CPU boost count, log texts, the sanitizing of names.

## 8. Plan

Done: `Queue` with `JobPool`, `RxPump` with `PushStream`, `PushInbox`,
`InvServer`, `ExWriter`, `MtpSession`, `BoxArt`, `Config`, `AppUpdates`.  In this order
next:

1. `MtpObjects`: the handle table, enumeration and reads against deletes and
   Wi-Fi pushes into the same folders.
2. `SdUsage` and `BgTask`: scan, cancel, replace and report.
3. `Fetch`: the retry loop of `process_item` and `http_download`'s decision to
   resume, refining `Queue`'s set of outcomes.
4. The caches, with verification as their user.

A theorem to come: the second promise of `BuildSurvives`, for which the invariant has to say what
survives of two changes at work at once.

## 9. Running it

    tlc -workers 2 -config MCQueue_pipeline.cfg MCQueue
    tlc -workers 2 -config MCInvServer_slots.cfg MCInvServer
    tlapm QueueProofs.tla
    tlapm RxPumpProofs.tla
    tlapm CardProofs.tla
    tlapm MtpSessionProofs.tla
    tlapm PushInboxProofs.tla
    tlapm ExWriterProofs.tla
    tlapm InvServerProofs.tla
    tlapm BoxArtProofs.tla

and so on for the other configurations.  On two cores `live` takes under three
minutes, `slots`, `usb`, `restart` and `files` about two, the other runs a minute or so or seconds; each proof
module takes between one and seven minutes.
