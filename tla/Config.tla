------------------------------- MODULE Config -------------------------------
(* The collection list on the card: config.c stages every save in a temporary *)
(* file, an import rotates two backups, a restore swaps with one of them, and *)
(* a start migrates the old layout, seeds a default list and reads the file.  *)
(* All of it runs on the UI thread (but for one save of the cover scan, which *)
(* is left out: see the README).  A file is what it holds: nothing, half a    *)
(* document, or one version of the list.  fs_move is its steps, so that power *)
(* may fail between any two.                                                  *)
(* A definition marked "Variant" is the next one with a plausible slip;     *)
(* no behaviour uses it, it shows which property would notice.               *)
EXTENDS Integers

CONSTANTS
  MaxVer,     \* how many lists the user makes in this instance
  MaxRefusals,  \* how many writes or renames the card fails
  MaxCuts,    \* how many times the power fails
  Upgrade     \* TRUE: the first start follows an update from the old layout

ASSUME ConfigAssumption ==
  /\ MaxVer \in Nat /\ MaxRefusals \in Nat /\ MaxCuts \in Nat /\ Upgrade \in BOOLEAN

VARIABLES
  file,    \* what each file holds
  mem,     \* g_cfg: the version in memory
  made,    \* how many versions exist
  run,     \* "off" or "on"
  job,     \* the operation the UI thread is in
  faults, cuts

configVars == <<file, mem, made, run, job, faults, cuts>>

Absent  == 0     \* no such file
Half  == 1     \* a document that stops in the middle
Blank == 2     \* no collections: what is left when nothing can be parsed
Seed  == 3     \* the list romfs ships
Version(k) == 3 + k
Whole(c) == c >= Seed

Slots == {"bak", "bak2"}
Lists  == {"live"} \cup Slots
Files == Lists \cup {"tmp", "old"}

\* An operation remembers what the card held when it began; only properties read it.
NoJob == [op |-> "none", pc |-> "idle", half |-> "clear", in |-> Absent, slot |-> "bak",
         had |-> [f \in Files |-> Absent]]
Begin(op, pc, in, slot) ==
  job' = [op |-> op, pc |-> pc, half |-> "clear", in |-> in, slot |-> slot, had |-> file]

Doing(pc) == run = "on" /\ job.pc = pc
Proceed(pc) == job' = [job EXCEPT !.pc = pc, !.half = "clear"]
End == job' = NoJob

\* The card refuses what it is asked.
Refused == faults < MaxRefusals /\ faults' = faults + 1
-----------------------------------------------------------------------------
(* fs_move: the target is removed, the source renamed; a rename that fails is  *)
(* replaced by a copy and an unlink.                                           *)

Moves == {"migrate", "rotate", "park", "land", "unpark", "unrotate"}
From ==
  [migrate |-> "old", rotate |-> "bak", park |-> "live", land |-> "tmp", unpark |-> job.slot,
   unrotate |-> "bak2"][job.pc]
To ==
  [migrate |-> "live", rotate |-> "bak2", park |-> job.slot, land |-> "live", unpark |-> "live",
   unrotate |-> "bak"][job.pc]
Moving(half) == run = "on" /\ job.pc \in Moves /\ job.half = half

\* Variant: a failed commit does not move the parked file back.
UndoNothing == End

\* Where a failed save leaves its caller: commit_config moves back what it parked.
Undo == IF job.op = "save" THEN End ELSE Proceed("unpark")

\* commit_config looks at the outcome of config_save, and of no other move.
AfterMove(ok) ==
  CASE job.pc = "migrate"  -> Proceed("seed")
    [] job.pc = "rotate"   -> Proceed("park")
    [] job.pc = "park"     -> Proceed("open")
    [] job.pc = "land"     -> IF ok THEN Proceed("commit") ELSE Undo
    [] job.pc = "unpark"   -> IF job.op = "import" THEN Proceed("unrotate") ELSE End
    [] job.pc = "unrotate" -> End

ClearTarget ==
  /\ Moving("clear")
  /\ file' = [file EXCEPT ![To] = Absent]
  /\ job' = [job EXCEPT !.half = "rename"]
  /\ UNCHANGED <<mem, made, run, faults, cuts>>

Rename ==
  /\ Moving("rename") /\ file[From] # Absent
  /\ file' = [file EXCEPT ![To] = file[From], ![From] = Absent]
  /\ AfterMove(TRUE)
  /\ UNCHANGED <<mem, made, run, faults, cuts>>

\* The rename fails, and the copy cannot open what is not there.
NothingToMove ==
  /\ Moving("rename") /\ file[From] = Absent
  /\ AfterMove(FALSE)
  /\ UNCHANGED <<file, mem, made, run, faults, cuts>>

\* The rename is refused: the copy begins.
RenameRefused ==
  /\ Moving("rename") /\ file[From] # Absent /\ Refused
  /\ file' = [file EXCEPT ![To] = Half]
  /\ job' = [job EXCEPT !.half = "copy"]
  /\ UNCHANGED <<mem, made, run, cuts>>

Copied ==
  /\ Moving("copy")
  /\ file' = [file EXCEPT ![To] = file[From]]
  /\ job' = [job EXCEPT !.half = "unlink"]
  /\ UNCHANGED <<mem, made, run, faults, cuts>>

\* A copy that fails removes what it wrote.
CopyRefused ==
  /\ Moving("copy") /\ Refused
  /\ file' = [file EXCEPT ![To] = Absent]
  /\ AfterMove(FALSE)
  /\ UNCHANGED <<mem, made, run, cuts>>

Unlink ==
  /\ Moving("unlink")
  /\ file' = [file EXCEPT ![From] = Absent]
  /\ AfterMove(TRUE)
  /\ UNCHANGED <<mem, made, run, faults, cuts>>

-----------------------------------------------------------------------------
(* config_save *)

\* Variant: the document is written over the live file.
OpenInPlace ==
  /\ Doing("open")
  /\ file' = [file EXCEPT !["tmp"] = Half, !["live"] = Half]
  /\ Proceed("write")
  /\ UNCHANGED <<mem, made, run, faults, cuts>>

\* fopen(tmp, "wb") empties the staging file.
OpenStage ==
  /\ Doing("open")
  /\ file' = [file EXCEPT !["tmp"] = Half]
  /\ Proceed("write")
  /\ UNCHANGED <<mem, made, run, faults, cuts>>

OpenFails ==
  /\ Doing("open") /\ Refused /\ Undo
  /\ UNCHANGED <<file, mem, made, run, cuts>>

CloseStage ==
  /\ Doing("write")
  /\ file' = [file EXCEPT !["tmp"] = job.in]
  /\ Proceed("land")
  /\ UNCHANGED <<mem, made, run, faults, cuts>>

\* commit_staged: a failed write or close drops the staging file.
WriteRefused ==
  /\ Doing("write") /\ Refused /\ Undo
  /\ file' = [file EXCEPT !["tmp"] = Absent]
  /\ UNCHANGED <<mem, made, run, cuts>>

\* commit_config takes the new list into memory once it is on the card.
Commit ==
  /\ Doing("commit") /\ End
  /\ mem' = job.in
  /\ UNCHANGED <<file, made, run, faults, cuts>>

-----------------------------------------------------------------------------
(* What the user does *)

Ready == Doing("idle")
NewVersion == made < MaxVer /\ made' = made + 1

\* An edit is in memory before it is saved, and stays there if that fails.
Edit ==
  /\ Ready /\ NewVersion
  /\ mem' = Version(made')
  /\ Begin("save", "open", mem', "bak")
  /\ UNCHANGED <<file, run, faults, cuts>>

\* config_import_json: the oldest backup gives way.
Import ==
  /\ Ready /\ NewVersion
  /\ Begin("import", "rotate", Version(made'), "bak")
  /\ UNCHANGED <<file, mem, run, faults, cuts>>

\* Variant: a restore rotates the backups as an import does.
RestoreRotates(s) ==
  /\ Ready /\ Whole(file[s])
  /\ Begin("restore", "rotate", file[s], "bak")
  /\ UNCHANGED <<file, mem, made, run, faults, cuts>>

\* config_restore_backup: the live file is parked in the slot it restores from.
Restore(s) ==
  /\ Ready /\ Whole(file[s])
  /\ Begin("restore", "park", file[s], s)
  /\ UNCHANGED <<file, mem, made, run, faults, cuts>>

-----------------------------------------------------------------------------
(* A start: app_migrate_layout, seed_from_romfs, config_load *)

Start ==
  /\ run = "off" /\ run' = "on"
  /\ Begin("boot", IF file["old"] # Absent /\ file["live"] = Absent THEN "migrate" ELSE "seed", Absent, "bak")
  /\ UNCHANGED <<file, mem, made, faults, cuts>>

\* Only an absent file is seeded; the default is written in place.
SeedBegin ==
  /\ Doing("seed") /\ file["live"] = Absent
  /\ file' = [file EXCEPT !["live"] = Half]
  /\ Proceed("seeding")
  /\ UNCHANGED <<mem, made, run, faults, cuts>>

SeedNothing ==
  /\ Doing("seed") /\ file["live"] # Absent
  /\ Proceed("read")
  /\ UNCHANGED <<file, mem, made, run, faults, cuts>>

\* Whether the default was written whole is not looked at.
SeedEnd ==
  /\ Doing("seeding") /\ Proceed("read")
  /\ \/ file' = [file EXCEPT !["live"] = Seed] /\ faults' = faults
     \/ file' = file /\ Refused
  /\ UNCHANGED <<mem, made, run, cuts>>

Read ==
  /\ Doing("read") /\ End
  /\ mem' = IF Whole(file["live"]) THEN file["live"] ELSE Blank
  /\ UNCHANGED <<file, made, run, faults, cuts>>

\* Nothing is saved on the way out.
Off == run' = "off" /\ mem' = Blank /\ End
Quit ==
  /\ Ready /\ Off
  /\ UNCHANGED <<file, made, faults, cuts>>
PowerFails ==
  /\ run = "on" /\ cuts < MaxCuts /\ cuts' = cuts + 1 /\ Off
  /\ UNCHANGED <<file, made, faults>>

-----------------------------------------------------------------------------

ConfigInit ==
  /\ file = [f \in Files |-> IF Upgrade /\ f = "old" THEN Version(1) ELSE Absent]
  /\ made = IF Upgrade THEN 1 ELSE 0
  /\ mem = Blank /\ run = "off" /\ faults = 0 /\ cuts = 0
  /\ job = NoJob

ConfigNext ==
  \/ ClearTarget \/ Rename \/ NothingToMove \/ RenameRefused \/ Copied \/ CopyRefused \/ Unlink
  \/ OpenStage \/ OpenFails \/ CloseStage \/ WriteRefused \/ Commit
  \/ Edit \/ Import \/ \E s \in Slots : Restore(s)
  \/ Start \/ SeedBegin \/ SeedNothing \/ SeedEnd \/ Read
  \/ Quit \/ PowerFails

ConfigSpec == ConfigInit /\ [][ConfigNext]_configVars

-----------------------------------------------------------------------------
(* Properties *)

OnCard(c) == \E f \in Files : file[f] = c

\* While a list is saved, imported or restored, the list that was live before or
\* the one that replaces it is whole in some file: a console that dies there, or
\* a card that fills up, never takes both (config_save, commit_config).  A third
\* fault does: a park that failed unnoticed, undone, removes the only copy.
OldOrNewOnCard ==
  faults < 3 /\ job.op \in {"save", "import", "restore"} /\ Whole(job.had["live"]) =>
    OnCard(job.had["live"]) \/ OnCard(job.in)

\* An import or a restore that fails leaves the file it found, and the list in
\* memory that goes with it (the unwinding of commit_config), unless the unwinding
\* fails too.
FailureIsUndone ==
  [][faults' < 3 /\ job.op \in {"import", "restore"} /\ job.pc # "commit" /\ job' = NoJob /\ run' = "on" =>
       file'["live"] = job.had["live"] /\ mem' = mem]_configVars

\* A restore is a swap and drops no version; an import keeps the live list as
\* the newest backup and the newest backup as the older one (commit_config).  A
\* second fault may drop a version: a park whose copy fails too goes unnoticed.
BackupsAge ==
  faults < 2 /\ job.pc = "commit" =>
    /\ job.op = "restore" => {file[f] : f \in Lists} = {job.had[f] : f \in Lists}
    /\ job.op = "import"  => /\ file["bak"] = job.had["live"]
                             /\ job.had["bak"] # Absent => file["bak2"] = job.had["bak"]
=============================================================================
