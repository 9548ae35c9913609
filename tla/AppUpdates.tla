----------------------------- MODULE AppUpdates -----------------------------
(***************************************************************************)
(* The update manager of source/MainApplication.cpp, for one app: updates  *)
(* downloaded by a pool of jobs and swapped in on the UI thread (UmiStart, *)
(* UmiTick), a build pushed by the PC (InvApplyEmuNroAt), the rollback to  *)
(* a kept build on a thread of its own (AppRevert, AppRevertThread), and   *)
(* the list of apps, which a scan thread rebuilds (AppChkThread) and whose *)
(* row tells an update the path and the version it replaces.               *)
(*                                                                         *)
(* A release is a number, in the order of publication: its .nro and the    *)
(* extra files it ships.  A file on the card is the release it came from.  *)
(* A backup has a label, the version string of the build it keeps, and     *)
(* holds the .nro, the extra files that were overwritten (.files), and a   *)
(* list of those that were added (.new).  The UI thread ("ui") and the     *)
(* rollback ("rev") go through the files one operation at a time; a file   *)
(* one of them has open cannot be removed, renamed or written by the other *)
(* (the console's file system).  The power may go between any two steps.   *)
(*                                                                         *)
(* A definition marked "Variant" is the next one with a plausible slip;    *)
(* no behaviour uses it, it shows which property would notice.             *)
(***************************************************************************)
EXTENDS Integers, Sequences, FiniteSets

CONSTANTS
  Releases,  \* builds of the app, 1..n
  Extras,    \* the other files that releases ship
  UserData,  \* ... in a folder of the user's own (config, roms, saves)
  Ships,     \* release |-> the extras in its archive
  NameOf,    \* release |-> the file name of its .nro
  LabelOf,   \* release |-> its version string
  Jobs,      \* slots of the pool (UMI_MAX)
  Own,       \* content: what the user made of a file
  Torn,      \* content: a copy that was cut
  None,
  TornPasses, \* whether a cut .nro passes looks_like_nro, which reads its first 20 bytes
  MaxOps,    \* bound: changes and deletions begun, power cuts, failing file operations
  MaxFaults  \* bound: power cuts and failing file operations among them

Names  == {NameOf[v] : v \in Releases}
Labels == {LabelOf[v] : v \in Releases} \cup {"unknown"}

ASSUME UpdatesAssumption ==
  /\ Releases = 1..Cardinality(Releases) /\ 1 \in Releases /\ UserData \subseteq Extras
  /\ Ships \in [Releases -> SUBSET Extras]
  /\ DOMAIN NameOf = Releases /\ DOMAIN LabelOf = Releases
  /\ {Own, Torn, None} \cap Releases = {} /\ Own \notin {Torn, None} /\ Torn # None
  /\ None \notin Names \cup Labels \cup Extras \cup Jobs

VARIABLES
  card,   \* what each file on the card holds
  new,    \* label |-> the extras listed in its .new
  age,    \* the labels that have a kept .nro, newest first
  latest, \* the release the source offers
  row,    \* the app's row of the list: path and version
  scan,   \* AppChkThread while it runs: the row it has read, or none yet
  jobs,   \* the pool: downloads, and what they are to replace
  act,    \* what "ui" and "rev" are doing to the card
  snap,   \* the app as the last change found it (a history variable)
  spent   \* operations and faults so far; whether the power was cut or the two
          \* were at work at once; whether the user has deleted a backup during
          \* a rollback, or with no whole build in place

vars == <<card, new, age, latest, row, scan, jobs, act, snap, spent>>
book == <<new, age>>
list == <<latest, row, scan>>

Nro(n)     == <<"nro", n>>
Bak(n)     == <<"bak", n>>
Extra(e)   == <<"extra", e>>
Kept(l)    == <<"kept", l>>
File(l, e) == <<"file", l, e>>
Paths == {Nro(n) : n \in Names} \cup {Bak(n) : n \in Names} \cup {Extra(e) : e \in Extras}
         \cup {Kept(l) : l \in Labels} \cup {File(l, e) : l \in Labels, e \in Extras}

Contents == Releases \cup {Own, Torn, None}
Rows     == [path : Names \cup {None}, label : Labels]
Snaps    == [label : Labels, nro : Contents, extra : [Extras -> Contents]]

Exists(p)   == card[p] # None
Removed(ps) == [p \in Paths |-> IF p \in ps THEN None ELSE card[p]]
\* backup_label of a file's version, which a torn .nro does not have.
Label(c)    == IF c \in Releases THEN LabelOf[c] ELSE "unknown"

Fine   == UNCHANGED spent
Op     == spent.ops < MaxOps /\ spent' = [spent EXCEPT !.ops = @ + 1]
Faulty == /\ spent.ops < MaxOps /\ spent.faults < MaxFaults
          /\ spent' = [spent EXCEPT !.ops = @ + 1, !.faults = @ + 1]

-----------------------------------------------------------------------------
(* The two that change files.  pc: "extras" while the files of todo are put in  *)
(* place, "copy" within one of them; "keep", "keeping", "prune" in backup_keep2;*)
(* "park", "place" or "write", "writing", "clean", "old"; for a rollback        *)
(* "rnew", and "reap" when its thread is done.                                  *)

Actors == {"ui", "rev"}
Idle == [pc |-> "idle", op |-> "none", ver |-> None, dest |-> None, old |-> None, label |-> None,
         src |-> None, root |-> None, todo |-> {}, cur |-> None, moved |-> FALSE, added |-> {},
         restore |-> FALSE, ok |-> FALSE, goal |-> None, job |-> None]

At(a, pc)   == act[a].pc = pc
Goto(a, r)  == act' = [act EXCEPT ![a] = r]
Step(a, pc) == Goto(a, [act[a] EXCEPT !.pc = pc])
\* ... after a fault, or while a rollback is at work: that one owes the user nothing.
Upset(a, r) == act' = [[act EXCEPT ![a] = r] EXCEPT !["rev"].goal = None]

Reads(a)  == CASE At(a, "keeping") -> {Nro(act[a].old)}
               [] At(a, "writing") -> {Kept(act[a].src)}
               [] At(a, "copy") /\ act[a].op = "rollback" -> {File(act[a].src, act[a].cur)}
               [] OTHER -> {}
Writes(a) == CASE At(a, "copy")    -> {Extra(act[a].cur)}
               [] At(a, "keeping") -> {Kept(act[a].label)}
               [] At(a, "writing") -> {Nro(act[a].dest)}
               [] OTHER -> {}
\* p is open for writing, or at all, in the other's hands.
Written(a, p) == \E b \in Actors \ {a} : p \in Writes(b)
Open(a, p)    == \E b \in Actors \ {a} : p \in Reads(b) \cup Writes(b)

\* remove(), and fs_move: the target goes first; a source that is open for reading
\* is copied and stays.
Gone(a, ps)      == Removed({p \in ps : ~Open(a, p)})
CanMove(a, p, q) == Exists(p) /\ ~Written(a, p) /\ ~Open(a, q)
Moved(a, p, q)   == [card EXCEPT ![q] = card[p], ![p] = IF Open(a, p) THEN @ ELSE None]

-----------------------------------------------------------------------------
(* copy_tree_backed: the extra files *)

\* (Variant: the user's files are replaced like any other.)
LeftAloneNever(r, e) == FALSE

\* The files come in the order of the directory, whichever that is.
First(es) == CHOOSE e \in es : TRUE

\* A file of the user's is left alone by an update.
LeftAlone(r, e) == r.op = "update" /\ e \in UserData /\ Exists(Extra(e))

\* What is to be put where e is.
Source(r, e) == IF r.op = "rollback" THEN card[File(r.src, e)] ELSE r.ver

\* (Variant: a backup is replaced by a later one.)
KeepLatest(a, e) ==
  LET r == act[a] IN r.root # None /\ CanMove(a, Extra(e), File(r.root, e))

\* What is overwritten goes to the backup, unless that has one of it.
KeepFirst(a, e) ==
  LET r == act[a]
  IN r.root # None /\ ~Exists(File(r.root, e)) /\ CanMove(a, Extra(e), File(r.root, e))

\* One file of copy_tree_all, as far as its target being opened for writing.  The
\* line in .new is buffered.
CopyBegin(a, e) ==
  LET r     == act[a]
      moves == KeepFirst(a, e)
      left  == IF moves THEN Moved(a, Extra(e), File(r.root, e)) ELSE card
      adds  == IF r.root # None /\ ~Exists(Extra(e)) THEN {e} ELSE {}
      rest  == [r EXCEPT !.todo = @ \ {e}, !.added = @ \cup adds]
  IN /\ At(a, "extras") /\ r.todo # {} /\ e = First(r.todo)
     /\ IF LeftAlone(r, e) \/ Open(a, Extra(e))
          THEN card' = card /\ Goto(a, [r EXCEPT !.todo = @ \ {e}])
          ELSE /\ card' = [left EXCEPT ![Extra(e)] = Torn]
               /\ Goto(a, [rest EXCEPT !.pc = "copy", !.cur = e, !.moved = moves])
     /\ Fine /\ UNCHANGED <<book, list, jobs, snap>>

CopyEnd(a) ==
  LET r == act[a] IN
  /\ At(a, "copy")
  /\ card' = [card EXCEPT ![Extra(r.cur)] = Source(r, r.cur)]
  /\ Goto(a, [r EXCEPT !.pc = "extras", !.cur = None, !.moved = FALSE])
  /\ Fine /\ UNCHANGED <<book, list, jobs, snap>>

\* A failing copy removes its target, and what had been moved is put back.
CopyFails(a) ==
  LET r    == act[a]
      gone == Removed({Extra(r.cur)})
      kept == File(r.root, r.cur)
  IN /\ At(a, "copy") /\ Faulty
     /\ card' = IF r.moved THEN [gone EXCEPT ![Extra(r.cur)] = card[kept], ![kept] = None] ELSE gone
     /\ Upset(a, [r EXCEPT !.pc = "extras", !.cur = None, !.moved = FALSE])
     /\ snap' = None /\ UNCHANGED <<book, list, jobs>>

\* fclose of the list of added files.
CopyDone(a) ==
  LET r == act[a] IN
  /\ At(a, "extras") /\ r.todo = {}
  /\ new' = IF r.root = None THEN new ELSE [new EXCEPT ![r.root] = @ \cup r.added]
  /\ Goto(a, [r EXCEPT !.added = {}, !.pc = IF r.op = "rollback" THEN "rnew" ELSE "keep",
                       !.todo = IF r.op = "rollback" THEN new[r.src] ELSE {}])
  /\ Fine /\ UNCHANGED <<card, age, list, jobs, snap>>

-----------------------------------------------------------------------------
(* backup_keep2: keep the build that is replaced, then only the two newest *)

Without(l) == SelectSeq(age, LAMBDA k : k # l)

Keep(a) ==
  LET r == act[a] IN
  /\ At(a, "keep") /\ Fine
  /\ IF r.op = "install" \/ ~Exists(Nro(r.old))
       THEN Step(a, "park") /\ UNCHANGED <<card, age>>
       ELSE IF Exists(Kept(r.label)) \/ Written(a, Nro(r.old)) \/ Open(a, Kept(r.label))
         THEN Step(a, "prune") /\ UNCHANGED <<card, age>>
         ELSE /\ Step(a, "keeping") /\ card' = [card EXCEPT ![Kept(r.label)] = Torn]
              /\ age' = <<r.label>> \o age
  /\ UNCHANGED <<new, list, jobs, snap>>

KeepEnd(a) ==
  /\ At(a, "keeping") /\ Step(a, "prune") /\ Fine
  /\ card' = [card EXCEPT ![Kept(act[a].label)] = card[Nro(act[a].old)]]
  /\ UNCHANGED <<book, list, jobs, snap>>

KeepFails(a) ==
  /\ At(a, "keeping") /\ Faulty
  /\ card' = Removed({Kept(act[a].label)}) /\ age' = Without(act[a].label)
  /\ Upset(a, [act[a] EXCEPT !.pc = "prune"])
  /\ snap' = None /\ UNCHANGED <<new, list, jobs>>

\* All but the two newest go; a rollback's own source does not.
Victims(a) == {age[i] : i \in 3..Len(age)} \ {act[a].src}

\* Nothing is owed of a backup that is gone.
NoMore(ls) == IF snap # None /\ snap.label \in ls THEN None ELSE snap

\* backup_remove_nro of each, and what is left with no .nro.
Prune(a) ==
  LET left == Gone(a, {Kept(l) : l \in Victims(a)})
      bare == Victims(a) \cup {l \in Labels : left[Kept(l)] = None}
  IN /\ At(a, "prune") /\ Step(a, "park") /\ Fine
     /\ card' = [p \in Paths |-> IF p \in {File(l, e) : l \in bare, e \in Extras} THEN None ELSE left[p]]
     /\ new'  = [l \in Labels |-> IF l \in bare THEN {} ELSE new[l]]
     /\ age'  = SelectSeq(age, LAMBDA l : left[Kept(l)] # None)
     /\ snap' = NoMore(bare) /\ UNCHANGED <<list, jobs>>

-----------------------------------------------------------------------------
(* The swap *)

\* The build in place is parked at .bak.  Where that fails, an update removes it;
\* a rollback will write over it.
Park(a) ==
  LET r     == act[a]
      n     == Nro(r.dest)
      moves == CanMove(a, n, Bak(r.dest))
      bare  == Gone(a, {Bak(r.dest)})
      next  == IF r.op = "rollback" THEN "write" ELSE "place"
  IN /\ At(a, "park")
     /\ \/ /\ moves /\ Fine /\ snap' = snap
           /\ card' = Moved(a, n, Bak(r.dest))
           /\ Goto(a, [r EXCEPT !.pc = next, !.restore = TRUE])
        \/ /\ IF moves THEN Faulty ELSE Fine
           /\ snap' = IF moves THEN None ELSE snap
           /\ card' = IF r.op = "rollback" THEN bare
                      ELSE IF Exists(n) THEN Gone(a, {Bak(r.dest), n}) ELSE card
           /\ IF moves THEN Upset(a, [r EXCEPT !.pc = next]) ELSE Step(a, next)
     /\ UNCHANGED <<book, list, jobs>>

Place(a) ==
  /\ At(a, "place") /\ ~Open(a, Nro(act[a].dest)) /\ Step(a, "clean") /\ Fine
  /\ card' = [card EXCEPT ![Nro(act[a].dest)] = act[a].ver]
  /\ UNCHANGED <<book, list, jobs, snap>>

\* The parked build, if there is one, back in its place.
Undone(a) ==
  LET n == act[a].dest
  IN IF act[a].restore /\ CanMove(a, Bak(n), Nro(n)) THEN Moved(a, Bak(n), Nro(n)) ELSE card

\* (Variant: what was parked stays there.)
PlaceFailsParked(a) ==
  /\ At(a, "place")
  /\ IF Open(a, Nro(act[a].dest)) THEN Fine ELSE Faulty
  /\ card' = card
  /\ Goto(a, Idle) /\ snap' = snap
  /\ jobs' = [j \in Jobs |-> IF j = act[a].job THEN None ELSE jobs[j]]
  /\ UNCHANGED <<book, list>>

PlaceFails(a) ==
  /\ At(a, "place")
  /\ IF Open(a, Nro(act[a].dest)) THEN Fine ELSE Faulty
  /\ card' = Undone(a)
  /\ Goto(a, Idle) /\ snap' = snap
  /\ jobs' = [j \in Jobs |-> IF j = act[a].job THEN None ELSE jobs[j]]
  /\ UNCHANGED <<book, list>>

\* fs_copy_file_progress of the kept build.
Write(a) ==
  LET r   == act[a]
      can == Exists(Kept(r.src)) /\ ~Written(a, Kept(r.src)) /\ ~Open(a, Nro(r.dest))
  IN /\ At(a, "write") /\ Fine
     /\ IF can THEN Step(a, "writing") /\ card' = [card EXCEPT ![Nro(r.dest)] = Torn]
               ELSE Step(a, "reap") /\ card' = Undone(a)
     /\ UNCHANGED <<book, list, jobs, snap>>

WriteEnd(a) ==
  /\ At(a, "writing") /\ Step(a, "clean") /\ Fine
  /\ card' = [card EXCEPT ![Nro(act[a].dest)] = card[Kept(act[a].src)]]
  /\ UNCHANGED <<book, list, jobs, snap>>

WriteFails(a) ==
  LET n == act[a].dest IN
  /\ At(a, "writing") /\ Faulty
  /\ card' = IF act[a].restore /\ Exists(Bak(n))
               THEN [card EXCEPT ![Nro(n)] = card[Bak(n)], ![Bak(n)] = None]
               ELSE Removed({Nro(n)})
  /\ Upset(a, [act[a] EXCEPT !.pc = "reap"]) /\ snap' = None
  /\ UNCHANGED <<book, list, jobs>>

\* The new build is in place: .bak goes.  A rollback goes on to the extra files;
\* with the label it restores it has nothing to keep.
Clean(a) ==
  LET r == act[a] IN
  /\ At(a, "clean") /\ Fine
  /\ card' = IF r.restore THEN Gone(a, {Bak(r.dest)}) ELSE card
  /\ IF r.op = "rollback"
       THEN Goto(a, [r EXCEPT !.pc = "extras", !.ok = TRUE,
                              !.root = IF r.label = r.src THEN None ELSE r.label,
                              !.todo = {e \in Extras : Exists(File(r.src, e))}])
       ELSE Step(a, "old")
  /\ UNCHANGED <<book, list, jobs, snap>>

\* The old name goes, and the list learns of the new one unless it is being rebuilt.
Old(a) ==
  LET r == act[a] IN
  /\ At(a, "old") /\ Fine
  /\ card' = IF r.old = r.dest \/ r.op = "push" THEN card ELSE Gone(a, {Nro(r.old)})
  /\ row' = IF r.op = "push" \/ scan # None \/ row = None THEN row
            ELSE [path |-> r.dest, label |->
                    IF card[Nro(r.dest)] \in Releases THEN Label(card[Nro(r.dest)]) ELSE LabelOf[r.ver]]
  /\ jobs' = [j \in Jobs |-> IF j = r.job THEN None ELSE jobs[j]]
  /\ Goto(a, Idle)
  /\ UNCHANGED <<book, latest, scan, snap>>

\* The end of backup_restore_files: what the update added is taken away, or kept
\* for undoing the rollback.  The user's own is not.
RemoveNew(a, e) ==
  LET r    == act[a]
      move == KeepFirst(a, e)
  IN /\ At(a, "rnew") /\ r.todo # {} /\ e = First(r.todo) /\ Fine
     /\ card' = IF e \in UserData THEN card
                ELSE IF move THEN Moved(a, Extra(e), File(r.root, e)) ELSE Gone(a, {Extra(e)})
     /\ Goto(a, [r EXCEPT !.todo = @ \ {e}])
     /\ UNCHANGED <<book, list, jobs, snap>>

RolledBack(a) ==
  /\ At(a, "rnew") /\ act[a].todo = {} /\ Step(a, "reap") /\ Fine
  /\ UNCHANGED <<card, book, list, jobs, snap>>

Work(a) ==
  \/ \E e \in Extras : CopyBegin(a, e) \/ RemoveNew(a, e)
  \/ CopyEnd(a) \/ CopyFails(a) \/ CopyDone(a)
  \/ Keep(a) \/ KeepEnd(a) \/ KeepFails(a) \/ Prune(a)
  \/ Park(a) \/ Place(a) \/ PlaceFails(a) \/ Write(a) \/ WriteEnd(a) \/ WriteFails(a)
  \/ Clean(a) \/ Old(a) \/ RolledBack(a)

-----------------------------------------------------------------------------
(* The UI: list, updates, pushes, rollbacks *)

UiFree == At("ui", "idle")
\* A rollback is at work while the UI thread begins a change.
Both == act["rev"].pc \notin {"idle", "reap"}

\* The app as a change finds it, for which the backup it makes is called l: what a
\* rollback to l owes the user.
Snap(n, l) == [label |-> l, nro |-> card[Nro(n)], extra |-> [e \in Extras |-> card[Extra(e)]]]

\* A backup called l, if there is one, is of the app as it is now.
Agrees(n, l) ==
  /\ Exists(Kept(l)) => card[Kept(l)] = card[Nro(n)]
  /\ \A e \in Extras : /\ Exists(File(l, e)) => card[File(l, e)] = card[Extra(e)]
                       /\ e \in new[l] => ~Exists(Extra(e))

\* A file that was moved to l's backup has been replaced since: the change would not take
\* it for one that it adds.
Replaced(l) == \A e \in Extras : Exists(File(l, e)) /\ e \notin new[l] => Exists(Extra(e))

\* ... if the build is whole, is called l, and nobody else is at work.  The first one
\* kept is the true original: a second change under the same label owes no other, and
\* nothing at all if a file that the first one had moved is missing as it begins.
Owed(a, n, l) ==
  IF \E b \in Actors \ {a} : ~At(b, "idle") THEN None
  ELSE IF snap # None /\ snap.label = l THEN IF Replaced(l) THEN snap ELSE None
  ELSE IF /\ card[Nro(n)] \in Releases /\ Label(card[Nro(n)]) = l /\ Agrees(n, l)
          /\ \A e \in Extras : card[Extra(e)] # Torn
    THEN Snap(n, l) ELSE None

\* match_installed: a .nro the detect string matches.
Match == IF \E n \in Names : Exists(Nro(n))
           THEN {[path |-> n, label |-> Label(card[Nro(n)])] : n \in {m \in Names : Exists(Nro(m))}}
           ELSE {[path |-> None, label |-> "unknown"]}

\* AppChkThread, from GotoAppUpdates or AppScanAll to its publication.
ScanStart ==
  /\ UiFree /\ scan = None /\ scan' = [read |-> None]
  /\ Fine /\ UNCHANGED <<card, book, latest, row, jobs, act, snap>>
ScanRead ==
  /\ scan # None /\ scan.read = None /\ \E m \in Match : scan' = [read |-> m]
  /\ Fine /\ UNCHANGED <<card, book, latest, row, jobs, act, snap>>
ScanPublish ==
  /\ scan # None /\ scan.read # None /\ row' = scan.read /\ scan' = None
  /\ Fine /\ UNCHANGED <<card, book, latest, jobs, act, snap>>

\* UmiStart: an update of what the row says, or a fresh install.
UmiStart(j) ==
  /\ UiFree /\ row # None /\ jobs[j] = None /\ Op
  /\ jobs' = [jobs EXCEPT ![j] =
       [ver |-> latest, fresh |-> row.path = None, label |-> row.label,
        dest |-> IF row.path = None THEN NameOf[latest] ELSE row.path]]
  /\ UNCHANGED <<card, book, list, act, snap>>

\* The download failed, was cancelled, or is no .nro.
UmiFails(j) ==
  /\ UiFree /\ jobs[j] # None /\ jobs' = [jobs EXCEPT ![j] = None]
  /\ Fine /\ UNCHANGED <<card, book, list, act, snap>>

\* UmiTick of a finished download, as far as the first file.
UmiTick(j) ==
  LET d == jobs[j]
      keep == ~d.fresh /\ Exists(Nro(d.dest))
  IN /\ UiFree /\ d # None /\ spent' = [spent EXCEPT !.rough = @ \/ Both]
     /\ snap' = IF keep THEN Owed("ui", d.dest, d.label) ELSE None
     /\ Upset("ui", [Idle EXCEPT
          !.pc = "extras", !.op = IF d.fresh THEN "install" ELSE "update",
          !.ver = d.ver, !.job = j, !.todo = Ships[d.ver], !.dest = NameOf[d.ver],
          !.old = d.dest, !.label = d.label, !.root = IF keep THEN d.label ELSE None])
     /\ UNCHANGED <<card, book, list, jobs>>

\* InvApplyEmuNroAt of a pushed .nro, confirmed.
Push(n, v) ==
  /\ UiFree /\ Exists(Nro(n)) /\ v <= latest /\ spent.ops < MaxOps
  /\ spent' = [spent EXCEPT !.ops = @ + 1, !.rough = @ \/ Both]
  /\ snap' = Owed("ui", n, Label(card[Nro(n)]))
  /\ Upset("ui", [Idle EXCEPT !.pc = "keep", !.op = "push", !.ver = v, !.dest = n,
                               !.old = n, !.label = Label(card[Nro(n)])])
  /\ UNCHANGED <<card, book, list, jobs>>

\* AppRevert: the user picks a kept build.
AppRevert(m, l) ==
  /\ UiFree /\ At("rev", "idle") /\ m.path # None /\ Exists(Kept(l))
  /\ card[Kept(l)] = Torn => TornPasses
  /\ Op /\ snap' = Owed("rev", m.path, m.label)
  /\ Goto("rev", [Idle EXCEPT !.pc = "keep", !.op = "rollback", !.dest = m.path,
       !.old = m.path, !.label = m.label, !.src = l,
       !.goal = IF snap # None /\ snap.label = l THEN snap ELSE None])
  /\ UNCHANGED <<card, book, list, jobs>>

\* AppRevertTick.
AppRevertTick ==
  LET r == act["rev"] IN
  /\ UiFree /\ r.pc = "reap" /\ Fine
  /\ row' = IF r.ok /\ scan = None /\ row # None
              THEN [path |-> r.dest, label |-> Label(card[Nro(r.dest)])] ELSE row
  /\ Goto("rev", Idle) /\ UNCHANGED <<card, book, latest, scan, jobs, snap>>

\* The Backups screen.
Delete(l) ==
  LET settled == At("rev", "idle") /\ \E n \in Names : card[Nro(n)] \in Releases
  IN /\ UiFree /\ Exists(Kept(l)) /\ ~Open("ui", Kept(l)) /\ spent.ops < MaxOps
     /\ spent' = [spent EXCEPT !.ops = @ + 1, !.rash = @ \/ ~settled]
     /\ card' = Removed({Kept(l)} \cup {File(l, e) : e \in Extras})
     /\ new' = [new EXCEPT ![l] = {}] /\ age' = Without(l)
     /\ Upset("ui", act["ui"]) /\ snap' = NoMore({l})
     /\ UNCHANGED <<list, jobs>>

\* The user plays: a file in a folder of the user's changes.
Play(u) ==
  /\ u \in UserData /\ Exists(Extra(u)) /\ card[Extra(u)] # Own
  /\ \A a \in Actors : At(a, "idle")
  /\ card' = [card EXCEPT ![Extra(u)] = Own]
  /\ Fine /\ UNCHANGED <<book, list, jobs, act, snap>>

Published ==
  /\ latest + 1 \in Releases /\ latest' = latest + 1
  /\ Fine /\ UNCHANGED <<card, book, row, scan, jobs, act, snap>>

\* What is in memory goes: at an exit, which waits for the thread, or with the
\* power.
Forget == /\ row' = None /\ scan' = None /\ jobs' = [j \in Jobs |-> None]
          /\ act' = [a \in Actors |-> Idle]
          /\ UNCHANGED <<card, book, latest>>
Exit     == UiFree /\ (At("rev", "idle") \/ At("rev", "reap")) /\ Fine /\ snap' = snap /\ Forget
PowerCut == /\ spent.ops < MaxOps /\ spent.faults < MaxFaults
            /\ spent' = [spent EXCEPT !.ops = @ + 1, !.faults = @ + 1, !.rough = TRUE]
            /\ snap' = None /\ Forget

-----------------------------------------------------------------------------

Init ==
  /\ card = [p \in Paths |->
                IF p \in {Nro(NameOf[1])} \cup {Extra(e) : e \in Ships[1]} THEN 1 ELSE None]
  /\ new = [l \in Labels |-> {}] /\ age = <<>> /\ latest = 1
  /\ row = None /\ scan = None /\ jobs = [j \in Jobs |-> None]
  /\ act = [a \in Actors |-> Idle] /\ snap = None
  /\ spent = [ops |-> 0, faults |-> 0, rough |-> FALSE, rash |-> FALSE]

Next ==
  \/ \E a \in Actors : Work(a)
  \/ ScanStart \/ ScanRead \/ ScanPublish \/ AppRevertTick
  \/ \E j \in Jobs : UmiStart(j) \/ UmiFails(j) \/ UmiTick(j)
  \/ \E n \in Names, v \in Releases : Push(n, v)
  \/ \E m \in Match, l \in Labels : AppRevert(m, l)
  \/ \E l \in Labels : Delete(l)
  \/ \E u \in Extras : Play(u)
  \/ Published \/ Exit \/ PowerCut

Spec == Init /\ [][Next]_vars

-----------------------------------------------------------------------------
(* Types.  An actor at work knows what it replaces and what with. *)

Pcs == {"idle", "extras", "copy", "keep", "keeping", "prune", "park", "place", "clean", "old",
        "write", "writing", "rnew", "reap"}
Actor == [pc : Pcs, op : {"none", "update", "install", "push", "rollback"},
          ver : Releases \cup {None}, dest : Names \cup {None}, old : Names \cup {None},
          label : Labels \cup {None}, src : Labels \cup {None}, root : Labels \cup {None},
          todo : SUBSET Extras, cur : Extras \cup {None}, moved : BOOLEAN,
          added : SUBSET Extras, restore : BOOLEAN, ok : BOOLEAN,
          goal : Snaps \cup {None}, job : Jobs \cup {None}]

Knows(r) ==
  /\ r.dest \in Names /\ r.old \in Names /\ r.label \in Labels
  /\ IF r.op = "rollback" THEN r.src \in Labels ELSE r.ver \in Releases
  /\ r.pc \in {"write", "writing", "rnew", "reap"} => r.op = "rollback"
  /\ r.pc \in {"place", "old"} => r.op # "rollback"
  /\ r.pc = "copy" => r.cur \in Extras /\ (r.moved => r.root \in Labels)

CardOK == /\ card \in [Paths -> Contents] /\ new \in [Labels -> SUBSET Extras]
          /\ latest \in Releases
ListOK == /\ row \in Rows \cup {None} /\ scan \in [read : Rows \cup {None}] \cup {None}
          /\ jobs \in [Jobs -> [ver : Releases, fresh : BOOLEAN, label : Labels, dest : Names]
                               \cup {None}]
ActorsOK == /\ act \in [Actors -> Actor] /\ snap \in Snaps \cup {None}
            /\ \A a \in Actors : At(a, "idle") \/ Knows(act[a])

TypeOK == CardOK /\ ListOK /\ ActorsOK

-----------------------------------------------------------------------------
(* Properties *)

\* Once nobody is at work, a whole build of the app has its name, whatever one operation
\* failed.  Until then, after a power cut, and when a rollback and the UI thread were at
\* work at once, one is on the card where a user finds it: under its name, parked beside
\* it, among the kept ones, or about to be put in place.
BuildSurvives ==
  \/ \E n \in Names : card[Nro(n)] \in Releases
  \/ /\ spent.rough \/ \E a \in Actors : act[a].pc \notin {"idle", "reap"}
     /\ \/ \E n \in Names : card[Bak(n)] \in Releases
        \/ \E l \in Labels : card[Kept(l)] \in Releases
        \/ \E a \in Actors : At(a, "place")
  \/ spent.rash

\* A rollback to the backup of the last change brings back the build and every file that
\* is not the user's as that change found them, or, when it was tried again under the same
\* label, as the first of the tries did (unless a file that one had replaced was gone by then).
RollbackRestores ==
  LET r == act["rev"] IN
  r.pc = "reap" /\ r.ok /\ r.goal # None =>
    /\ card[Nro(r.dest)] = r.goal.nro
    /\ \A e \in Extras \ UserData : card[Extra(e)] = r.goal.extra[e]

\* Neither an update nor a rollback touches what the user has made of a file.
UserDataKept ==
  [][\A u \in UserData : card[Extra(u)] = Own =>
       card'[Extra(u)] = Own \/ act["ui"].op = "install"]_vars

=============================================================================
