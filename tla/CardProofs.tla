------------------------------ MODULE CardProofs ------------------------------
(***************************************************************************)
(* What survives on the card: an app's files an update or a rollback       *)
(* (AppUpdates), and the collection list a save, an import or a restore    *)
(* (Config; the two share no file), for any releases, extra files, labels, *)
(* jobs, lists, faults and power cuts.                                     *)
(*                                                                         *)
(* That the user's files are left alone rests on DataInv: no backup ever   *)
(* holds a file of a folder of the user's, so a rollback has none to copy, *)
(* and while a copy over such a file is in progress, it is not the user's  *)
(* own that is under it.                                                   *)
(*                                                                         *)
(* That a whole build keeps the app's name rests on BuildInv, for as long  *)
(* as one works alone and the power stays: Sound says, for every part of a *)
(* change, which of the builds are whole.  Only the one being written may  *)
(* not be, and from the moment the old one is parked until the new one is  *)
(* in place, the parked one is.                                            *)
(*                                                                         *)
(* That a rollback brings everything back rests on RollInv.  SnapInv says  *)
(* what the backup of the last change owes: for every file, that the       *)
(* backup, its list of added files and the card give it back between them, *)
(* through every step of that change and of those that come after it.      *)
(* GoalInv takes over when a rollback to it begins, and says what it has   *)
(* yet to give.  Both hold of a change that works alone; of another the    *)
(* history owes nothing.                                                   *)
(*                                                                         *)
(* For the list, ListIInv follows the one that was live when the operation *)
(* began from file to file: it is live until it is parked, in the slot     *)
(* until it is moved back, and by the time it may be dropped the new one   *)
(* is whole in the staging file or live.                                   *)
(***************************************************************************)
EXTENDS AppUpdates, Config, TLAPS

-----------------------------------------------------------------------------
(* The files of an app. *)


\* The files of the user's folders, on the card and in the backups.
UserPaths == {Extra(u) : u \in UserData} \cup {File(l, u) : l \in Labels, u \in UserData}

\* f is the card with no file but those of ps changed.
Changes(f, ps) == f \in [Paths -> Contents] /\ \A p \in Paths \ ps : f[p] = card[p]

Spared == \A p \in UserPaths : card'[p] = card[p]

\* Nobody copies for a push, an install keeps nothing, and a rollback copies nothing of
\* the user's.
RecOK(r) ==
  /\ r.pc \in {"extras", "copy"} => r.op \notin {"push", "none"}
  /\ r.op = "install" => r.root = None
  /\ r.op = "rollback" /\ r.pc \in {"extras", "copy"} => r.todo \cap UserData = {}
  /\ r.op = "rollback" /\ r.pc = "copy" => r.cur \notin UserData

NoCopies == \A l \in Labels, u \in UserData : card[File(l, u)] = None
CopyOK(r) == r.pc = "copy" /\ r.cur \in UserData => ~r.moved /\ card[Extra(r.cur)] # Own
DataInv  == /\ NoCopies /\ act["rev"].op # "install"
            /\ \A a \in Actors : RecOK(act[a]) /\ CopyOK(act[a])

IInv == TypeOK /\ DataInv

\* What UserDataKept says of a step.
Respects == \A u \in UserData : card[Extra(u)] = Own =>
          card'[Extra(u)] = Own \/ act["ui"].op = "install"

-----------------------------------------------------------------------------
(* Files. *)

LEMMA PathFacts ==
  /\ \A n \in Names : Nro(n) \in Paths \ UserPaths /\ Bak(n) \in Paths \ UserPaths
  /\ \A l \in Labels : Kept(l) \in Paths \ UserPaths
  /\ \A e \in Extras : Extra(e) \in Paths /\ (Extra(e) \in UserPaths => e \in UserData)
  /\ \A l \in Labels, e \in Extras :
       File(l, e) \in Paths /\ (File(l, e) \in UserPaths => e \in UserData)
<1> USE UpdatesAssumption DEF Paths, UserPaths, Nro, Bak, Kept, Extra, File
<1>1. \A n \in Names : Nro(n) \in Paths \ UserPaths /\ Bak(n) \in Paths \ UserPaths
  OBVIOUS
<1>2. \A l \in Labels : Kept(l) \in Paths \ UserPaths
  OBVIOUS
<1>3. \A e \in Extras : Extra(e) \in Paths /\ (Extra(e) \in UserPaths => e \in UserData)
  OBVIOUS
<1>4. \A l \in Labels, e \in Extras :
        File(l, e) \in Paths /\ (File(l, e) \in UserPaths => e \in UserData)
  OBVIOUS
<1> QED BY <1>1, <1>2, <1>3, <1>4

LEMMA UserPathFacts ==
  /\ \A u \in UserData : Extra(u) \in UserPaths /\ u \in Extras
  /\ \A l \in Labels, u \in UserData : File(l, u) \in UserPaths
  /\ UserPaths \subseteq Paths
  /\ \A u, e : Extra(u) = Extra(e) => u = e
  /\ \A l, e, u : File(l, e) # Extra(u)
  /\ \A l : Kept(l) \notin UserPaths
BY UpdatesAssumption DEF Paths, UserPaths, Extra, File, Kept

LEMMA ContentFacts ==
  /\ None \in Contents /\ Own \in Contents /\ Torn \in Contents /\ Releases \subseteq Contents
  /\ Own \notin Releases /\ Torn \notin Releases /\ None \notin Releases
  /\ Own # Torn /\ Own # None /\ Torn # None
BY UpdatesAssumption DEF Contents

LEMMA Removing == ASSUME CardOK, NEW ps PROVE Changes(Removed(ps), ps)
BY ContentFacts DEF CardOK, Changes, Removed

LEMMA Going == ASSUME CardOK, NEW a, NEW ps PROVE Changes(Gone(a, ps), ps)
BY ContentFacts DEF CardOK, Changes, Removed, Gone

LEMMA Setting ==
  ASSUME CardOK, NEW p \in Paths, NEW c \in Contents
  PROVE  Changes([card EXCEPT ![p] = c], {p})
BY DEF CardOK, Changes

LEMMA MovingOne ==
  ASSUME CardOK, NEW a, NEW p \in Paths, NEW q \in Paths
  PROVE  Changes(Moved(a, p, q), {p, q})
BY ContentFacts DEF CardOK, Changes, Moved

LEMMA Sparing ==
  ASSUME NEW ps, Changes(card', ps), ps \cap UserPaths = {}
  PROVE  Spared
BY UserPathFacts DEF Changes, Spared
-----------------------------------------------------------------------------
(* Actors. *)

\* What DataInv reads of an actor.
Alike(r, s) == /\ r.pc = s.pc /\ r.op = s.op /\ r.root = s.root /\ r.todo = s.todo
               /\ r.cur = s.cur /\ r.moved = s.moved

Fit(r) == r \in Actor /\ (r.pc = "idle" \/ Knows(r))

LEMMA IdleIsFit == Fit(Idle) /\ RecOK(Idle) /\ CopyOK(Idle) /\ Idle.op # "install"
<1>1. /\ Idle.pc = "idle" /\ Idle.op = "none" /\ Idle \in Actor
  BY DEF Idle, Actor, Pcs
<1> QED BY <1>1 DEF Fit, RecOK, CopyOK

LEMMA ActorFacts == ASSUME TypeOK, NEW a \in Actors PROVE Fit(act[a])
BY DEF TypeOK, ActorsOK, Fit, At

\* Forgetting what is owed changes nothing else.
LEMMA Unowed ==
  ASSUME NEW r, Fit(r)
  PROVE  Fit([r EXCEPT !.goal = None]) /\ Alike([r EXCEPT !.goal = None], r)
<1> DEFINE s == [r EXCEPT !.goal = None]
<1>1. r \in Actor BY DEF Fit
<1>2. s \in Actor BY <1>1 DEF Actor
<1>3. /\ s.pc = r.pc /\ s.op = r.op /\ s.root = r.root /\ s.todo = r.todo
      /\ s.cur = r.cur /\ s.moved = r.moved /\ s.src = r.src /\ s.ver = r.ver
      /\ s.dest = r.dest /\ s.old = r.old /\ s.label = r.label
  BY <1>1 DEF Actor
<1> HIDE DEF s
<1>4. Knows(r) => Knows(s) BY <1>3 DEF Knows
<1>5. Fit(s) BY <1>2, <1>3, <1>4 DEF Fit
<1>6. Alike(s, r) BY <1>3 DEF Alike
<1> QED BY <1>5, <1>6 DEF s

\* An actor takes a step, and the rollback may be owed nothing any more.
LEMMA ActorStep ==
  ASSUME TypeOK, NEW a \in Actors, NEW r, Fit(r), Goto(a, r) \/ Upset(a, r),
         snap' \in Snaps \cup {None}
  PROVE  /\ ActorsOK' /\ Alike(act'[a], r)
         /\ \A b \in Actors \ {a} : Alike(act'[b], act[b])
<1> DEFINE f == [act EXCEPT ![a] = r]
<1>1. f \in [Actors -> Actor] /\ \A b \in Actors : Fit(f[b])
  BY ActorFacts DEF TypeOK, ActorsOK, Fit
<1>2. \A b \in Actors : f[b] = IF b = a THEN r ELSE act[b]
  BY DEF TypeOK, ActorsOK
<1>3. Alike(r, r) /\ \A b \in Actors : Alike(act[b], act[b])
  BY DEF Alike
<1>4. CASE act' = f
  BY <1>1, <1>2, <1>3, <1>4 DEF ActorsOK, Fit, At
<1>5. CASE act' = [f EXCEPT !["rev"].goal = None]
  <2> DEFINE q == [f["rev"] EXCEPT !.goal = None]
  <2> HIDE DEF f
  <2>1. "rev" \in Actors BY DEF Actors
  <2>2. Fit(q) /\ Alike(q, f["rev"]) BY <1>1, <2>1, Unowed
  <2>3. act' = [f EXCEPT !["rev"] = q] BY <1>5
  <2> HIDE DEF q
  <2>4. /\ act' \in [Actors -> Actor]
        /\ \A b \in Actors : act'[b] = IF b = "rev" THEN q ELSE f[b]
    BY <1>1, <2>1, <2>2, <2>3 DEF Fit
  <2>5. ActorsOK' BY <1>1, <2>2, <2>4 DEF ActorsOK, Fit, At
  <2>6. \A b \in Actors : Alike(act'[b], f[b])
    BY <2>2, <2>4 DEF Alike
  <2> QED BY <1>2, <2>5, <2>6
<1> QED BY <1>4, <1>5 DEF Goto, Upset

\* What an actor may be after a step.
Good(a, r) == Fit(r) /\ RecOK(r) /\ CopyOK(r) /\ (a = "rev" => r.op # "install")

\* A step that leaves the user's files alone, and copies nothing.
LEMMA PlainStep ==
  ASSUME IInv, NEW a \in Actors, NEW r, Good(a, r), Goto(a, r) \/ Upset(a, r),
         snap' \in Snaps \cup {None}, Spared
  PROVE  ActorsOK' /\ DataInv' /\ Respects
<1>1. /\ ActorsOK' /\ Alike(act'[a], r)
      /\ \A b \in Actors \ {a} : Alike(act'[b], act[b])
  BY ActorStep DEF IInv, Good
<1>2. "rev" \in Actors BY DEF Actors
<1>3. NoCopies' BY UserPathFacts DEF IInv, DataInv, NoCopies, Spared
<1>4. act'["rev"].op # "install"
  BY <1>1, <1>2 DEF IInv, DataInv, Alike, Good
<1>5. \A b \in Actors : RecOK(act'[b]) BY <1>1 DEF IInv, DataInv, RecOK, Alike, Good
<1>6. \A b \in Actors : CopyOK(act[b])' 
  <2> SUFFICES ASSUME NEW b \in Actors, act'[b].pc = "copy", act'[b].cur \in UserData
               PROVE  ~act'[b].moved /\ card'[Extra(act'[b].cur)] # Own
    BY DEF CopyOK
  <2>1. card'[Extra(act'[b].cur)] = card[Extra(act'[b].cur)]
    BY UserPathFacts DEF Spared
  <2> QED BY <1>1, <2>1 DEF IInv, DataInv, CopyOK, Alike, Good
<1>7. Respects BY UserPathFacts DEF Respects, Spared
<1> QED BY <1>1, <1>3, <1>4, <1>5, <1>6, <1>7 DEF DataInv

\* ... and nobody takes one.
LEMMA IdleStep ==
  ASSUME IInv, act' = act, snap' \in Snaps \cup {None}, Spared
  PROVE  ActorsOK' /\ DataInv' /\ Respects
<1>1. ActorsOK' BY DEF IInv, TypeOK, ActorsOK, At
<1>2. NoCopies' BY UserPathFacts DEF IInv, DataInv, NoCopies, Spared
<1>3. \A b \in Actors : CopyOK(act[b])'
  BY UserPathFacts DEF IInv, DataInv, CopyOK, Spared
<1>4. Respects BY UserPathFacts DEF Respects, Spared
<1> QED BY <1>1, <1>2, <1>3, <1>4 DEF IInv, DataInv, RecOK
\* The steps of an actor that change neither the list nor the pool.
LEMMA Quiet ==
  ASSUME IInv, NEW a \in Actors, NEW r, Good(a, r), Goto(a, r) \/ Upset(a, r),
         snap' \in {snap, None}, card' \in [Paths -> Contents], Spared,
         new' \in [Labels -> SUBSET Extras], UNCHANGED <<list, jobs>>
  PROVE  IInv' /\ Respects
<1>1. snap' \in Snaps \cup {None} BY DEF IInv, TypeOK, ActorsOK
<1>2. ActorsOK' /\ DataInv' /\ Respects BY <1>1, PlainStep
<1>3. CardOK' BY DEF IInv, TypeOK, CardOK, list
<1>4. ListOK' BY DEF IInv, TypeOK, ListOK, list
<1> QED BY <1>2, <1>3, <1>4 DEF IInv, TypeOK

\* ... nor the lists of added files, and no file but those of ps.
LEMMA QuietFiles ==
  ASSUME IInv, NEW a \in Actors, NEW r, Good(a, r), Goto(a, r) \/ Upset(a, r),
         snap' \in {snap, None}, NEW ps, Changes(card', ps), ps \cap UserPaths = {},
         new' = new, UNCHANGED <<list, jobs>>
  PROVE  IInv' /\ Respects
<1>1. Spared BY Sparing
<1>2. new' \in [Labels -> SUBSET Extras] BY DEF IInv, TypeOK, CardOK
<1> QED BY <1>1, <1>2, Quiet DEF Changes

LEMMA Staying == ASSUME CardOK, card' = card PROVE Changes(card', {})
BY DEF CardOK, Changes

\* An actor goes on to another part.
LEMMA GoOn ==
  ASSUME IInv, NEW a \in Actors, act[a].pc # "idle", NEW x \in Pcs \ {"extras", "copy"},
         x \in {"write", "writing", "rnew", "reap"} => act[a].op = "rollback",
         x \in {"place", "old"} => act[a].op # "rollback"
  PROVE  Good(a, [act[a] EXCEPT !.pc = x])
<1> DEFINE r == act[a]
           s == [r EXCEPT !.pc = x]
<1>1. r \in Actor /\ Knows(r) /\ RecOK(r) /\ (a = "rev" => r.op # "install")
  BY ActorFacts DEF IInv, DataInv, Fit
<1>2. s \in Actor BY <1>1 DEF Actor
<1>3. /\ s.pc = x /\ s.op = r.op /\ s.root = r.root /\ s.todo = r.todo
      /\ s.cur = r.cur /\ s.moved = r.moved /\ s.src = r.src /\ s.ver = r.ver
      /\ s.dest = r.dest /\ s.old = r.old /\ s.label = r.label
  BY <1>1 DEF Actor
<1> HIDE DEF s
<1>4. Knows(s) BY <1>1, <1>3 DEF Knows, r
<1>5. RecOK(s) /\ CopyOK(s) BY <1>1, <1>3 DEF RecOK, CopyOK
<1>6. Good(a, s) BY <1>1, <1>2, <1>3, <1>4, <1>5 DEF Good, Fit
<1> QED BY <1>6 DEF s

-----------------------------------------------------------------------------
(* Keeping the build that is replaced. *)

LEMMA KeepStep == ASSUME IInv, NEW a \in Actors, Keep(a) PROVE IInv' /\ Respects
<1>1. /\ CardOK /\ act[a].pc # "idle" /\ snap' = snap /\ new' = new /\ UNCHANGED <<list, jobs>>
  BY DEF Keep, At, IInv, TypeOK
<1>2. act[a].label \in Labels BY <1>1, ActorFacts DEF IInv, Fit, Knows
<1>3. CASE Step(a, "park") /\ card' = card
  <2>1. Good(a, [act[a] EXCEPT !.pc = "park"]) BY <1>1, GoOn DEF Pcs
  <2> QED BY <1>1, <1>3, <2>1, Staying, QuietFiles DEF Step
<1>4. CASE Step(a, "prune") /\ card' = card
  <2>1. Good(a, [act[a] EXCEPT !.pc = "prune"]) BY <1>1, GoOn DEF Pcs
  <2> QED BY <1>1, <1>4, <2>1, Staying, QuietFiles DEF Step
<1>5. CASE Step(a, "keeping") /\ card' = [card EXCEPT ![Kept(act[a].label)] = Torn]
  <2>1. Good(a, [act[a] EXCEPT !.pc = "keeping"]) BY <1>1, GoOn DEF Pcs
  <2>2. Changes(card', {Kept(act[a].label)})
    BY <1>1, <1>2, <1>5, Setting, PathFacts, ContentFacts
  <2>3. {Kept(act[a].label)} \cap UserPaths = {} BY <1>2, PathFacts
  <2> QED BY <1>1, <1>5, <2>1, <2>2, <2>3, QuietFiles DEF Step
<1> QED BY <1>3, <1>4, <1>5 DEF Keep

LEMMA KeepEndStep == ASSUME IInv, NEW a \in Actors, KeepEnd(a) PROVE IInv' /\ Respects
<1> DEFINE q == Kept(act[a].label)
<1>1. /\ CardOK /\ act[a].pc # "idle" /\ snap' = snap /\ new' = new /\ UNCHANGED <<list, jobs>>
  BY DEF KeepEnd, At, IInv, TypeOK, book
<1>2. act[a].label \in Labels /\ act[a].old \in Names
  BY <1>1, ActorFacts DEF IInv, Fit, Knows
<1>3. Good(a, [act[a] EXCEPT !.pc = "prune"]) BY <1>1, GoOn DEF Pcs
<1>4. card[Nro(act[a].old)] \in Contents BY <1>1, <1>2, PathFacts DEF CardOK
<1>5. q \in Paths /\ {q} \cap UserPaths = {} BY <1>2, PathFacts
<1>6. Changes(card', {q}) BY <1>1, <1>4, <1>5, Setting DEF KeepEnd
<1> QED BY <1>1, <1>3, <1>5, <1>6, QuietFiles DEF KeepEnd, Step

LEMMA KeepFailsStep == ASSUME IInv, NEW a \in Actors, KeepFails(a) PROVE IInv' /\ Respects
<1> DEFINE q == Kept(act[a].label)
<1>1. /\ CardOK /\ act[a].pc # "idle" /\ snap' = None /\ new' = new /\ UNCHANGED <<list, jobs>>
  BY DEF KeepFails, At, IInv, TypeOK
<1>2. act[a].label \in Labels BY <1>1, ActorFacts DEF IInv, Fit, Knows
<1>3. Good(a, [act[a] EXCEPT !.pc = "prune"]) BY <1>1, GoOn DEF Pcs
<1>4. {q} \cap UserPaths = {} BY <1>2, PathFacts
<1>5. Changes(card', {q}) BY <1>1, Removing DEF KeepFails
<1> QED BY <1>1, <1>3, <1>4, <1>5, QuietFiles DEF KeepFails

\* A backup that goes has none of the user's files.
LEMMA PruneStep == ASSUME IInv, NEW a \in Actors, Prune(a) PROVE IInv' /\ Respects
<1> DEFINE left == Gone(a, {Kept(l) : l \in Victims(a)})
           bare == Victims(a) \cup {l \in Labels : left[Kept(l)] = None}
           away == {File(l, e) : l \in bare, e \in Extras}
<1>1. /\ CardOK /\ act[a].pc # "idle" /\ UNCHANGED <<list, jobs>>
      /\ Step(a, "park") /\ snap' = NoMore(bare)
      /\ card' = [p \in Paths |-> IF p \in away THEN None ELSE left[p]]
      /\ new' = [l \in Labels |-> IF l \in bare THEN {} ELSE new[l]]
  BY DEF Prune, At, IInv, TypeOK
<1>2. Good(a, [act[a] EXCEPT !.pc = "park"]) BY <1>1, GoOn DEF Pcs
<1>3. Changes(left, {Kept(l) : l \in Victims(a)}) BY <1>1, Going
<1>4. snap' \in {snap, None} BY <1>1 DEF NoMore
<1>5. new' \in [Labels -> SUBSET Extras] BY <1>1 DEF CardOK
<1> HIDE DEF left, bare
<1>6. card' \in [Paths -> Contents] BY <1>1, <1>3, ContentFacts DEF Changes
<1>7. Spared
  <2> SUFFICES ASSUME NEW p \in UserPaths PROVE card'[p] = card[p] BY DEF Spared
  <2>1. p \in Paths /\ left[p] = card[p] BY <1>3, UserPathFacts DEF Changes
  <2>2. p \in away => card[p] = None
    BY UserPathFacts DEF UserPaths, IInv, DataInv, NoCopies
  <2> QED BY <1>1, <2>1, <2>2
<1> QED BY <1>1, <1>2, <1>4, <1>5, <1>6, <1>7, Quiet DEF Step
-----------------------------------------------------------------------------
(* The swap. *)

\* What an actor at work knows.
LEMMA Known ==
  ASSUME IInv, NEW a \in Actors, act[a].pc # "idle"
  PROVE  /\ CardOK /\ act[a] \in Actor /\ Knows(act[a])
         /\ Nro(act[a].dest) \in Paths \ UserPaths /\ Bak(act[a].dest) \in Paths \ UserPaths
         /\ Nro(act[a].old) \in Paths \ UserPaths
         /\ card[Nro(act[a].dest)] \in Contents
         /\ act[a].op = "rollback" => card[Kept(act[a].src)] \in Contents
<1>1. act[a] \in Actor /\ Knows(act[a]) BY ActorFacts DEF IInv, Fit
<1>2. CardOK BY DEF IInv, TypeOK
<1> QED BY <1>1, <1>2, PathFacts DEF Knows, CardOK

LEMMA ParkStep == ASSUME IInv, NEW a \in Actors, Park(a) PROVE IInv' /\ Respects
<1> DEFINE r == act[a]
           next == IF r.op = "rollback" THEN "write" ELSE "place"
           ps == {Nro(r.dest), Bak(r.dest)}
           s == [r EXCEPT !.pc = next]
<1>1. /\ r.pc # "idle" /\ new' = new /\ UNCHANGED <<list, jobs>> /\ snap' \in {snap, None}
  BY DEF Park, At, book
<1>2. /\ CardOK /\ ps \cap UserPaths = {} /\ Nro(r.dest) \in Paths /\ Bak(r.dest) \in Paths
  BY <1>1, Known
<1>3. Good(a, s) BY <1>1, GoOn DEF Pcs
<1>4. r \in Actor BY <1>1, Known
<1>5. Good(a, [r EXCEPT !.pc = next, !.restore = TRUE])
  <2> DEFINE t == [s EXCEPT !.restore = TRUE]
  <2>1. s \in Actor BY <1>3 DEF Good, Fit
  <2> HIDE DEF s
  <2>2. t \in Actor BY <2>1 DEF Actor
  <2>3. /\ t.pc = s.pc /\ t.op = s.op /\ t.root = s.root /\ t.todo = s.todo
        /\ t.cur = s.cur /\ t.moved = s.moved /\ t.src = s.src /\ t.ver = s.ver
        /\ t.dest = s.dest /\ t.old = s.old /\ t.label = s.label
    BY <2>1 DEF Actor
  <2> HIDE DEF t
  <2>4. Knows(s) => Knows(t) BY <2>3 DEF Knows
  <2>5. Good(a, t) BY <1>3, <2>2, <2>3, <2>4 DEF Good, Fit, RecOK, CopyOK
  <2> USE DEF s, t
  <2>6. t = [r EXCEPT !.pc = next, !.restore = TRUE] OBVIOUS
  <2> QED BY <2>5, <2>6
<1>6. CASE card' = Moved(a, Nro(r.dest), Bak(r.dest))
           /\ Goto(a, [r EXCEPT !.pc = next, !.restore = TRUE])
  <2>1. Changes(card', ps) BY <1>2, <1>6, MovingOne
  <2> QED BY <1>1, <1>2, <1>5, <1>6, <2>1, QuietFiles
<1>7. CASE /\ card' \in {card, Gone(a, {Bak(r.dest)}), Gone(a, {Bak(r.dest), Nro(r.dest)})}
           /\ Upset(a, s) \/ Goto(a, s)
  <2>1. Changes(card', ps) BY <1>2, <1>7, Going, Staying DEF Changes
  <2> QED BY <1>1, <1>2, <1>3, <1>7, <2>1, QuietFiles
<1> QED BY <1>6, <1>7 DEF Park, Step

LEMMA PlaceStep == ASSUME IInv, NEW a \in Actors, Place(a) PROVE IInv' /\ Respects
<1> DEFINE p == Nro(act[a].dest)
<1>1. /\ act[a].pc = "place" /\ new' = new /\ UNCHANGED <<list, jobs>> /\ snap' = snap
      /\ Step(a, "clean") /\ card' = [card EXCEPT ![p] = act[a].ver]
  BY DEF Place, At, book
<1>2. CardOK /\ p \in Paths /\ {p} \cap UserPaths = {} /\ act[a].ver \in Contents
  BY <1>1, Known, ContentFacts DEF Knows
<1>3. Good(a, [act[a] EXCEPT !.pc = "clean"]) BY <1>1, GoOn DEF Pcs
<1>4. Changes(card', {p}) BY <1>1, <1>2, Setting
<1> QED BY <1>1, <1>2, <1>3, <1>4, QuietFiles DEF Step

LEMMA Undoing ==
  ASSUME IInv, NEW a \in Actors, act[a].pc # "idle"
  PROVE  Changes(Undone(a), {Nro(act[a].dest), Bak(act[a].dest)})
<1> DEFINE n == Nro(act[a].dest)
           b == Bak(act[a].dest)
<1>1. CardOK /\ n \in Paths /\ b \in Paths BY Known
<1>2. Changes(Moved(a, b, n), {n, b})
  <2>1. Changes(Moved(a, b, n), {b, n}) BY <1>1, MovingOne
  <2> QED BY <2>1 DEF Changes
<1>3. Changes(card, {n, b}) BY <1>1 DEF CardOK, Changes
<1>4. Undone(a) \in {Moved(a, b, n), card} BY DEF Undone
<1> QED BY <1>2, <1>3, <1>4

LEMMA PlaceFailsStep == ASSUME IInv, NEW a \in Actors, PlaceFails(a) PROVE IInv' /\ Respects
<1> DEFINE ps == {Nro(act[a].dest), Bak(act[a].dest)}
<1>1. /\ act[a].pc # "idle" /\ new' = new /\ UNCHANGED list /\ snap' = snap
      /\ Goto(a, Idle) /\ card' = Undone(a)
      /\ jobs' = [j \in Jobs |-> IF j = act[a].job THEN None ELSE jobs[j]]
  BY DEF PlaceFails, At, book
<1>2. Changes(card', ps) /\ ps \cap UserPaths = {} BY <1>1, Undoing, Known
<1>3. Spared BY <1>2, Sparing
<1>4. ActorsOK' /\ DataInv' /\ Respects
  BY <1>1, <1>3, PlainStep, IdleIsFit DEF Good, IInv, TypeOK, ActorsOK
<1>5. CardOK' BY <1>1, <1>2 DEF IInv, TypeOK, CardOK, list, Changes
<1>6. ListOK' BY <1>1 DEF IInv, TypeOK, ListOK, list
<1> QED BY <1>4, <1>5, <1>6 DEF IInv, TypeOK

LEMMA WriteStep == ASSUME IInv, NEW a \in Actors, Write(a) PROVE IInv' /\ Respects
<1> DEFINE p == Nro(act[a].dest)
<1>1. /\ act[a].pc = "write" /\ new' = new /\ UNCHANGED <<list, jobs>> /\ snap' = snap
  BY DEF Write, At, book
<1>2. /\ CardOK /\ p \in Paths \ UserPaths /\ Bak(act[a].dest) \in Paths \ UserPaths
      /\ act[a].op = "rollback"
  BY <1>1, Known DEF Knows
<1>3. CASE Step(a, "writing") /\ card' = [card EXCEPT ![p] = Torn]
  <2>1. Good(a, [act[a] EXCEPT !.pc = "writing"]) BY <1>1, <1>2, GoOn DEF Pcs
  <2>2. Changes(card', {p}) /\ {p} \cap UserPaths = {} BY <1>2, <1>3, Setting, ContentFacts
  <2> QED BY <1>1, <1>3, <2>1, <2>2, QuietFiles DEF Step
<1>4. CASE Step(a, "reap") /\ card' = Undone(a)
  <2>1. Good(a, [act[a] EXCEPT !.pc = "reap"]) BY <1>1, <1>2, GoOn DEF Pcs
  <2>2. Changes(card', {p, Bak(act[a].dest)}) BY <1>1, <1>4, Undoing
  <2>3. {p, Bak(act[a].dest)} \cap UserPaths = {} BY <1>2
  <2> QED BY <1>1, <1>4, <2>1, <2>2, <2>3, QuietFiles DEF Step
<1> QED BY <1>3, <1>4 DEF Write

LEMMA WriteEndStep == ASSUME IInv, NEW a \in Actors, WriteEnd(a) PROVE IInv' /\ Respects
<1> DEFINE p == Nro(act[a].dest)
<1>1. /\ act[a].pc = "writing" /\ new' = new /\ UNCHANGED <<list, jobs>> /\ snap' = snap
      /\ Step(a, "clean") /\ card' = [card EXCEPT ![p] = card[Kept(act[a].src)]]
  BY DEF WriteEnd, At, book
<1>2. CardOK /\ p \in Paths /\ {p} \cap UserPaths = {} /\ card[Kept(act[a].src)] \in Contents
  BY <1>1, Known DEF Knows
<1>3. Good(a, [act[a] EXCEPT !.pc = "clean"]) BY <1>1, GoOn DEF Pcs
<1>4. Changes(card', {p}) BY <1>1, <1>2, Setting
<1> QED BY <1>1, <1>2, <1>3, <1>4, QuietFiles DEF Step

LEMMA WriteFailsStep == ASSUME IInv, NEW a \in Actors, WriteFails(a) PROVE IInv' /\ Respects
<1> DEFINE n == Nro(act[a].dest)
           b == Bak(act[a].dest)
<1>1. /\ act[a].pc = "writing" /\ new' = new /\ UNCHANGED <<list, jobs>> /\ snap' = None
      /\ Upset(a, [act[a] EXCEPT !.pc = "reap"])
      /\ card' \in {[card EXCEPT ![n] = card[b], ![b] = None], Removed({n})}
  BY DEF WriteFails, At, book
<1>2. /\ CardOK /\ n \in Paths /\ b \in Paths /\ {n, b} \cap UserPaths = {}
      /\ act[a].op = "rollback"
  BY <1>1, Known DEF Knows
<1>3. Good(a, [act[a] EXCEPT !.pc = "reap"]) BY <1>1, <1>2, GoOn DEF Pcs
<1>4. Changes(card', {n, b})
  <2> HIDE DEF n, b
  <2>1. CASE card' = [card EXCEPT ![n] = card[b], ![b] = None]
    BY <1>2, <2>1, ContentFacts DEF CardOK, Changes
  <2>2. CASE card' = Removed({n}) BY <1>2, <2>2, Removing DEF Changes
  <2> QED BY <1>1, <2>1, <2>2
<1> QED BY <1>1, <1>2, <1>3, <1>4, QuietFiles
LEMMA CleanStep == ASSUME IInv, NEW a \in Actors, Clean(a) PROVE IInv' /\ Respects
<1> DEFINE r == act[a]
           b == Bak(r.dest)
           todo == {e \in Extras : Exists(File(r.src, e))}
           root == IF r.label = r.src THEN None ELSE r.label
           s == [r EXCEPT !.pc = "extras", !.ok = TRUE, !.root = root, !.todo = todo]
<1>1. /\ r.pc = "clean" /\ new' = new /\ UNCHANGED <<list, jobs>> /\ snap' = snap
      /\ card' \in {Gone(a, {b}), card}
      /\ IF r.op = "rollback" THEN Goto(a, s) ELSE Step(a, "old")
  BY DEF Clean, At, book
<1>2. CardOK /\ {b} \cap UserPaths = {} /\ r \in Actor /\ Knows(r) BY <1>1, Known
<1>3. Changes(card', {b}) BY <1>1, <1>2, Going DEF Changes, CardOK
<1>4. CASE r.op = "rollback"
  <2>1. todo \cap UserData = {}
    BY <1>2, <1>4 DEF Knows, IInv, DataInv, NoCopies, Exists
  <2>2. todo \in SUBSET Extras /\ root \in Labels \cup {None} BY <1>2 DEF Knows
  <2> HIDE DEF todo, root
  <2>3. s \in Actor BY ZenonT(30), <1>2, <2>2 DEF Actor, Pcs
  <2>4. /\ s.pc = "extras" /\ s.op = "rollback" /\ s.todo = todo /\ s.src = r.src
        /\ s.dest = r.dest /\ s.old = r.old /\ s.label = r.label
    BY <1>2, <1>4 DEF Actor
  <2> HIDE DEF s
  <2>5. Good(a, s) BY <1>2, <1>4, <2>1, <2>3, <2>4 DEF Good, Fit, Knows, RecOK, CopyOK
  <2> QED BY <1>1, <1>2, <1>3, <1>4, <2>5, QuietFiles
<1>5. CASE r.op # "rollback"
  <2>1. Good(a, [r EXCEPT !.pc = "old"]) BY <1>1, <1>5, GoOn DEF Pcs
  <2> QED BY <1>1, <1>2, <1>3, <1>5, <2>1, QuietFiles DEF Step
<1> QED BY <1>4, <1>5

LEMMA OldStep == ASSUME IInv, NEW a \in Actors, Old(a) PROVE IInv' /\ Respects
<1> DEFINE r == act[a]
           c == card[Nro(r.dest)]
           seen == [path |-> r.dest, label |-> IF c \in Releases THEN Label(c) ELSE LabelOf[r.ver]]
<1>1. /\ r.pc = "old" /\ UNCHANGED <<book, latest, scan, snap>> /\ Goto(a, Idle)
      /\ card' \in {card, Gone(a, {Nro(r.old)})} /\ row' \in {row, seen}
      /\ jobs' = [j \in Jobs |-> IF j = r.job THEN None ELSE jobs[j]]
  BY DEF Old, At
<1>2. CardOK /\ {Nro(r.old)} \cap UserPaths = {} /\ Knows(r) /\ r.op # "rollback"
  BY <1>1, Known DEF Knows
<1>3. Changes(card', {Nro(r.old)}) BY <1>1, <1>2, Going DEF Changes, CardOK
<1>4. Spared BY <1>2, <1>3, Sparing
<1>5. ActorsOK' /\ DataInv' /\ Respects
  BY <1>1, <1>4, PlainStep, IdleIsFit DEF Good, IInv, TypeOK, ActorsOK
<1>6. CardOK' BY <1>1, <1>2, <1>3 DEF CardOK, book, Changes
<1>7. seen \in Rows
  <2>1. c \in Releases => Label(c) \in Labels BY DEF Label, Labels
  <2>2. r.ver \in Releases => LabelOf[r.ver] \in Labels BY DEF Labels
  <2> QED BY <1>2, <2>1, <2>2 DEF Knows, Rows
<1>8. ListOK' BY <1>1, <1>7 DEF IInv, TypeOK, ListOK
<1> QED BY <1>5, <1>6, <1>8 DEF IInv, TypeOK

-----------------------------------------------------------------------------
(* The extra files. *)

LEMMA CopyDoneStep == ASSUME IInv, NEW a \in Actors, CopyDone(a) PROVE IInv' /\ Respects
<1> DEFINE r == act[a]
           rb == r.op = "rollback"
           pc == IF rb THEN "rnew" ELSE "keep"
           todo == IF rb THEN new[r.src] ELSE {}
           s == [r EXCEPT !.added = {}, !.pc = pc, !.todo = todo]
<1>1. /\ r.pc = "extras" /\ card' = card /\ UNCHANGED <<list, jobs>> /\ snap' = snap
      /\ Goto(a, s)
      /\ new' = IF r.root = None THEN new ELSE [new EXCEPT ![r.root] = @ \cup r.added]
  BY DEF CopyDone, At
<1>2. CardOK /\ r \in Actor /\ Knows(r) /\ RecOK(r) /\ (a = "rev" => r.op # "install")
  BY <1>1, Known DEF IInv, DataInv
<1>3. todo \in SUBSET Extras /\ pc \in Pcs BY <1>2 DEF CardOK, Knows, Pcs
<1> HIDE DEF todo, pc
<1>4. s \in Actor BY <1>2, <1>3 DEF Actor
<1>5. /\ s.pc = pc /\ s.op = r.op /\ s.root = r.root /\ s.src = r.src /\ s.ver = r.ver
      /\ s.dest = r.dest /\ s.old = r.old /\ s.label = r.label
  BY <1>2 DEF Actor
<1> HIDE DEF s
<1>6. Good(a, s) BY <1>2, <1>4, <1>5 DEF Good, Fit, Knows, RecOK, CopyOK, pc
<1>7. new' \in [Labels -> SUBSET Extras]
  <2>1. r.root \in Labels \cup {None} /\ r.added \subseteq Extras BY <1>2 DEF Actor
  <2> QED BY <1>1, <1>2, <2>1 DEF CardOK
<1>8. Spared /\ card' \in [Paths -> Contents] BY <1>1, <1>2 DEF Spared, CardOK
<1> QED BY <1>1, <1>6, <1>7, <1>8, Quiet

LEMMA RolledBackStep == ASSUME IInv, NEW a \in Actors, RolledBack(a) PROVE IInv' /\ Respects
<1>1. /\ act[a].pc = "rnew" /\ new' = new /\ UNCHANGED <<list, jobs>> /\ snap' = snap
      /\ Step(a, "reap") /\ card' = card
  BY DEF RolledBack, At, book
<1>2. CardOK /\ act[a].op = "rollback" BY <1>1, Known DEF Knows
<1>3. Good(a, [act[a] EXCEPT !.pc = "reap"]) BY <1>1, <1>2, GoOn DEF Pcs
<1> QED BY <1>1, <1>2, <1>3, Staying, QuietFiles DEF Step

\* The user's own is left where it is.
LEMMA RemoveNewStep ==
  ASSUME IInv, NEW a \in Actors, NEW e \in Extras, RemoveNew(a, e)
  PROVE  IInv' /\ Respects
<1> DEFINE r == act[a]
           f == File(r.root, e)
           s == [r EXCEPT !.todo = @ \ {e}]
<1>1. /\ r.pc = "rnew" /\ new' = new /\ UNCHANGED <<list, jobs>> /\ snap' = snap /\ Goto(a, s)
      /\ e \in UserData => card' = card
      /\ e \notin UserData /\ KeepFirst(a, e) => card' = Moved(a, Extra(e), f)
      /\ e \notin UserData /\ ~KeepFirst(a, e) => card' = Gone(a, {Extra(e)})
  BY DEF RemoveNew, At, book
<1>2. /\ CardOK /\ r \in Actor /\ Knows(r) /\ RecOK(r) /\ (a = "rev" => r.op # "install")
      /\ r.op = "rollback"
  BY <1>1, Known DEF IInv, DataInv, Knows
<1>3. KeepFirst(a, e) => r.root \in Labels BY <1>2 DEF KeepFirst, Actor
<1>4. s \in Actor BY <1>2 DEF Actor
<1>5. /\ s.pc = r.pc /\ s.op = r.op /\ s.root = r.root /\ s.src = r.src /\ s.ver = r.ver
      /\ s.dest = r.dest /\ s.old = r.old /\ s.label = r.label
  BY <1>2 DEF Actor
<1> HIDE DEF s
<1>6. Good(a, s) BY <1>1, <1>2, <1>4, <1>5 DEF Good, Fit, Knows, RecOK, CopyOK
<1>7. CASE e \in UserData
  <2>1. card' = card BY <1>1, <1>7
  <2> QED BY <1>1, <1>2, <1>6, <2>1, Staying, QuietFiles
<1>8. CASE e \notin UserData /\ KeepFirst(a, e)
  <2>1. card' = Moved(a, Extra(e), f) BY <1>1, <1>8
  <2>2. /\ Extra(e) \in Paths /\ f \in Paths /\ {Extra(e), f} \cap UserPaths = {}
    BY <1>3, <1>8, PathFacts
  <2>3. Changes(card', {Extra(e), f}) BY <1>2, <2>1, <2>2, MovingOne
  <2> QED BY <1>1, <1>6, <2>2, <2>3, QuietFiles
<1>9. CASE e \notin UserData /\ ~KeepFirst(a, e)
  <2>1. Changes(card', {Extra(e)}) BY <1>1, <1>2, <1>9, Going
  <2>2. {Extra(e)} \cap UserPaths = {} BY <1>9, PathFacts
  <2> QED BY <1>1, <1>6, <2>1, <2>2, QuietFiles
<1> QED BY <1>7, <1>8, <1>9
\* One of the user's folder's files changes that is not the user's own, or an install
\* writes it.
LEMMA OneOfTheirs ==
  ASSUME IInv, NEW a \in Actors, NEW r, Fit(r), RecOK(r), a = "rev" => r.op # "install",
         Goto(a, r) \/ Upset(a, r), snap' \in {snap, None},
         NEW c \in UserData, Changes(card', {Extra(c)}), card'[Extra(c)] # Own,
         card[Extra(c)] = Own => act["ui"].op = "install",
         r.pc = "copy" => r.cur = c /\ ~r.moved,
         new' = new, UNCHANGED <<list, jobs>>
  PROVE  IInv' /\ Respects
<1>1. snap' \in Snaps \cup {None} /\ "rev" \in Actors
  BY DEF IInv, TypeOK, ActorsOK, Actors
<1>2. /\ ActorsOK' /\ Alike(act'[a], r)
      /\ \A b \in Actors \ {a} : Alike(act'[b], act[b])
  BY <1>1, ActorStep DEF IInv
<1>3. \A u \in UserData : u # c => card'[Extra(u)] = card[Extra(u)]
  BY UserPathFacts DEF Changes
<1>4. NoCopies' BY UserPathFacts DEF IInv, DataInv, NoCopies, Changes
<1>5. act'["rev"].op # "install" BY <1>1, <1>2 DEF IInv, DataInv, Alike
<1>6. \A b \in Actors : RecOK(act'[b]) BY <1>2 DEF IInv, DataInv, RecOK, Alike
<1>7. \A b \in Actors : CopyOK(act[b])'
  <2> SUFFICES ASSUME NEW b \in Actors, act'[b].pc = "copy", act'[b].cur \in UserData
               PROVE  ~act'[b].moved /\ card'[Extra(act'[b].cur)] # Own
    BY DEF CopyOK
  <2>1. CASE b = a BY <1>2, <2>1 DEF Alike
  <2>2. CASE b # a BY <1>2, <1>3, <2>2 DEF IInv, DataInv, CopyOK, Alike
  <2> QED BY <2>1, <2>2
<1>8. Respects BY <1>3 DEF Respects
<1>9. CardOK' BY DEF IInv, TypeOK, CardOK, list, Changes
<1>10. ListOK' BY DEF IInv, TypeOK, ListOK, list
<1> QED BY <1>2, <1>4, <1>5, <1>6, <1>7, <1>8, <1>9, <1>10 DEF IInv, TypeOK, DataInv

LEMMA CopyFailsStep == ASSUME IInv, NEW a \in Actors, CopyFails(a) PROVE IInv' /\ Respects
<1> DEFINE r == act[a]
           p == Extra(r.cur)
           q == File(r.root, r.cur)
           s == [r EXCEPT !.pc = "extras", !.cur = None, !.moved = FALSE]
<1>1. /\ r.pc = "copy" /\ UNCHANGED <<book, list, jobs>> /\ snap' = None /\ Upset(a, s)
      /\ card' = IF r.moved THEN [Removed({p}) EXCEPT ![p] = card[q], ![q] = None]
                            ELSE Removed({p})
  BY DEF CopyFails, At
<1>2. /\ CardOK /\ r \in Actor /\ Knows(r) /\ RecOK(r) /\ (a = "rev" => r.op # "install")
      /\ r.cur \in Extras /\ (r.moved => r.root \in Labels)
      /\ CopyOK(r)
  BY <1>1, Known DEF IInv, DataInv, Knows
<1>3. Good(a, s)
  <2>1. s \in Actor BY ZenonT(30), <1>2 DEF Actor, Pcs
  <2>2. /\ s.pc = "extras" /\ s.op = r.op /\ s.root = r.root /\ s.src = r.src /\ s.ver = r.ver
        /\ s.dest = r.dest /\ s.old = r.old /\ s.label = r.label /\ s.todo = r.todo
    BY <1>2 DEF Actor
  <2> HIDE DEF s
  <2> QED BY <1>1, <1>2, <2>1, <2>2 DEF Good, Fit, Knows, RecOK, CopyOK
<1>4. p \in Paths /\ (r.moved => q \in Paths /\ q # p)
  BY <1>2, PathFacts, UserPathFacts
<1>5. Changes(Removed({p}), {p}) BY <1>2, Removing
<1>6. Changes(card', IF r.moved THEN {p, q} ELSE {p})
  <2> HIDE DEF p, q
  <2> DEFINE g == Removed({p})
  <2> HIDE DEF g
  <2>1. CASE r.moved
    <3>1. card' = [g EXCEPT ![p] = card[q], ![q] = None] BY <1>1, <2>1 DEF g
    <3>2. card[q] \in Contents BY <1>2, <1>4, <2>1 DEF CardOK
    <3> QED BY <1>4, <1>5, <2>1, <3>1, <3>2, ContentFacts DEF Changes, g
  <2>2. CASE ~r.moved BY <1>1, <1>5, <2>2 DEF g
  <2> QED BY <2>1, <2>2
<1>7. CASE r.cur \notin UserData
  <2>1. (IF r.moved THEN {p, q} ELSE {p}) \cap UserPaths = {} BY <1>2, <1>7, PathFacts
  <2>2. new' = new BY <1>1 DEF book
  <2> QED BY <1>1, <1>3, <1>6, <2>1, <2>2, QuietFiles
<1>8. CASE r.cur \in UserData
  <2>1. ~r.moved /\ card[p] # Own BY <1>1, <1>2, <1>8 DEF CopyOK
  <2>2. Changes(card', {p}) BY <1>6, <2>1
  <2>3. card'[p] # Own BY <1>1, <1>4, <2>1, ContentFacts DEF Removed
  <2>4. s.pc # "copy" BY <1>2 DEF Actor
  <2>5. new' = new BY <1>1 DEF book
  <2>6. Fit(s) /\ RecOK(s) /\ (a = "rev" => s.op # "install") BY <1>3 DEF Good
  <2> QED BY <1>1, <1>8, <2>1, <2>2, <2>3, <2>4, <2>5, <2>6, OneOfTheirs
<1> QED BY <1>7, <1>8
LEMMA CopyEndStep == ASSUME IInv, NEW a \in Actors, CopyEnd(a) PROVE IInv' /\ Respects
<1> DEFINE r == act[a]
           p == Extra(r.cur)
           s == [r EXCEPT !.pc = "extras", !.cur = None, !.moved = FALSE]
<1>1. /\ r.pc = "copy" /\ new' = new /\ UNCHANGED <<list, jobs>> /\ snap' = snap /\ Goto(a, s)
      /\ card' = [card EXCEPT ![p] = Source(r, r.cur)]
  BY DEF CopyEnd, At, book
<1>2. /\ CardOK /\ r \in Actor /\ Knows(r) /\ RecOK(r) /\ (a = "rev" => r.op # "install")
      /\ r.cur \in Extras /\ CopyOK(r)
  BY <1>1, Known DEF IInv, DataInv, Knows
<1>3. s.pc = "extras" /\ Good(a, s)
  <2>1. s \in Actor BY ZenonT(30), <1>2 DEF Actor, Pcs
  <2>2. /\ s.pc = "extras" /\ s.op = r.op /\ s.root = r.root /\ s.src = r.src /\ s.ver = r.ver
        /\ s.dest = r.dest /\ s.old = r.old /\ s.label = r.label /\ s.todo = r.todo
    BY <1>2 DEF Actor
  <2> HIDE DEF s
  <2> QED BY <1>1, <1>2, <2>1, <2>2 DEF Good, Fit, Knows, RecOK, CopyOK
<1>4. p \in Paths BY <1>2, PathFacts
<1>5. Source(r, r.cur) \in Contents /\ (r.op # "rollback" => Source(r, r.cur) \in Releases)
  BY <1>2, PathFacts, ContentFacts DEF Source, Knows, CardOK
<1>6. Changes(card', {p}) BY <1>1, <1>2, <1>4, <1>5, Setting
<1>7. CASE r.cur \notin UserData
  <2>1. {p} \cap UserPaths = {} BY <1>2, <1>7, PathFacts
  <2> QED BY <1>1, <1>3, <1>6, <2>1, QuietFiles
<1>8. CASE r.cur \in UserData
  <2>1. card[p] # Own BY <1>1, <1>2, <1>8 DEF CopyOK
  <2>2. r.op # "rollback" BY <1>1, <1>2, <1>8 DEF RecOK
  <2>3. card'[p] # Own BY <1>1, <1>2, <1>4, <1>5, <2>2, ContentFacts DEF CardOK
  <2>4. Fit(s) /\ RecOK(s) /\ (a = "rev" => s.op # "install") /\ s.pc # "copy"
    BY <1>3 DEF Good
  <2> HIDE DEF s
  <2> QED BY <1>1, <1>6, <1>8, <2>1, <2>3, <2>4, OneOfTheirs
<1> QED BY <1>7, <1>8

\* An update begins to write a file of the user's folder only where there is none, and
\* has then nothing to move.
LEMMA CopyBeginStep ==
  ASSUME IInv, NEW a \in Actors, NEW e \in Extras, CopyBegin(a, e)
  PROVE  IInv' /\ Respects
<1> DEFINE r == act[a]
           moves == KeepFirst(a, e)
           p == Extra(e)
           q == File(r.root, e)
           left == IF moves THEN Moved(a, p, q) ELSE card
           adds == IF r.root # None /\ ~Exists(p) THEN {e} ELSE {}
           rest == [r EXCEPT !.todo = @ \ {e}, !.added = @ \cup adds]
           skip == [r EXCEPT !.todo = @ \ {e}]
           s == [rest EXCEPT !.pc = "copy", !.cur = e, !.moved = moves]
<1>1. /\ r.pc = "extras" /\ new' = new /\ UNCHANGED <<list, jobs>> /\ snap' = snap /\ e \in r.todo
      /\ IF LeftAlone(r, e) \/ Open(a, p)
           THEN card' = card /\ Goto(a, skip)
           ELSE card' = [left EXCEPT ![p] = Torn] /\ Goto(a, s)
  BY DEF CopyBegin, At, book, First
<1>2. /\ CardOK /\ r \in Actor /\ Knows(r) /\ RecOK(r) /\ (a = "rev" => r.op # "install")
  BY <1>1, Known DEF IInv, DataInv
<1>3. p \in Paths /\ (moves => r.root \in Labels /\ q \in Paths)
  BY <1>2, PathFacts DEF KeepFirst, Actor
<1>4. CASE card' = card /\ Goto(a, skip)
  <2>1. skip \in Actor BY <1>2 DEF Actor
  <2>2. /\ skip.pc = "extras" /\ skip.op = r.op /\ skip.root = r.root /\ skip.src = r.src
        /\ skip.ver = r.ver /\ skip.dest = r.dest /\ skip.old = r.old /\ skip.label = r.label
        /\ skip.todo = r.todo \ {e}
    BY <1>1, <1>2 DEF Actor
  <2> HIDE DEF skip
  <2>3. Good(a, skip)
    BY <1>1, <1>2, <2>1, <2>2 DEF Good, Fit, Knows, RecOK, CopyOK
  <2> QED BY <1>1, <1>2, <1>4, <2>3, Staying, QuietFiles
<1>5. CASE ~LeftAlone(r, e) /\ card' = [left EXCEPT ![p] = Torn] /\ Goto(a, s)
  <2>1. adds \subseteq Extras /\ moves \in BOOLEAN BY DEF KeepFirst
  <2> HIDE DEF moves, adds
  <2>2. rest \in Actor BY ZenonT(30), <1>2, <2>1 DEF Actor
  <2>3. /\ rest.op = r.op /\ rest.root = r.root /\ rest.src = r.src /\ rest.ver = r.ver
        /\ rest.dest = r.dest /\ rest.old = r.old /\ rest.label = r.label
        /\ rest.todo = r.todo \ {e}
    BY <1>2 DEF Actor
  <2> HIDE DEF rest
  <2>4. s \in Actor BY ZenonT(30), <2>1, <2>2 DEF Actor, Pcs
  <2>5. /\ s.pc = "copy" /\ s.op = r.op /\ s.root = r.root /\ s.src = r.src /\ s.ver = r.ver
        /\ s.dest = r.dest /\ s.old = r.old /\ s.label = r.label /\ s.todo = r.todo \ {e}
        /\ s.cur = e /\ s.moved = moves
    BY <2>2, <2>3 DEF Actor
  <2> HIDE DEF s
  <2>6. Fit(s) /\ RecOK(s) /\ (a = "rev" => s.op # "install")
    BY <1>1, <1>2, <1>3, <2>4, <2>5 DEF Fit, Knows, RecOK
  <2>7. left \in [Paths -> Contents] /\ \A x \in Paths \ {p, q} : left[x] = card[x]
    BY <1>2, <1>3, MovingOne DEF CardOK, Changes
  <2>8. CASE e \notin UserData
    <3>1. Good(a, s) BY <1>2, <2>5, <2>6, <2>8 DEF Good, CopyOK
    <3>2. (IF moves THEN {p, q} ELSE {p}) \cap UserPaths = {} BY <1>3, <2>8, PathFacts
    <3>3. Changes(card', IF moves THEN {p, q} ELSE {p})
      BY <1>3, <1>5, <2>7, ContentFacts DEF Changes
    <3> QED BY <1>1, <1>5, <3>1, <3>2, <3>3, QuietFiles
  <2>9. CASE e \in UserData
    <3>1. r.op \in {"update", "install"}
      <4>1. r.op # "rollback" /\ r.op # "push" BY <1>1, <1>2, <2>9 DEF RecOK
      <4>2. r.op \in {"none", "update", "install", "push", "rollback"} BY <1>2 DEF Actor
      <4>3. r.op # "none" BY <1>1, <1>2 DEF RecOK
      <4> QED BY <4>1, <4>2, <4>3
    <3>2. ~moves
      <4>1. r.op = "install" => r.root = None BY <1>2 DEF RecOK
      <4>2. r.op = "update" => ~Exists(p) BY <1>5, <2>9 DEF LeftAlone
      <4>3. moves => r.root # None /\ Exists(p) BY DEF moves, KeepFirst, CanMove
      <4> QED BY <3>1, <4>1, <4>2, <4>3
    <3>3. Changes(card', {p}) /\ card'[p] # Own
      BY <1>2, <1>3, <1>5, <3>2, ContentFacts DEF Changes, CardOK
    <3>4. card[p] = Own => act["ui"].op = "install"
      <4> SUFFICES ASSUME card[p] = Own PROVE act["ui"].op = "install" OBVIOUS
      <4>1. Exists(p) BY ContentFacts DEF Exists
      <4>2. r.op = "install" BY <1>5, <2>9, <3>1, <4>1 DEF LeftAlone
      <4>3. a = "ui" BY <1>2, <4>2 DEF Actors
      <4> QED BY <4>2, <4>3
    <3> QED BY <1>1, <1>5, <2>5, <2>6, <2>9, <3>2, <3>3, <3>4, OneOfTheirs
  <2> QED BY <2>8, <2>9
<1> QED BY <1>1, <1>4, <1>5
LEMMA WorkStep == ASSUME IInv, NEW a \in Actors, Work(a) PROVE IInv' /\ Respects
<1>1. CASE \E e \in Extras : CopyBegin(a, e) \/ RemoveNew(a, e)
  BY <1>1, CopyBeginStep, RemoveNewStep
<1>2. CASE CopyEnd(a) \/ CopyFails(a) \/ CopyDone(a)
  BY <1>2, CopyEndStep, CopyFailsStep, CopyDoneStep
<1>3. CASE Keep(a) \/ KeepEnd(a) \/ KeepFails(a) \/ Prune(a)
  BY <1>3, KeepStep, KeepEndStep, KeepFailsStep, PruneStep
<1>4. CASE Park(a) \/ Place(a) \/ PlaceFails(a) \/ Write(a) \/ WriteEnd(a) \/ WriteFails(a)
  BY <1>4, ParkStep, PlaceStep, PlaceFailsStep, WriteStep, WriteEndStep, WriteFailsStep
<1>5. CASE Clean(a) \/ Old(a) \/ RolledBack(a)
  BY <1>5, CleanStep, OldStep, RolledBackStep
<1> QED BY <1>1, <1>2, <1>3, <1>4, <1>5 DEF Work

-----------------------------------------------------------------------------
(* The list and the UI. *)

\* What changes no file and nobody's work.
LEMMA ListStep ==
  ASSUME IInv, act' = act, snap' = snap, card' = card, new' = new,
         latest' \in Releases, ListOK'
  PROVE  IInv' /\ Respects
<1>1. Spared /\ snap' \in Snaps \cup {None} BY DEF Spared, IInv, TypeOK, ActorsOK
<1>2. ActorsOK' /\ DataInv' /\ Respects BY <1>1, IdleStep
<1>3. CardOK' BY DEF IInv, TypeOK, CardOK
<1> QED BY <1>2, <1>3 DEF IInv, TypeOK

\* What is found of the app is a row.
LEMMA MatchFacts == ASSUME NEW m \in Match PROVE m \in Rows
<1>1. \A c : Label(c) \in Labels BY DEF Label, Labels
<1>2. "unknown" \in Labels BY DEF Labels
<1> QED BY <1>1, <1>2 DEF Match, Rows

LEMMA ScanSteps ==
  ASSUME IInv, ScanStart \/ ScanRead \/ ScanPublish
  PROVE  IInv' /\ Respects
<1>1. /\ act' = act /\ snap' = snap /\ card' = card /\ new' = new /\ latest' = latest
      /\ jobs' = jobs
  BY DEF ScanStart, ScanRead, ScanPublish, book
<1>2. /\ row' \in Rows \cup {None} /\ scan' \in [read : Rows \cup {None}] \cup {None}
  <2>1. ListOK BY DEF IInv, TypeOK
  <2>2. CASE ScanStart BY <2>1, <2>2 DEF ScanStart, ListOK
  <2>3. CASE ScanRead BY <2>1, <2>3, MatchFacts DEF ScanRead, ListOK
  <2>4. CASE ScanPublish BY <2>1, <2>4 DEF ScanPublish, ListOK
  <2> QED BY <2>2, <2>3, <2>4
<1>3. ListOK' /\ latest' \in Releases BY <1>1, <1>2 DEF IInv, TypeOK, ListOK, CardOK
<1> QED BY <1>1, <1>3, ListStep

LEMMA PoolSteps ==
  ASSUME IInv, NEW j \in Jobs, UmiStart(j) \/ UmiFails(j)
  PROVE  IInv' /\ Respects
<1>1. /\ act' = act /\ snap' = snap /\ card' = card /\ new' = new /\ latest' = latest
      /\ row' = row /\ scan' = scan
  BY DEF UmiStart, UmiFails, book, list
<1>2. ListOK /\ CardOK BY DEF IInv, TypeOK
<1>3. CASE UmiStart(j)
  <2> DEFINE d == [ver |-> latest, fresh |-> row.path = None, label |-> row.label,
                   dest |-> IF row.path = None THEN NameOf[latest] ELSE row.path]
  <2>1. row \in Rows BY <1>2, <1>3 DEF UmiStart, ListOK
  <2>2. latest \in Releases /\ NameOf[latest] \in Names BY <1>2 DEF CardOK, Names
  <2>3. d \in [ver : Releases, fresh : BOOLEAN, label : Labels, dest : Names]
    BY <2>1, <2>2 DEF Rows
  <2>4. jobs' = [jobs EXCEPT ![j] = d] BY <1>3 DEF UmiStart
  <2> HIDE DEF d
  <2> QED BY <1>1, <1>2, <2>2, <2>3, <2>4, ListStep DEF ListOK
<1>4. CASE UmiFails(j)
  <2>1. jobs' = [jobs EXCEPT ![j] = None] BY <1>4 DEF UmiFails
  <2>2. ListOK' BY <1>1, <1>2, <2>1 DEF ListOK
  <2> QED BY <1>1, <1>2, <2>2, ListStep DEF CardOK
<1> QED BY <1>3, <1>4

LEMMA PublishedStep == ASSUME IInv, Published PROVE IInv' /\ Respects
<1>1. /\ act' = act /\ snap' = snap /\ card' = card /\ new' = new /\ latest' \in Releases
      /\ UNCHANGED <<row, scan, jobs>>
  BY DEF Published, book
<1>2. ListOK' BY <1>1 DEF IInv, TypeOK, ListOK
<1> QED BY <1>1, <1>2, ListStep

\* What a change owes is a snapshot of the app.
LEMMA Owing ==
  ASSUME IInv, NEW a, NEW n \in Names, NEW l \in Labels
  PROVE  Owed(a, n, l) \in Snaps \cup {None}
<1>1. CardOK /\ snap \in Snaps \cup {None} BY DEF IInv, TypeOK, ActorsOK
<1>2. /\ card[Nro(n)] \in Contents
      /\ [e \in Extras |-> card[Extra(e)]] \in [Extras -> Contents]
  BY <1>1, PathFacts DEF CardOK
<1>3. Snap(n, l) \in Snaps BY <1>2 DEF Snap, Snaps
<1> QED BY <1>1, <1>3 DEF Owed

\* A change begins: no file has changed yet.
LEMMA BeginStep ==
  ASSUME IInv, NEW a \in Actors, NEW r, Good(a, r), Goto(a, r) \/ Upset(a, r),
         snap' \in Snaps \cup {None}, UNCHANGED <<card, book, list, jobs>>
  PROVE  IInv' /\ Respects
<1>1. Spared BY DEF Spared
<1>2. ActorsOK' /\ DataInv' /\ Respects BY <1>1, PlainStep
<1>3. CardOK' /\ ListOK' BY DEF IInv, TypeOK, CardOK, ListOK, book, list
<1> QED BY <1>2, <1>3 DEF IInv, TypeOK

LEMMA UmiTickStep == ASSUME IInv, NEW j \in Jobs, UmiTick(j) PROVE IInv' /\ Respects
<1> DEFINE d == jobs[j]
           op == IF d.fresh THEN "install" ELSE "update"
           keep == ~d.fresh /\ Exists(Nro(d.dest))
           root == IF keep THEN d.label ELSE None
           s == [Idle EXCEPT !.pc = "extras", !.op = op,
                  !.ver = d.ver, !.job = j, !.todo = Ships[d.ver], !.dest = NameOf[d.ver],
                  !.old = d.dest, !.label = d.label, !.root = root]
<1>1. /\ d # None /\ Upset("ui", s) /\ UNCHANGED <<card, book, list, jobs>>
      /\ snap' = IF keep THEN Owed("ui", d.dest, d.label) ELSE None
  BY DEF UmiTick
<1>2. d \in [ver : Releases, fresh : BOOLEAN, label : Labels, dest : Names]
  BY <1>1 DEF IInv, TypeOK, ListOK
<1>3. snap' \in Snaps \cup {None} BY <1>1, <1>2, Owing
<1>4. /\ root \in Labels \cup {None} /\ (d.fresh => root = None)
      /\ op \in {"install", "update"} /\ (op = "install" => d.fresh)
      /\ NameOf[d.ver] \in Names /\ Ships[d.ver] \in SUBSET Extras
  BY <1>2, UpdatesAssumption DEF Names
<1> HIDE DEF d, op, root
<1>5. Idle \in Actor BY IdleIsFit DEF Fit
<1>6. s \in Actor BY ZenonT(30), <1>2, <1>4, <1>5 DEF Actor, Pcs
<1>7. /\ s.pc = "extras" /\ s.op = op /\ s.ver = d.ver /\ s.dest = NameOf[d.ver]
      /\ s.old = d.dest /\ s.label = d.label /\ s.root = root
  BY <1>2, <1>4, <1>5 DEF Actor, Pcs
<1> HIDE DEF s
<1>8. Good("ui", s) BY <1>2, <1>4, <1>6, <1>7 DEF Good, Fit, Knows, RecOK, CopyOK
<1>9. "ui" \in Actors BY DEF Actors
<1> QED BY <1>1, <1>3, <1>8, <1>9, BeginStep

LEMMA PushStep ==
  ASSUME IInv, NEW n \in Names, NEW v \in Releases, Push(n, v)
  PROVE  IInv' /\ Respects
<1> DEFINE l == Label(card[Nro(n)])
           s == [Idle EXCEPT !.pc = "keep", !.op = "push", !.ver = v, !.dest = n,
                             !.old = n, !.label = l]
<1>1. l \in Labels BY DEF Label, Labels
<1>2. Upset("ui", s) /\ UNCHANGED <<card, book, list, jobs>> /\ snap' = Owed("ui", n, l)
  BY DEF Push
<1>3. snap' \in Snaps \cup {None} BY <1>1, <1>2, Owing
<1> HIDE DEF l
<1>4. Idle \in Actor BY IdleIsFit DEF Fit
<1>5. s \in Actor BY <1>1, <1>4 DEF Actor, Pcs
<1>6. /\ s.pc = "keep" /\ s.op = "push" /\ s.ver = v /\ s.dest = n /\ s.old = n /\ s.label = l
  BY <1>1, <1>4 DEF Actor, Pcs
<1> HIDE DEF s
<1>7. Good("ui", s) BY <1>1, <1>5, <1>6 DEF Good, Fit, Knows, RecOK, CopyOK
<1>8. "ui" \in Actors BY DEF Actors
<1> QED BY <1>2, <1>3, <1>7, <1>8, BeginStep

LEMMA AppRevertStep ==
  ASSUME IInv, NEW m \in Match, NEW l \in Labels, AppRevert(m, l)
  PROVE  IInv' /\ Respects
<1> DEFINE goal == IF snap # None /\ snap.label = l THEN snap ELSE None
           s == [Idle EXCEPT !.pc = "keep", !.op = "rollback", !.dest = m.path,
                  !.old = m.path, !.label = m.label, !.src = l, !.goal = goal]
<1>1. m \in Rows /\ m.path \in Names /\ m.label \in Labels
  BY MatchFacts DEF Rows, AppRevert
<1>2. /\ Goto("rev", s) /\ UNCHANGED <<card, book, list, jobs>>
      /\ snap' = Owed("rev", m.path, m.label)
  BY DEF AppRevert
<1>3. snap' \in Snaps \cup {None} BY <1>1, <1>2, Owing
<1>4. goal \in Snaps \cup {None} BY DEF IInv, TypeOK, ActorsOK
<1> HIDE DEF goal
<1>5. Idle \in Actor BY IdleIsFit DEF Fit
<1>6. s \in Actor
  <2>1. "keep" \in Pcs BY DEF Pcs
  <2> QED BY ZenonT(30), <1>1, <1>4, <1>5, <2>1 DEF Actor
<1>7. /\ s.pc = "keep" /\ s.op = "rollback" /\ s.src = l /\ s.dest = m.path
      /\ s.old = m.path /\ s.label = m.label
  BY <1>1, <1>4, <1>5 DEF Actor, Pcs
<1> HIDE DEF s
<1>8. Good("rev", s) BY <1>1, <1>6, <1>7 DEF Good, Fit, Knows, RecOK, CopyOK
<1>9. "rev" \in Actors BY DEF Actors
<1> QED BY <1>2, <1>3, <1>8, <1>9, BeginStep

LEMMA AppRevertTickStep == ASSUME IInv, AppRevertTick PROVE IInv' /\ Respects
<1> DEFINE r == act["rev"]
           seen == [path |-> r.dest, label |-> Label(card[Nro(r.dest)])]
<1>1. /\ r.pc = "reap" /\ Goto("rev", Idle) /\ UNCHANGED <<card, book, latest, scan, jobs, snap>>
      /\ row' \in {seen, row}
  BY DEF AppRevertTick
<1>2. "rev" \in Actors BY DEF Actors
<1>3. r.dest \in Names BY <1>1, <1>2, Known DEF Knows
<1>4. seen \in Rows BY <1>3 DEF Rows, Label, Labels
<1>5. Spared /\ snap' \in Snaps \cup {None} BY <1>1 DEF Spared, IInv, TypeOK, ActorsOK
<1>6. ActorsOK' /\ DataInv' /\ Respects BY <1>1, <1>2, <1>5, PlainStep, IdleIsFit DEF Good
<1>7. CardOK' BY <1>1 DEF IInv, TypeOK, CardOK, book
<1>8. ListOK' BY <1>1, <1>4 DEF IInv, TypeOK, ListOK
<1> QED BY <1>6, <1>7, <1>8 DEF IInv, TypeOK
LEMMA DeleteStep == ASSUME IInv, NEW l \in Labels, Delete(l) PROVE IInv' /\ Respects
<1> DEFINE ps == {Kept(l)} \cup {File(l, e) : e \in Extras}
<1>1. /\ UNCHANGED <<list, jobs>> /\ Upset("ui", act["ui"]) /\ snap' = NoMore({l})
      /\ card' = Removed(ps) /\ new' = [new EXCEPT ![l] = {}]
  BY DEF Delete
<1>2. "ui" \in Actors BY DEF Actors
<1>3. CardOK BY DEF IInv, TypeOK
<1>4. Good("ui", act["ui"]) BY <1>2, ActorFacts DEF Good, IInv, DataInv
<1>5. Changes(card', ps) BY <1>1, <1>3, Removing
<1>6. new' \in [Labels -> SUBSET Extras] BY <1>1, <1>3 DEF CardOK
<1>7. snap' \in {snap, None} BY <1>1 DEF NoMore
<1>8. Spared
  <2> SUFFICES ASSUME NEW p \in UserPaths PROVE card'[p] = card[p] BY DEF Spared
  <2>1. p \in Paths BY UserPathFacts
  <2>2. p \in ps => card[p] = None
    BY UserPathFacts DEF UserPaths, IInv, DataInv, NoCopies
  <2>3. card'[p] = IF p \in ps THEN None ELSE card[p] BY <1>1, <2>1 DEF Removed
  <2> QED BY <2>2, <2>3
<1> QED BY <1>1, <1>2, <1>4, <1>5, <1>6, <1>7, <1>8, Quiet DEF Changes

\* The user plays while nobody copies.
LEMMA PlayStep == ASSUME IInv, NEW u \in Extras, Play(u) PROVE IInv' /\ Respects
<1>1. /\ act' = act /\ snap' = snap /\ UNCHANGED <<book, list, jobs>> /\ u \in UserData
      /\ card' = [card EXCEPT ![Extra(u)] = Own] /\ \A a \in Actors : act[a].pc = "idle"
  BY DEF Play, At
<1>2. CardOK BY DEF IInv, TypeOK
<1>3. Changes(card', {Extra(u)}) BY <1>1, <1>2, PathFacts, Setting, ContentFacts
<1>4. NoCopies' BY <1>3, UserPathFacts DEF IInv, DataInv, NoCopies, Changes
<1>5. \A a \in Actors : CopyOK(act[a])' BY <1>1 DEF CopyOK
<1>6. DataInv' BY <1>1, <1>4, <1>5 DEF IInv, DataInv, RecOK
<1>7. Respects BY <1>1, <1>2, <1>3, UserPathFacts DEF Respects, Changes, CardOK
<1>8. CardOK' BY <1>1, <1>2, <1>3 DEF CardOK, Changes, book, list
<1>9. ListOK' /\ ActorsOK' BY <1>1 DEF IInv, TypeOK, ListOK, ActorsOK, At, list
<1> QED BY <1>6, <1>7, <1>8, <1>9 DEF IInv, TypeOK

LEMMA ForgetStep == ASSUME IInv, Exit \/ PowerCut PROVE IInv' /\ Respects
<1>1. /\ row' = None /\ scan' = None /\ jobs' = [j \in Jobs |-> None]
      /\ act' = [a \in Actors |-> Idle] /\ UNCHANGED <<card, book, latest>>
      /\ snap' \in {snap, None}
  BY DEF Exit, PowerCut, Forget
<1>2. "rev" \in Actors BY DEF Actors
<1>3. ActorsOK' BY <1>1, IdleIsFit DEF IInv, TypeOK, ActorsOK, Fit, At
<1>4. DataInv' BY <1>1, <1>2, IdleIsFit DEF IInv, DataInv, NoCopies, CopyOK
<1>5. CardOK' /\ ListOK' BY <1>1 DEF IInv, TypeOK, CardOK, ListOK, book
<1>6. Respects BY <1>1 DEF Respects
<1> QED BY <1>3, <1>4, <1>5, <1>6 DEF IInv, TypeOK

-----------------------------------------------------------------------------
(* The theorems. *)

LEMMA InitIInv == ASSUME Init PROVE IInv
<1>1. \A e \in Extras, l \in Labels : File(l, e) \notin {Nro(NameOf[1])} \cup {Extra(x) : x \in Ships[1]}
  BY DEF File, Nro, Extra
<1>2. CardOK
  <2>1. 1 \in Releases /\ 1 \in Contents /\ None \in Contents
    BY UpdatesAssumption, ContentFacts
  <2> QED BY <2>1 DEF Init, CardOK
<1>3. ListOK BY DEF Init, ListOK
<1>4. ActorsOK BY IdleIsFit DEF Init, ActorsOK, Fit, At
<1>5. NoCopies BY <1>1, PathFacts, UserPathFacts DEF Init, NoCopies
<1>6. DataInv
  <2>1. "rev" \in Actors BY DEF Actors
  <2> QED BY <1>5, <2>1, IdleIsFit DEF Init, DataInv
<1> QED BY <1>2, <1>3, <1>4, <1>6 DEF IInv, TypeOK

LEMMA StutterStep == ASSUME IInv, UNCHANGED vars PROVE IInv' /\ Respects
<1>1. /\ act' = act /\ snap' = snap /\ card' = card /\ new' = new /\ latest' = latest
      /\ UNCHANGED <<row, scan, jobs>>
  BY DEF vars
<1>2. ListOK' BY <1>1 DEF IInv, TypeOK, ListOK
<1>3. latest' \in Releases BY <1>1 DEF IInv, TypeOK, CardOK
<1> QED BY <1>1, <1>2, <1>3, ListStep

LEMMA NextStep == ASSUME IInv, [Next]_vars PROVE IInv' /\ Respects
<1>1. CASE \E a \in Actors : Work(a) BY <1>1, WorkStep
<1>2. CASE ScanStart \/ ScanRead \/ ScanPublish \/ AppRevertTick
  BY <1>2, ScanSteps, AppRevertTickStep
<1>3. CASE \E j \in Jobs : UmiStart(j) \/ UmiFails(j) \/ UmiTick(j)
  BY <1>3, PoolSteps, UmiTickStep
<1>4. CASE \E n \in Names, v \in Releases : Push(n, v) BY <1>4, PushStep
<1>5. CASE \E m \in Match, l \in Labels : AppRevert(m, l) BY <1>5, AppRevertStep
<1>6. CASE \E l \in Labels : Delete(l) BY <1>6, DeleteStep
<1>7. CASE \E u \in Extras : Play(u) BY <1>7, PlayStep
<1>8. CASE Published \/ Exit \/ PowerCut BY <1>8, PublishedStep, ForgetStep
<1>9. CASE UNCHANGED vars BY <1>9, StutterStep
<1> QED BY <1>1, <1>2, <1>3, <1>4, <1>5, <1>6, <1>7, <1>8, <1>9 DEF Next

LEMMA Inductive == Spec => []IInv
<1>1. IInv /\ [Next]_vars => IInv' BY NextStep
<1> QED BY <1>1, InitIInv, PTL DEF Spec

\* Every variable keeps its type, and an actor at work knows what it replaces and what with.
THEOREM TypeCorrect == Spec => []TypeOK
<1>1. IInv => TypeOK BY DEF IInv
<1> QED BY <1>1, Inductive, PTL

\* Neither an update nor a rollback touches what the user has made of a file in a folder
\* of the user's (copy_tree_backed, backup_restore_files), whatever fails, whenever the
\* power goes, and however the two are interleaved.
THEOREM NoUserDataLost == Spec => UserDataKept
<1>1. IInv /\ [Next]_vars =>
        [\A u \in UserData : card[Extra(u)] = Own =>
           card'[Extra(u)] = Own \/ act["ui"].op = "install"]_vars
  BY NextStep DEF Respects
<1> QED BY <1>1, Inductive, PTL DEF Spec, UserDataKept

-----------------------------------------------------------------------------
(* The build in place. *)

\* r and s differ in the rollback's goal at most.
Same(r, s) == /\ r.pc = s.pc /\ r.op = s.op /\ r.ver = s.ver /\ r.dest = s.dest /\ r.old = s.old
              /\ r.label = s.label /\ r.src = s.src /\ r.root = s.root /\ r.todo = s.todo
              /\ r.cur = s.cur /\ r.moved = s.moved /\ r.added = s.added
              /\ r.restore = s.restore /\ r.ok = s.ok

\* At work; the rollback thread is the one that rolls back.
Busy(r)    == r.pc \notin {"idle", "reap"}
Role(a, r) == Busy(r) => (r.op = "rollback" <=> a = "rev")

\* Nobody but a is at work.
Alone(a) == \A b \in Actors \ {a} : ~Busy(act[b])

\* What is true of the files f of the builds, after k faults, while r is at work alone.
\* Nothing of the swap has begun.
Fresh(r) == \/ r.pc \in {"keep", "keeping", "prune", "park"}
            \/ r.pc \in {"extras", "copy"} /\ r.op # "rollback"
Swapping == {"place", "write", "writing"}
IsWhole(f, p) == f[p] \in Releases

\* Every build is whole but the one that is being written.
Clear(f, r) ==
  /\ \A n \in Names : f[Nro(n)] \in Releases \cup {None} \/ (r.pc = "writing" /\ r.dest = n)
  /\ \A l \in Labels : f[Kept(l)] \in Releases \cup {None} \/ (r.pc = "keeping" /\ r.label = l)
\* One has its name, or what is parked will get it back; after a fault, the swap will.
Standing(f, k, r) ==
  \/ \E n \in Names : IsWhole(f, Nro(n))
  \/ r.pc \in Swapping /\ (r.restore \/ (r.pc # "write" /\ k > 0))
\* What is parked is whole, and once the swap is over so is what is in place.
Swap(f, k, r) ==
  /\ Fresh(r) => ~r.restore
  /\ r.pc \in Swapping /\ r.restore => IsWhole(f, Bak(r.dest))
  /\ r.pc = "write" /\ ~r.restore => f[Nro(r.dest)] = None \/ k > 0
  /\ r.pc = "writing" => f[Nro(r.dest)] = Torn
  /\ r.pc \in {"clean", "old"} => IsWhole(f, Nro(r.dest))
\* The build a rollback gives back is whole as long as it has to be read.
Giving(f, r) ==
  r.op = "rollback" /\ r.pc \in {"keep", "keeping", "prune", "park", "write", "writing"} =>
    IsWhole(f, Kept(r.src)) /\ (r.pc = "keeping" => r.label # r.src)
Sound(f, k, r) == Clear(f, r) /\ Standing(f, k, r) /\ Swap(f, k, r) /\ Giving(f, r)

Built(a) == /\ Alone(a) /\ Sound(card, spent.faults, act[a])
            /\ \A b \in Actors : Role(b, act[b])
SpentOK  == spent \in [ops : Nat, faults : Nat, rough : BOOLEAN, rash : BOOLEAN]
BuildInv == SpentOK /\ (spent.rough \/ spent.rash \/ \E a \in Actors : Built(a))

LEMMA Apart ==
  /\ \A n, m : /\ (Nro(n) = Nro(m) => n = m) /\ (Bak(n) = Bak(m) => n = m)
               /\ (Kept(n) = Kept(m) => n = m) /\ (Extra(n) = Extra(m) => n = m)
               /\ Nro(n) # Bak(m) /\ Nro(n) # Kept(m) /\ Nro(n) # Extra(m)
               /\ Bak(n) # Kept(m) /\ Bak(n) # Extra(m) /\ Kept(n) # Extra(m)
  /\ \A l, e, n : /\ File(l, e) # Nro(n) /\ File(l, e) # Bak(n)
                  /\ File(l, e) # Kept(n) /\ File(l, e) # Extra(n)
  /\ \A l, e, k, x : File(l, e) = File(k, x) => l = k /\ e = x
BY DEF Nro, Bak, Kept, Extra, File

\* Files in nobody else's hands can be moved and removed.
LEMMA AloneFacts ==
  ASSUME NEW a \in Actors, Alone(a)
  PROVE  /\ \A p : ~Open(a, p) /\ ~Written(a, p)
         /\ \A ps : Gone(a, ps) = Removed(ps)
         /\ \A p, q : CanMove(a, p, q) = Exists(p)
         /\ \A p, q : Moved(a, p, q) = [card EXCEPT ![q] = card[p], ![p] = None]
<1>1. \A b \in Actors \ {a} : Reads(b) = {} /\ Writes(b) = {}
  BY DEF Alone, Busy, Reads, Writes, At
<1>2. \A p : ~Open(a, p) /\ ~Written(a, p) BY <1>1 DEF Open, Written
<1>3. \A ps : Gone(a, ps) = Removed(ps) BY <1>2 DEF Gone, Removed
<1> QED BY <1>2, <1>3 DEF CanMove, Moved, Exists

LEMMA SameUnowed == ASSUME NEW r \in Actor PROVE Same([r EXCEPT !.goal = None], r)
BY DEF Actor, Same

LEMMA ActorMoves ==
  ASSUME TypeOK, NEW a \in Actors, NEW s \in Actor, Goto(a, s) \/ Upset(a, s)
  PROVE  Same(act'[a], s) /\ \A b \in Actors \ {a} : Same(act'[b], act[b])
<1> DEFINE f == [act EXCEPT ![a] = s]
<1>1. f \in [Actors -> Actor] /\ f[a] = s /\ \A b \in Actors \ {a} : f[b] = act[b]
  BY DEF TypeOK, ActorsOK
<1>2. \A r \in Actor : Same(r, r) BY DEF Same
<1>3. CASE act' = f BY <1>1, <1>2, <1>3
<1>4. CASE act' = [f EXCEPT !["rev"].goal = None]
  <2> HIDE DEF f
  <2> DEFINE q == [f["rev"] EXCEPT !.goal = None]
  <2>1. "rev" \in Actors BY DEF Actors
  <2>2. act' = [f EXCEPT !["rev"] = q] BY <1>4
  <2>3. Same(q, f["rev"]) BY <1>1, <2>1, SameUnowed
  <2> HIDE DEF q
  <2> QED BY <1>1, <1>2, <2>1, <2>2, <2>3
<1> QED BY <1>3, <1>4 DEF Goto, Upset

LEMMA BuiltStep ==
  ASSUME TypeOK, NEW a \in Actors, Alone(a), \A b \in Actors : Role(b, act[b]),
         NEW s \in Actor, Goto(a, s) \/ Upset(a, s), Role(a, s),
         Sound(card', spent'.faults, s)
  PROVE  Built(a)'
<1>1. Same(act'[a], s) /\ \A b \in Actors \ {a} : Same(act'[b], act[b]) BY ActorMoves
<1>2. Alone(a)' BY <1>1 DEF Alone, Busy, Same
<1>3. \A b \in Actors : Role(b, act'[b]) BY <1>1 DEF Role, Busy, Same
<1>4. Clear(card', act'[a]) BY <1>1 DEF Sound, Clear, Same
<1>5. Standing(card', spent'.faults, act'[a]) BY <1>1 DEF Sound, Standing, Same
<1>6. Swap(card', spent'.faults, act'[a]) BY <1>1 DEF Sound, Swap, Fresh, Same
<1>7. Giving(card', act'[a]) BY <1>1 DEF Sound, Giving, Same
<1> QED BY <1>2, <1>3, <1>4, <1>5, <1>6, <1>7 DEF Built, Sound

\* At work is another part.
LEMMA AtPart ==
  ASSUME NEW r \in Actor, NEW x \in Pcs
  PROVE  LET s == [r EXCEPT !.pc = x] IN
         /\ s \in Actor /\ s.pc = x /\ s.op = r.op /\ s.ver = r.ver /\ s.dest = r.dest
         /\ s.old = r.old /\ s.label = r.label /\ s.src = r.src /\ s.root = r.root
         /\ s.todo = r.todo /\ s.cur = r.cur /\ s.moved = r.moved /\ s.added = r.added
         /\ s.restore = r.restore /\ s.ok = r.ok /\ s.goal = r.goal
BY DEF Actor

-----------------------------------------------------------------------------
(* The extra files: no build changes. *)

SameBuilds(f, g) ==
  /\ \A n \in Names : f[Nro(n)] = g[Nro(n)] /\ f[Bak(n)] = g[Bak(n)]
  /\ \A l \in Labels : f[Kept(l)] = g[Kept(l)]

LEMMA ExtrasOnly ==
  ASSUME NEW ps, Changes(card', ps),
         \A p \in ps : (\E e : p = Extra(e)) \/ (\E l, e : p = File(l, e))
  PROVE  SameBuilds(card', card)
<1>1. \A n : Nro(n) \notin ps /\ Bak(n) \notin ps /\ Kept(n) \notin ps BY Apart
<1> QED BY <1>1, PathFacts DEF Changes, SameBuilds

LEMMA ExtrasSound ==
  ASSUME NEW a \in Actors, Built(a), act[a].pc \in {"extras", "copy", "rnew"}, NEW s,
         s.op = act[a].op, s.restore = act[a].restore, Fresh(s) => Fresh(act[a]),
         s.pc \in {"extras", "copy", "rnew", "keep", "reap"}, s.pc = "keep" => s.op # "rollback",
         SameBuilds(card', card)
  PROVE  Sound(card', spent'.faults, s)
<1> DEFINE r == act[a]
<1>1. Clear(card, r) /\ Standing(card, spent.faults, r) /\ Swap(card, spent.faults, r)
  BY DEF Built, Sound
<1>2. Clear(card', s) BY <1>1 DEF Clear, SameBuilds
<1>3. Standing(card', spent'.faults, s) BY <1>1 DEF Standing, Swapping, IsWhole, SameBuilds
<1>4. Swap(card', spent'.faults, s) BY <1>1 DEF Swap, Swapping
<1>5. Giving(card', s) BY DEF Giving
<1> QED BY <1>2, <1>3, <1>4, <1>5 DEF Sound

\* What is used of the others while one of them is at work.
LEMMA BuiltFacts ==
  ASSUME IInv, NEW a \in Actors, Built(a)
  PROVE  /\ TypeOK /\ CardOK /\ Alone(a) /\ act[a] \in Actor /\ Sound(card, spent.faults, act[a])
         /\ \A b \in Actors : Role(b, act[b])
         /\ act[a].pc # "idle" => Knows(act[a])
BY ActorFacts DEF IInv, TypeOK, Built, Fit

\* What RecOK and TypeOK say of one that goes through the files.
LEMMA CopyBeginBuilt ==
  ASSUME IInv, NEW a \in Actors, Built(a), NEW e \in Extras, CopyBegin(a, e)
  PROVE  Built(a)'
<1> DEFINE r == act[a]
           moves == KeepFirst(a, e)
           p == Extra(e)
           q == File(r.root, e)
           left == IF moves THEN Moved(a, p, q) ELSE card
           adds == IF r.root # None /\ ~Exists(p) THEN {e} ELSE {}
           rest == [r EXCEPT !.todo = @ \ {e}, !.added = @ \cup adds]
           skip == [r EXCEPT !.todo = @ \ {e}]
           s == [rest EXCEPT !.pc = "copy", !.cur = e, !.moved = moves]
<1>1. /\ r.pc = "extras" /\ spent' = spent
      /\ \/ card' = card /\ Goto(a, skip)
         \/ card' = [left EXCEPT ![p] = Torn] /\ Goto(a, s)
  BY DEF CopyBegin, At, Fine
<1>2. /\ TypeOK /\ CardOK /\ Alone(a) /\ r \in Actor /\ \A b \in Actors : Role(b, act[b])
  BY BuiltFacts
<1>3. p \in Paths /\ (moves => q \in Paths)
  BY <1>2, PathFacts DEF KeepFirst, Actor
<1>4. CASE card' = card /\ Goto(a, skip)
  <2>1. skip \in Actor BY <1>2 DEF Actor
  <2>2. skip.pc = "extras" /\ skip.op = r.op /\ skip.restore = r.restore BY <1>1, <1>2 DEF Actor
  <2> HIDE DEF skip
  <2>3. Sound(card', spent'.faults, skip)
    BY <1>1, <1>4, <2>2, ExtrasSound DEF SameBuilds, Fresh
  <2> QED BY <1>1, <1>2, <1>4, <2>1, <2>2, <2>3, BuiltStep DEF Role, Busy
<1>5. CASE card' = [left EXCEPT ![p] = Torn] /\ Goto(a, s)
  <2>1. adds \subseteq Extras /\ moves \in BOOLEAN BY DEF KeepFirst
  <2>2. Changes(left, {p, q})
    BY <1>2, <1>3, MovingOne DEF CardOK, Changes
  <2>3. Changes(card', {p, q}) BY <1>3, <1>5, <2>2, ContentFacts DEF Changes
  <2>4. SameBuilds(card', card) BY <2>3, ExtrasOnly
  <2> HIDE DEF moves, adds
  <2>9. rest \in Actor BY <1>2, <2>1 DEF Actor
  <2>10. rest.op = r.op /\ rest.restore = r.restore BY <1>2 DEF Actor
  <2>5. rest \in Actor /\ rest.op = r.op /\ rest.restore = r.restore BY <2>9, <2>10
  <2> HIDE DEF rest
  <2>6. s \in Actor BY ZenonT(30), <2>1, <2>5 DEF Actor, Pcs
  <2>7. s.pc = "copy" /\ s.op = r.op /\ s.restore = r.restore BY <2>5 DEF Actor
  <2> HIDE DEF s
  <2>8. Sound(card', spent'.faults, s)
    BY <1>1, <2>4, <2>7, ExtrasSound DEF Fresh
  <2> QED BY <1>1, <1>2, <1>5, <2>6, <2>7, <2>8, BuiltStep DEF Role, Busy
<1> QED BY <1>1, <1>4, <1>5

LEMMA CopyEndBuilt ==
  ASSUME IInv, NEW a \in Actors, Built(a), CopyEnd(a) \/ CopyFails(a)
  PROVE  Built(a)'
<1> DEFINE r == act[a]
           p == Extra(r.cur)
           q == File(r.root, r.cur)
           s == [r EXCEPT !.pc = "extras", !.cur = None, !.moved = FALSE]
<1>1. r.pc = "copy" /\ (Goto(a, s) \/ Upset(a, s)) BY DEF CopyEnd, CopyFails, At
<1>2. /\ TypeOK /\ CardOK /\ Alone(a) /\ r \in Actor /\ \A b \in Actors : Role(b, act[b])
      /\ Knows(r)
  BY <1>1, BuiltFacts
<1>3. SameBuilds(card', card)
  <2>1. CASE card' = [card EXCEPT ![p] = Source(r, r.cur)]
    BY <1>2, <2>1, Apart, PathFacts DEF SameBuilds, CardOK
  <2>2. CASE card' = Removed({p})
    BY <1>2, <2>2, Apart, PathFacts DEF SameBuilds, CardOK, Removed
  <2>3. CASE card' = [Removed({p}) EXCEPT ![p] = card[q], ![q] = None]
    BY <1>2, <2>3, Apart, PathFacts DEF SameBuilds, CardOK, Removed
  <2> QED BY <2>1, <2>2, <2>3 DEF CopyEnd, CopyFails
<1>4. s \in Actor BY ZenonT(30), <1>2 DEF Actor, Pcs
<1>5. s.pc = "extras" /\ s.op = r.op /\ s.restore = r.restore BY <1>2 DEF Actor
<1> HIDE DEF s
<1>6. Sound(card', spent'.faults, s) BY <1>1, <1>3, <1>5, ExtrasSound DEF Fresh
<1> QED BY <1>1, <1>2, <1>4, <1>5, <1>6, BuiltStep DEF Role, Busy

LEMMA CopyDoneBuilt ==
  ASSUME IInv, NEW a \in Actors, Built(a), CopyDone(a)
  PROVE  Built(a)'
<1> DEFINE r == act[a]
           rb == r.op = "rollback"
           pc == IF rb THEN "rnew" ELSE "keep"
           todo == IF rb THEN new[r.src] ELSE {}
           s == [r EXCEPT !.added = {}, !.pc = pc, !.todo = todo]
<1>1. r.pc = "extras" /\ Goto(a, s) /\ card' = card BY DEF CopyDone, At
<1>2. /\ TypeOK /\ CardOK /\ Alone(a) /\ r \in Actor /\ \A b \in Actors : Role(b, act[b])
      /\ Knows(r)
  BY <1>1, BuiltFacts
<1>3. todo \in SUBSET Extras /\ pc \in Pcs BY <1>2 DEF CardOK, Knows, Pcs
<1>4. pc \in {"rnew", "keep"} /\ (pc = "keep" => r.op # "rollback") OBVIOUS
<1> HIDE DEF todo, pc
<1>5. s \in Actor BY <1>2, <1>3 DEF Actor
<1>6. s.pc = pc /\ s.op = r.op /\ s.restore = r.restore BY <1>2 DEF Actor
<1> HIDE DEF s
<1>7. Sound(card', spent'.faults, s)
  BY <1>1, <1>4, <1>6, ExtrasSound DEF Fresh, SameBuilds
<1> QED BY <1>1, <1>2, <1>4, <1>5, <1>6, <1>7, BuiltStep DEF Role, Busy

LEMMA RemoveNewBuilt ==
  ASSUME IInv, NEW a \in Actors, Built(a), NEW e \in Extras, RemoveNew(a, e)
  PROVE  Built(a)'
<1> DEFINE r == act[a]
           p == Extra(e)
           q == File(r.root, e)
           s == [r EXCEPT !.todo = @ \ {e}]
<1>1. /\ r.pc = "rnew" /\ Goto(a, s)
      /\ card' \in {card, Gone(a, {p})} \/ (card' = Moved(a, p, q) /\ r.root # None)
  BY DEF RemoveNew, At, KeepFirst
<1>2. /\ TypeOK /\ CardOK /\ Alone(a) /\ r \in Actor /\ \A b \in Actors : Role(b, act[b])
  BY BuiltFacts
<1>3. SameBuilds(card', card)
  <2>1. CASE card' = card BY <2>1 DEF SameBuilds
  <2>2. CASE card' = Moved(a, p, q) /\ r.root # None
    <3>1. p \in Paths /\ q \in Paths BY <1>2, <2>2, PathFacts DEF Actor
    <3>2. Changes(card', {p, q}) BY <1>2, <2>2, <3>1, MovingOne
    <3> QED BY <3>2, ExtrasOnly
  <2>3. CASE card' = Gone(a, {p}) BY <1>2, <2>3, Going, ExtrasOnly
  <2> QED BY <1>1, <2>1, <2>2, <2>3
<1>4. s \in Actor BY <1>2 DEF Actor
<1>5. s.pc = "rnew" /\ s.op = r.op /\ s.restore = r.restore BY <1>1, <1>2 DEF Actor
<1> HIDE DEF s
<1>6. Sound(card', spent'.faults, s) BY <1>1, <1>3, <1>5, ExtrasSound DEF Fresh
<1> QED BY <1>1, <1>2, <1>4, <1>5, <1>6, BuiltStep DEF Role, Busy

LEMMA RolledBackBuilt ==
  ASSUME IInv, NEW a \in Actors, Built(a), RolledBack(a)
  PROVE  Built(a)'
<1> DEFINE r == act[a]
           s == [r EXCEPT !.pc = "reap"]
<1>1. r.pc = "rnew" /\ Goto(a, s) /\ card' = card BY DEF RolledBack, At, Step
<1>2. /\ TypeOK /\ CardOK /\ Alone(a) /\ r \in Actor /\ \A b \in Actors : Role(b, act[b])
  BY BuiltFacts
<1>3. s \in Actor /\ s.pc = "reap" /\ s.op = r.op /\ s.restore = r.restore
  BY <1>2, AtPart DEF Pcs
<1> HIDE DEF s
<1>4. Sound(card', spent'.faults, s) BY <1>1, <1>3, ExtrasSound DEF Fresh, SameBuilds
<1> QED BY <1>1, <1>2, <1>3, <1>4, BuiltStep DEF Role, Busy

-----------------------------------------------------------------------------
(* Keeping the build that is replaced, and the swap. *)

LEMMA OneFault ==
  ASSUME SpentOK, MaxFaults \in {0, 1}, Faulty
  PROVE  spent.faults = 0 /\ spent'.faults = 1
BY DEF SpentOK, Faulty

\* One at work goes on to another part.
LEMMA GoBuilt ==
  ASSUME IInv, NEW a \in Actors, Built(a), Busy(act[a]), NEW x \in Pcs,
         NEW s, s = [act[a] EXCEPT !.pc = x], Goto(a, s) \/ Upset(a, s),
         Sound(card', spent'.faults, s)
  PROVE  Built(a)'
<1>1. /\ TypeOK /\ CardOK /\ Alone(a) /\ act[a] \in Actor /\ \A b \in Actors : Role(b, act[b])
  BY BuiltFacts
<1>2. s \in Actor /\ s.op = act[a].op BY <1>1, AtPart
<1> QED BY <1>1, <1>2, BuiltStep DEF Role

LEMMA KeepBuilt == ASSUME IInv, NEW a \in Actors, Built(a), Keep(a) PROVE Built(a)'
<1> DEFINE r == act[a]
           k == spent.faults
           q == Kept(r.label)
<1>1. r.pc = "keep" /\ spent' = spent BY DEF Keep, At, Fine
<1>2. /\ TypeOK /\ CardOK /\ r \in Actor /\ Knows(r) /\ Busy(r)
      /\ Clear(card, r) /\ Standing(card, k, r) /\ Swap(card, k, r) /\ Giving(card, r)
  BY <1>1, BuiltFacts DEF Busy, Sound
<1>3. ASSUME NEW x \in {"park", "prune"}, Step(a, x), card' = card PROVE Built(a)'
  <2> DEFINE s == [r EXCEPT !.pc = x]
  <2>1. /\ s.pc = x /\ s.op = r.op /\ s.dest = r.dest /\ s.label = r.label /\ s.src = r.src
        /\ s.restore = r.restore
    BY <1>2, AtPart DEF Pcs
  <2> HIDE DEF s
  <2>2. Clear(card', s) BY <1>1, <1>2, <1>3, <2>1 DEF Clear
  <2>3. Standing(card', k, s) BY <1>1, <1>2, <1>3, <2>1 DEF Standing, Swapping
  <2>4. Swap(card', k, s) BY <1>1, <1>2, <1>3, <2>1 DEF Swap, Fresh, Swapping
  <2>5. Giving(card', s) BY <1>1, <1>2, <1>3, <2>1 DEF Giving
  <2>6. Sound(card', spent'.faults, s) BY <1>1, <2>2, <2>3, <2>4, <2>5 DEF Sound
  <2> QED BY <1>2, <1>3, <2>6, GoBuilt DEF s, Step, Pcs
<1>4. ASSUME Step(a, "keeping"), card[q] = None, card' = [card EXCEPT ![q] = Torn]
      PROVE  Built(a)'
  <2> DEFINE s == [r EXCEPT !.pc = "keeping"]
  <2>1. /\ s.pc = "keeping" /\ s.op = r.op /\ s.dest = r.dest /\ s.label = r.label
        /\ s.src = r.src /\ s.restore = r.restore
    BY <1>2, AtPart DEF Pcs
  <2> HIDE DEF s
  <2>2. /\ \A n \in Names : card'[Nro(n)] = card[Nro(n)] /\ card'[Bak(n)] = card[Bak(n)]
        /\ \A l \in Labels : l # r.label => card'[Kept(l)] = card[Kept(l)]
    BY <1>2, <1>4, Apart, PathFacts DEF CardOK
  <2>3. Clear(card', s) BY <1>1, <1>2, <2>1, <2>2 DEF Clear
  <2>4. Standing(card', k, s) BY <1>1, <1>2, <2>1, <2>2 DEF Standing, Swapping, IsWhole
  <2>5. Swap(card', k, s) BY <1>1, <1>2, <2>1 DEF Swap, Fresh, Swapping
  <2>6. Giving(card', s)
    <3>1. r.op = "rollback" => r.label # r.src /\ r.src \in Labels
      BY <1>1, <1>2, <1>4, ContentFacts DEF Giving, IsWhole, Knows
    <3> QED BY <1>1, <1>2, <2>1, <2>2, <3>1 DEF Giving, IsWhole
  <2>7. Sound(card', spent'.faults, s) BY <1>1, <2>3, <2>4, <2>5, <2>6 DEF Sound
  <2> QED BY <1>2, <1>4, <2>7, GoBuilt DEF s, Step, Pcs
<1> QED BY <1>3, <1>4 DEF Keep, Exists

\* The copy that is kept ends, whole, or is removed.
LEMMA KeepEndBuilt ==
  ASSUME IInv, NEW a \in Actors, Built(a), KeepEnd(a) \/ KeepFails(a)
  PROVE  Built(a)'
<1> DEFINE r == act[a]
           q == Kept(r.label)
           c == card[Nro(r.old)]
           s == [r EXCEPT !.pc = "prune"]
<1>1. /\ r.pc = "keeping" /\ (Goto(a, s) \/ Upset(a, s))
      /\ card' = [card EXCEPT ![q] = c] \/ card' = Removed({q})
  BY DEF KeepEnd, KeepFails, At, Step
<1>2. /\ TypeOK /\ CardOK /\ r \in Actor /\ Knows(r) /\ Busy(r)
      /\ Clear(card, r) /\ Standing(card, spent.faults, r) /\ Swap(card, spent.faults, r)
      /\ Giving(card, r)
  BY <1>1, BuiltFacts DEF Busy, Sound
<1>3. /\ s.pc = "prune" /\ s.op = r.op /\ s.dest = r.dest /\ s.label = r.label
      /\ s.src = r.src /\ s.restore = r.restore
  BY <1>2, AtPart DEF Pcs
<1>4. c \in Releases \cup {None} BY <1>1, <1>2 DEF Clear, Knows
<1>5. /\ \A n \in Names : card'[Nro(n)] = card[Nro(n)] /\ card'[Bak(n)] = card[Bak(n)]
      /\ \A l \in Labels : l # r.label => card'[Kept(l)] = card[Kept(l)]
      /\ card'[q] \in Releases \cup {None}
  <2>1. q \in Paths BY <1>2, PathFacts DEF Knows
  <2> HIDE DEF c
  <2>2. /\ \A p \in Paths \ {q} : card'[p] = card[p]
        /\ card'[q] \in {c, None}
    BY SMTT(30), <1>1, <1>2, <2>1 DEF CardOK, Removed
  <2>3. \A n \in Names : /\ Nro(n) \in Paths \ {q} /\ Bak(n) \in Paths \ {q}
    BY SMTT(30), Apart, PathFacts
  <2>4. \A l \in Labels : l # r.label => Kept(l) \in Paths \ {q}
    BY SMTT(30), Apart, PathFacts
  <2> QED BY SMTT(30), <1>4, <2>2, <2>3, <2>4
<1> HIDE DEF s
<1>6. Clear(card', s) BY <1>1, <1>2, <1>3, <1>5 DEF Clear
<1>7. Standing(card', spent'.faults, s)
  BY <1>1, <1>2, <1>3, <1>5 DEF Standing, Swapping, IsWhole
<1>8. Swap(card', spent'.faults, s) BY <1>1, <1>2, <1>3 DEF Swap, Fresh, Swapping
<1>9. Giving(card', s) BY <1>1, <1>2, <1>3, <1>5 DEF Giving, IsWhole, Knows
<1>10. Sound(card', spent'.faults, s) BY <1>6, <1>7, <1>8, <1>9 DEF Sound
<1> QED BY <1>1, <1>2, <1>10, GoBuilt DEF s, Pcs

LEMMA PruneBuilt == ASSUME IInv, NEW a \in Actors, Built(a), Prune(a) PROVE Built(a)'
<1> DEFINE r == act[a]
           ks == {Kept(l) : l \in Victims(a)}
           left == Gone(a, ks)
           bare == Victims(a) \cup {l \in Labels : left[Kept(l)] = None}
           away == {File(l, e) : l \in bare, e \in Extras}
           s == [r EXCEPT !.pc = "park"]
<1>1. /\ r.pc = "prune" /\ Goto(a, s) /\ spent' = spent
      /\ card' = [p \in Paths |-> IF p \in away THEN None ELSE left[p]]
  BY DEF Prune, At, Step, Fine
<1>2. /\ TypeOK /\ CardOK /\ r \in Actor /\ Knows(r) /\ Busy(r)
      /\ Clear(card, r) /\ Standing(card, spent.faults, r) /\ Swap(card, spent.faults, r)
      /\ Giving(card, r)
  BY <1>1, BuiltFacts DEF Busy, Sound
<1>3. /\ s.pc = "park" /\ s.op = r.op /\ s.dest = r.dest /\ s.label = r.label
      /\ s.src = r.src /\ s.restore = r.restore
  BY <1>2, AtPart DEF Pcs
<1>4. Changes(left, ks) BY <1>2, Going
<1>5. \A p \in ks : left[p] \in {card[p], None} \/ p \notin Paths BY DEF Gone, Removed
<1>6. \A p \in Paths \ ks : p \notin away => card'[p] = card[p]
  BY <1>1, <1>4 DEF Changes
<1>7. /\ \A n \in Names : card'[Nro(n)] = card[Nro(n)] /\ card'[Bak(n)] = card[Bak(n)]
      /\ \A l \in Labels : card'[Kept(l)] \in {card[Kept(l)], None}
      /\ \A l \in Labels : l = r.src => card'[Kept(l)] = card[Kept(l)]
  <2>1. \A n : Nro(n) \notin ks \cup away /\ Bak(n) \notin ks \cup away /\ Kept(n) \notin away
    <3> HIDE DEF bare
    <3>1. \A n : Nro(n) \notin ks /\ Bak(n) \notin ks BY Apart
    <3>2. \A n : Nro(n) \notin away /\ Bak(n) \notin away /\ Kept(n) \notin away BY Apart
    <3> QED BY <3>1, <3>2
  <2>2. Kept(r.src) \notin ks BY Apart DEF Victims
  <2> HIDE DEF ks, away, left
  <2>3. \A n \in Names : card'[Nro(n)] = card[Nro(n)] /\ card'[Bak(n)] = card[Bak(n)]
    BY <1>6, <2>1, PathFacts
  <2>4. ASSUME NEW l \in Labels PROVE card'[Kept(l)] \in {card[Kept(l)], None}
    <3> DEFINE p == Kept(l)
    <3>1. p \in Paths /\ p \notin away BY <2>1, PathFacts
    <3> HIDE DEF p
    <3>2. card'[p] = left[p] BY <1>1, <3>1
    <3>3. card'[p] \in {card[p], None} BY <1>5, <1>6, <3>1, <3>2
    <3> QED BY <3>3 DEF p
  <2>5. \A l \in Labels : l = r.src => card'[Kept(l)] = card[Kept(l)]
    BY <1>6, <2>1, <2>2, PathFacts
  <2> QED BY <2>3, <2>4, <2>5
<1> HIDE DEF s
<1>8. Clear(card', s) BY <1>1, <1>2, <1>3, <1>7 DEF Clear
<1>9. Standing(card', spent'.faults, s)
  BY <1>1, <1>2, <1>3, <1>7 DEF Standing, Swapping, IsWhole
<1>10. Swap(card', spent'.faults, s) BY <1>1, <1>2, <1>3 DEF Swap, Fresh, Swapping
<1>11. Giving(card', s) BY <1>1, <1>2, <1>3, <1>7 DEF Giving, IsWhole, Knows
<1>12. Sound(card', spent'.faults, s) BY <1>8, <1>9, <1>10, <1>11 DEF Sound
<1> QED BY <1>1, <1>2, <1>12, GoBuilt DEF s, Pcs

LEMMA ParkBuilt ==
  ASSUME IInv, SpentOK, MaxFaults \in {0, 1}, NEW a \in Actors, Built(a), Park(a)
  PROVE  Built(a)'
<1> DEFINE r == act[a]
           n == Nro(r.dest)
           b == Bak(r.dest)
           next == IF r.op = "rollback" THEN "write" ELSE "place"
           t == [r EXCEPT !.pc = next]
           s == [r EXCEPT !.pc = next, !.restore = TRUE]
<1>1. r.pc = "park" BY DEF Park, At
<1>2. /\ TypeOK /\ CardOK /\ r \in Actor /\ Knows(r) /\ Busy(r) /\ Alone(a)
      /\ Clear(card, r) /\ Standing(card, spent.faults, r) /\ Swap(card, spent.faults, r)
      /\ Giving(card, r) /\ \A c \in Actors : Role(c, act[c])
  BY <1>1, BuiltFacts DEF Busy, Sound
<1>3. /\ n \in Paths /\ b \in Paths /\ r.dest \in Names /\ ~r.restore
      /\ card[n] \in Releases \cup {None} /\ next \in {"write", "place"} /\ next \in Pcs
      /\ (next = "write" <=> r.op = "rollback")
  BY <1>1, <1>2, PathFacts DEF Knows, Swap, Fresh, Clear, Pcs
<1> HIDE DEF next
<1>4. /\ t.pc = next /\ t.op = r.op /\ t.dest = r.dest /\ t.label = r.label
      /\ t.src = r.src /\ t.restore = r.restore /\ t \in Actor
  BY <1>2, <1>3, AtPart
<1>5. /\ s.pc = next /\ s.op = r.op /\ s.dest = r.dest /\ s.label = r.label
      /\ s.src = r.src /\ s.restore = TRUE /\ s \in Actor
  <2> HIDE DEF t
  <2> DEFINE u == [t EXCEPT !.restore = TRUE]
  <2>1. /\ u.pc = next /\ u.op = r.op /\ u.dest = r.dest /\ u.label = r.label
        /\ u.src = r.src /\ u.restore = TRUE
    BY <1>4 DEF Actor
  <2>2. u \in Actor BY <1>4 DEF Actor
  <2>3. u = s BY DEF t
  <2> HIDE DEF u, s
  <2> QED BY <2>1, <2>2, <2>3
<1>6. CASE /\ Exists(n) /\ spent' = spent /\ card' = Moved(a, n, b) /\ Goto(a, s)
  <2>1. card' = [card EXCEPT ![b] = card[n], ![n] = None] BY <1>2, <1>6, AloneFacts
  <2>2. card[n] \in Releases BY <1>3, <1>6 DEF Exists
  <2>3. n # b /\ \A m : Nro(m) # b /\ Kept(m) # b /\ Kept(m) # n BY Apart
  <2>4. card'[n] = None /\ card'[b] \in Releases /\ \A p \in Paths \ {n, b} : card'[p] = card[p]
    <3> HIDE DEF n, b
    <3> QED BY <1>2, <1>3, <2>1, <2>2, <2>3 DEF CardOK
  <2> HIDE DEF s
  <2>5. Clear(card', s)
    <3>1. \A m \in Names : card'[Nro(m)] \in Releases \cup {None}
      BY <1>1, <1>2, <2>3, <2>4, PathFacts DEF Clear
    <3>2. \A l \in Labels : card'[Kept(l)] \in Releases \cup {None}
      BY <1>1, <1>2, <2>3, <2>4, PathFacts DEF Clear
    <3> QED BY <3>1, <3>2 DEF Clear
  <2>6. Standing(card', spent'.faults, s) BY <1>3, <1>5 DEF Standing, Swapping
  <2>7. Swap(card', spent'.faults, s)
    BY <1>3, <1>5, <2>4 DEF Swap, Fresh, IsWhole
  <2>8. Giving(card', s)
    BY <1>1, <1>2, <1>3, <1>5, <2>3, <2>4, PathFacts DEF Giving, IsWhole, Knows
  <2>9. Sound(card', spent'.faults, s) BY <2>5, <2>6, <2>7, <2>8 DEF Sound
  <2> QED BY <1>2, <1>5, <1>6, <2>9, BuiltStep DEF Role, Busy
<1>7. CASE /\ IF Exists(n) THEN Faulty ELSE Fine
           /\ card' = IF r.op = "rollback" THEN Removed({b})
                      ELSE IF Exists(n) THEN Removed({b, n}) ELSE card
           /\ Goto(a, t) \/ Upset(a, t)
  <2> DEFINE k == spent'.faults
  <2>1. (Exists(n) => k > 0) BY <1>7, OneFault
  <2>2. n # b /\ \A m : Nro(m) # b /\ Kept(m) # b /\ Kept(m) # n BY Apart
  <2>3. /\ \A p \in Paths \ {n, b} : card'[p] = card[p]
        /\ card'[n] \in {card[n], None} /\ (card'[n] # card[n] => next = "place" /\ k > 0)
    <3> HIDE DEF n, b, k
    <3> QED BY <1>2, <1>3, <1>7, <2>1, <2>2 DEF CardOK, Removed
  <2> HIDE DEF t, k
  <2>4. Clear(card', t)
    <3>1. \A m \in Names : card'[Nro(m)] \in Releases \cup {None}
      BY <1>1, <1>2, <1>3, <2>2, <2>3, PathFacts DEF Clear
    <3>2. \A l \in Labels : card'[Kept(l)] \in Releases \cup {None}
      BY <1>1, <1>2, <2>2, <2>3, PathFacts DEF Clear
    <3> QED BY <3>1, <3>2 DEF Clear
  <2>5. Standing(card', k, t)
    <3>1. CASE card'[n] # card[n] BY <1>4, <2>3, <3>1 DEF Standing, Swapping
    <3>2. CASE card'[n] = card[n]
      <4>1. \A m \in Names : card'[Nro(m)] = card[Nro(m)] BY <2>2, <2>3, <3>2, PathFacts
      <4> QED BY <1>1, <1>2, <4>1 DEF Standing, Swapping, IsWhole
    <3> QED BY <3>1, <3>2
  <2>6. Swap(card', k, t)
    <3>1. card'[n] = None \/ k > 0 BY <2>1, <2>3 DEF Exists
    <3> QED BY <1>3, <1>4, <3>1 DEF Swap, Fresh
  <2>7. Giving(card', t)
    BY <1>1, <1>2, <1>3, <1>4, <2>2, <2>3, PathFacts DEF Giving, IsWhole, Knows
  <2>8. Sound(card', spent'.faults, t) BY <2>4, <2>5, <2>6, <2>7 DEF Sound, k
  <2> QED BY <1>2, <1>4, <1>7, <2>8, BuiltStep, <1>3 DEF Role, Busy
<1>8. /\ \A ps : Gone(a, ps) = Removed(ps) /\ CanMove(a, n, b) = Exists(n)
  BY <1>2, AloneFacts
<1> QED BY <1>6, <1>7, <1>8 DEF Park, Step, next, Fine

LEMMA PlaceBuilt == ASSUME IInv, NEW a \in Actors, Built(a), Place(a) PROVE Built(a)'
<1> DEFINE r == act[a]
           n == Nro(r.dest)
           s == [r EXCEPT !.pc = "clean"]
<1>1. r.pc = "place" /\ Goto(a, s) /\ card' = [card EXCEPT ![n] = r.ver]
  BY DEF Place, At, Step
<1>2. TypeOK /\ CardOK /\ r \in Actor /\ Knows(r) /\ Busy(r) /\ Clear(card, r)
  BY <1>1, BuiltFacts DEF Busy, Sound
<1>3. s.pc = "clean" /\ s.op = r.op /\ s.dest = r.dest /\ s.restore = r.restore
  BY <1>2, AtPart DEF Pcs
<1>4. n \in Paths /\ r.dest \in Names /\ r.ver \in Releases BY <1>1, <1>2, PathFacts DEF Knows
<1>5. card'[n] \in Releases /\ \A p \in Paths \ {n} : card'[p] = card[p]
  BY <1>1, <1>2, <1>4 DEF CardOK
<1> HIDE DEF s
<1>6. Clear(card', s)
  <2>1. \A m \in Names : card'[Nro(m)] \in Releases \cup {None}
    BY <1>1, <1>2, <1>5, PathFacts DEF Clear
  <2>2. \A l \in Labels : card'[Kept(l)] \in Releases \cup {None}
    BY <1>1, <1>2, <1>5, Apart, PathFacts DEF Clear
  <2> QED BY <2>1, <2>2 DEF Clear
<1>7. Standing(card', spent'.faults, s) BY <1>4, <1>5 DEF Standing, IsWhole
<1>8. Swap(card', spent'.faults, s) BY <1>3, <1>5 DEF Swap, Fresh, Swapping, IsWhole
<1>9. Giving(card', s) BY <1>3 DEF Giving
<1>10. Sound(card', spent'.faults, s) BY <1>6, <1>7, <1>8, <1>9 DEF Sound
<1> QED BY <1>1, <1>2, <1>10, GoBuilt DEF s, Pcs

LEMMA IdleSound ==
  ASSUME NEW f, NEW k, \A n \in Names : f[Nro(n)] \in Releases \cup {None},
         \A l \in Labels : f[Kept(l)] \in Releases \cup {None},
         \E n \in Names : IsWhole(f, Nro(n)), NEW s, ~Busy(s)
  PROVE  Sound(f, k, s)
BY DEF Sound, Clear, Standing, Swap, Giving, Fresh, Swapping, Busy

LEMMA PlaceFailsBuilt ==
  ASSUME IInv, SpentOK, MaxFaults \in {0, 1}, NEW a \in Actors, Built(a), PlaceFails(a)
  PROVE  Built(a)'
<1> DEFINE r == act[a]
           n == Nro(r.dest)
           b == Bak(r.dest)
<1>1. /\ r.pc = "place" /\ Goto(a, Idle) /\ card' = Undone(a)
      /\ IF Open(a, n) THEN Fine ELSE Faulty
  BY DEF PlaceFails, At
<1>2. /\ TypeOK /\ CardOK /\ r \in Actor /\ Knows(r) /\ Alone(a)
      /\ Clear(card, r) /\ Standing(card, spent.faults, r) /\ Swap(card, spent.faults, r)
      /\ \A c \in Actors : Role(c, act[c])
  BY <1>1, BuiltFacts DEF Busy, Sound
<1>3. spent.faults = 0 BY <1>1, <1>2, AloneFacts, OneFault
<1>4. n \in Paths /\ b \in Paths /\ r.dest \in Names /\ n # b /\ \A m : Kept(m) # n /\ Nro(m) # b
      /\ Kept(m) # b
  BY <1>2, PathFacts, Apart DEF Knows
<1>5. CASE r.restore
  <2>1. card[b] \in Releases BY <1>1, <1>2, <1>5 DEF Swap, Swapping, IsWhole
  <2>2. card' = [card EXCEPT ![n] = card[b], ![b] = None]
    BY <1>1, <1>2, <1>5, <2>1, AloneFacts, ContentFacts DEF Undone, Exists
  <2>3. card'[n] \in Releases /\ \A p \in Paths \ {n, b} : card'[p] = card[p]
    <3> HIDE DEF n, b
    <3> QED BY <1>2, <1>4, <2>1, <2>2 DEF CardOK
  <2>4. \A m \in Names : card'[Nro(m)] \in Releases \cup {None}
    BY <1>1, <1>2, <1>4, <2>3, PathFacts DEF Clear
  <2>5. \A l \in Labels : card'[Kept(l)] \in Releases \cup {None}
    BY <1>1, <1>2, <1>4, <2>3, PathFacts DEF Clear
  <2>6. \E m \in Names : IsWhole(card', Nro(m)) BY <1>4, <2>3 DEF IsWhole
  <2>7. Sound(card', spent'.faults, Idle)
    BY <2>4, <2>5, <2>6, IdleSound DEF Busy, Idle
  <2> QED BY <1>1, <1>2, <2>7, BuiltStep, IdleIsFit DEF Fit, Role, Busy, Idle
<1>6. CASE ~r.restore
  <2>1. card' = card BY <1>1, <1>6 DEF Undone
  <2>2. Sound(card', spent'.faults, Idle)
    BY <1>1, <1>2, <1>3, <1>6, <2>1, IdleSound DEF Busy, Idle, Clear, Standing
  <2> QED BY <1>1, <1>2, <2>2, BuiltStep, IdleIsFit DEF Fit, Role, Busy, Idle
<1> QED BY <1>5, <1>6

\* There is a kept build to write.
LEMMA WriteBuilt == ASSUME IInv, NEW a \in Actors, Built(a), Write(a) PROVE Built(a)'
<1> DEFINE r == act[a]
           n == Nro(r.dest)
           s == [r EXCEPT !.pc = "writing"]
<1>1. r.pc = "write" /\ spent' = spent BY DEF Write, At, Fine
<1>2. /\ TypeOK /\ CardOK /\ r \in Actor /\ Knows(r) /\ Busy(r) /\ Alone(a)
      /\ Clear(card, r) /\ Standing(card, spent.faults, r) /\ Swap(card, spent.faults, r)
      /\ Giving(card, r)
  BY <1>1, BuiltFacts DEF Busy, Sound
<1>3. Goto(a, s) /\ card' = [card EXCEPT ![n] = Torn]
  <2>1. Exists(Kept(r.src)) BY <1>1, <1>2, ContentFacts DEF Giving, Knows, IsWhole, Exists
  <2> QED BY <1>2, <2>1, AloneFacts DEF Write, Step
<1>4. /\ s.pc = "writing" /\ s.op = r.op /\ s.dest = r.dest /\ s.label = r.label
      /\ s.src = r.src /\ s.restore = r.restore
  BY <1>2, AtPart DEF Pcs
<1>5. n \in Paths /\ r.dest \in Names BY <1>2, PathFacts DEF Knows
<1>6. card'[n] = Torn /\ \A p \in Paths \ {n} : card'[p] = card[p]
  BY <1>2, <1>3, <1>5 DEF CardOK
<1> HIDE DEF s
<1>7. Clear(card', s)
  <2>1. \A m \in Names : card'[Nro(m)] \in Releases \cup {None} \/ s.dest = m
    BY <1>1, <1>2, <1>4, <1>6, Apart, PathFacts DEF Clear
  <2>2. \A l \in Labels : card'[Kept(l)] \in Releases \cup {None}
    BY <1>1, <1>2, <1>6, Apart, PathFacts DEF Clear
  <2> QED BY <1>4, <2>1, <2>2 DEF Clear
<1>8. Standing(card', spent'.faults, s)
  <2>1. CASE r.restore \/ spent.faults > 0 BY <1>1, <1>4, <2>1 DEF Standing, Swapping
  <2>2. CASE ~r.restore /\ ~(spent.faults > 0)
    <3>1. card[n] = None BY <1>1, <1>2, <2>2 DEF Swap
    <3>2. PICK m \in Names : card[Nro(m)] \in Releases
      BY <1>1, <1>2, <2>2 DEF Standing, IsWhole
    <3>3. Nro(m) # n BY <3>1, <3>2, ContentFacts
    <3>4. card'[Nro(m)] \in Releases BY <1>6, <3>2, <3>3, PathFacts
    <3> QED BY <3>4 DEF Standing, IsWhole
  <2> QED BY <2>1, <2>2
<1>9. Swap(card', spent'.faults, s)
  BY <1>1, <1>2, <1>4, <1>6, Apart, PathFacts DEF Swap, Fresh, Swapping, IsWhole, Knows
<1>10. Giving(card', s)
  BY SMTT(30), <1>1, <1>2, <1>4, <1>6, Apart, PathFacts DEF Giving, IsWhole, Knows
<1>11. Sound(card', spent'.faults, s) BY <1>7, <1>8, <1>9, <1>10 DEF Sound
<1> QED BY <1>2, <1>3, <1>11, GoBuilt DEF s, Pcs

LEMMA WriteEndBuilt == ASSUME IInv, NEW a \in Actors, Built(a), WriteEnd(a) PROVE Built(a)'
<1> DEFINE r == act[a]
           n == Nro(r.dest)
           s == [r EXCEPT !.pc = "clean"]
<1>1. r.pc = "writing" /\ Goto(a, s) /\ card' = [card EXCEPT ![n] = card[Kept(r.src)]]
  BY DEF WriteEnd, At, Step
<1>2. /\ TypeOK /\ CardOK /\ r \in Actor /\ Knows(r) /\ Busy(r) /\ Clear(card, r)
      /\ Giving(card, r)
  BY <1>1, BuiltFacts DEF Busy, Sound
<1>3. s.pc = "clean" /\ s.op = r.op /\ s.dest = r.dest /\ s.restore = r.restore
  BY <1>2, AtPart DEF Pcs
<1>4. n \in Paths /\ r.dest \in Names /\ card[Kept(r.src)] \in Releases
  BY <1>1, <1>2, PathFacts DEF Knows, Giving, IsWhole
<1>5. card'[n] \in Releases /\ \A p \in Paths \ {n} : card'[p] = card[p]
  BY <1>1, <1>2, <1>4 DEF CardOK
<1> HIDE DEF s
<1>6. Clear(card', s)
  <2>1. \A m \in Names : card'[Nro(m)] \in Releases \cup {None}
    <3> TAKE m \in Names
    <3>1. CASE m = r.dest BY <1>5, <3>1
    <3>2. CASE m # r.dest
      <4>1. Nro(m) \in Paths \ {n} BY <3>2, Apart, PathFacts
      <4> QED BY <1>2, <1>5, <3>2, <4>1 DEF Clear
    <3> QED BY <3>1, <3>2
  <2>2. \A l \in Labels : card'[Kept(l)] \in Releases \cup {None}
    BY <1>1, <1>2, <1>5, Apart, PathFacts DEF Clear
  <2> QED BY <2>1, <2>2 DEF Clear
<1>7. Standing(card', spent'.faults, s) BY <1>4, <1>5 DEF Standing, IsWhole
<1>8. Swap(card', spent'.faults, s) BY <1>3, <1>5 DEF Swap, Fresh, Swapping, IsWhole
<1>9. Giving(card', s) BY <1>3 DEF Giving
<1>10. Sound(card', spent'.faults, s) BY <1>6, <1>7, <1>8, <1>9 DEF Sound
<1> QED BY <1>1, <1>2, <1>10, GoBuilt DEF s, Pcs

LEMMA WriteFailsBuilt ==
  ASSUME IInv, SpentOK, MaxFaults \in {0, 1}, NEW a \in Actors, Built(a), WriteFails(a)
  PROVE  Built(a)'
<1> DEFINE r == act[a]
           n == Nro(r.dest)
           b == Bak(r.dest)
           s == [r EXCEPT !.pc = "reap"]
<1>1. r.pc = "writing" /\ Upset(a, s) /\ spent.faults = 0
  BY OneFault DEF WriteFails, At
<1>2. /\ TypeOK /\ CardOK /\ r \in Actor /\ Knows(r) /\ Busy(r)
      /\ Clear(card, r) /\ Standing(card, 0, r) /\ Swap(card, 0, r)
  BY <1>1, BuiltFacts DEF Busy, Sound
<1>3. /\ n \in Paths /\ b \in Paths /\ r.dest \in Names /\ n # b
      /\ \A m : Kept(m) # n /\ Nro(m) # b /\ Kept(m) # b /\ (Nro(m) = n => m = r.dest)
  BY <1>2, PathFacts, Apart DEF Knows
<1>4. s.pc = "reap" /\ ~Busy(s) BY <1>2, AtPart DEF Pcs, Busy
<1>5. \A p \in Paths \ {n, b} : card'[p] = card[p]
  <2> HIDE DEF n, b
  <2>1. CASE card' = [card EXCEPT ![n] = card[b], ![b] = None] BY <1>2, <1>3, <2>1 DEF CardOK
  <2>2. CASE card' = Removed({n}) BY <2>2 DEF Removed
  <2> USE DEF n, b
  <2> QED BY <2>1, <2>2 DEF WriteFails
<1>6. card'[n] \in Releases \/ (card'[n] = None /\ ~r.restore)
  <2>1. CASE r.restore
    <3>1. card[b] \in Releases BY <1>1, <1>2, <2>1 DEF Swap, Swapping, IsWhole
    <3>2. card' = [card EXCEPT ![n] = card[b], ![b] = None]
      BY <2>1, <3>1, ContentFacts DEF WriteFails, Exists
    <3> HIDE DEF n, b
    <3> QED BY <1>2, <1>3, <3>1, <3>2 DEF CardOK
  <2>2. CASE ~r.restore
    <3>1. card' = Removed({n}) BY <2>2 DEF WriteFails
    <3> QED BY <1>3, <2>2, <3>1 DEF Removed
  <2> QED BY <2>1, <2>2
<1>7. \A m \in Names : card'[Nro(m)] \in Releases \cup {None}
  <2> TAKE m \in Names
  <2>1. CASE m = r.dest BY <1>6, <2>1
  <2>2. CASE m # r.dest BY <1>1, <1>2, <1>3, <1>5, <2>2, PathFacts DEF Clear
  <2> QED BY <2>1, <2>2
<1>8. \A l \in Labels : card'[Kept(l)] \in Releases \cup {None}
  BY <1>1, <1>2, <1>3, <1>5, PathFacts DEF Clear
<1>9. \E m \in Names : IsWhole(card', Nro(m))
  <2>1. CASE r.restore BY <1>3, <1>6, <2>1 DEF IsWhole
  <2>2. CASE ~r.restore
    <3>1. PICK m \in Names : card[Nro(m)] \in Releases
      BY <1>2, <2>2 DEF Standing, IsWhole
    <3>2. Nro(m) # n BY <1>1, <1>2, <3>1, ContentFacts DEF Swap
    <3>3. card'[Nro(m)] \in Releases BY <1>3, <1>5, <3>1, <3>2, PathFacts
    <3> QED BY <3>3 DEF IsWhole
  <2> QED BY <2>1, <2>2
<1>10. Sound(card', spent'.faults, s) BY <1>4, <1>7, <1>8, <1>9, IdleSound
<1> QED BY <1>1, <1>2, <1>10, GoBuilt DEF Pcs

LEMMA CleanBuilt == ASSUME IInv, NEW a \in Actors, Built(a), Clean(a) PROVE Built(a)'
<1> DEFINE r == act[a]
           b == Bak(r.dest)
           todo == {e \in Extras : Exists(File(r.src, e))}
           root == IF r.label = r.src THEN None ELSE r.label
           t == [r EXCEPT !.pc = "old"]
           s == [r EXCEPT !.pc = "extras", !.ok = TRUE, !.root = root, !.todo = todo]
<1>1. /\ r.pc = "clean" /\ card' \in {card, Removed({b})}
      /\ IF r.op = "rollback" THEN Goto(a, s) ELSE Goto(a, t)
  <2>1. Gone(a, {b}) = Removed({b}) BY BuiltFacts, AloneFacts
  <2> QED BY <2>1 DEF Clean, At, Step
<1>2. /\ TypeOK /\ CardOK /\ r \in Actor /\ Knows(r) /\ Busy(r) /\ Alone(a)
      /\ Clear(card, r) /\ Standing(card, spent.faults, r) /\ Swap(card, spent.faults, r)
      /\ \A c \in Actors : Role(c, act[c])
  BY <1>1, BuiltFacts DEF Busy, Sound
<1>3. /\ \A m \in Names : card'[Nro(m)] = card[Nro(m)]
      /\ \A l \in Labels : card'[Kept(l)] = card[Kept(l)]
  <2>1. \A m : Nro(m) # b /\ Kept(m) # b BY Apart
  <2> HIDE DEF b
  <2> QED BY <1>1, <1>2, <2>1, PathFacts DEF Removed, CardOK
<1>4. CASE r.op = "rollback"
  <2>1. root \in Labels \cup {None} /\ todo \in SUBSET Extras BY <1>2 DEF Knows
  <2> HIDE DEF root, todo
  <2>2. s \in Actor BY ZenonT(30), <1>2, <2>1 DEF Actor, Pcs
  <2>3. s.pc = "extras" /\ s.op = "rollback" BY <1>2, <1>4 DEF Actor
  <2> HIDE DEF s
  <2>4. Clear(card', s) BY <1>1, <1>2, <1>3 DEF Clear
  <2>5. Standing(card', spent'.faults, s)
    BY <1>1, <1>2, <1>3 DEF Standing, Swapping, IsWhole
  <2>6. Swap(card', spent'.faults, s) BY <2>3 DEF Swap, Fresh, Swapping
  <2>7. Giving(card', s) BY <2>3 DEF Giving
  <2>8. Sound(card', spent'.faults, s) BY <2>4, <2>5, <2>6, <2>7 DEF Sound
  <2> QED BY <1>1, <1>2, <1>4, <2>2, <2>3, <2>8, BuiltStep DEF Role, Busy
<1>5. CASE r.op # "rollback"
  <2>1. t.pc = "old" /\ t.dest = r.dest BY <1>2, AtPart DEF Pcs
  <2> HIDE DEF t
  <2>2. Clear(card', t) BY <1>1, <1>2, <1>3 DEF Clear
  <2>3. Standing(card', spent'.faults, t)
    BY <1>1, <1>2, <1>3 DEF Standing, Swapping, IsWhole
  <2>4. Swap(card', spent'.faults, t)
    BY <1>1, <1>2, <1>3, <2>1 DEF Swap, Fresh, Swapping, IsWhole, Knows
  <2>5. Giving(card', t) BY <2>1 DEF Giving
  <2>6. Sound(card', spent'.faults, t) BY <2>2, <2>3, <2>4, <2>5 DEF Sound
  <2> QED BY <1>1, <1>2, <1>5, <2>6, GoBuilt DEF t, Pcs
<1> QED BY <1>4, <1>5

\* The old name goes when the new one is another.
LEMMA OldBuilt == ASSUME IInv, NEW a \in Actors, Built(a), Old(a) PROVE Built(a)'
<1> DEFINE r == act[a]
           p == Nro(r.old)
<1>1. /\ r.pc = "old" /\ Goto(a, Idle)
      /\ (card' = card) \/ (card' = Removed({p}) /\ r.old # r.dest)
  <2>1. Gone(a, {p}) = Removed({p}) BY BuiltFacts, AloneFacts
  <2> QED BY <2>1 DEF Old, At
<1>2. /\ TypeOK /\ CardOK /\ r \in Actor /\ Knows(r) /\ Alone(a)
      /\ Clear(card, r) /\ Swap(card, spent.faults, r) /\ \A c \in Actors : Role(c, act[c])
  BY <1>1, BuiltFacts DEF Busy, Sound
<1>3. \A q \in Paths : card'[q] \in {card[q], None} /\ (q # p => card'[q] = card[q])
  BY <1>1, <1>2 DEF Removed, CardOK
<1>4. card'[Nro(r.dest)] = card[Nro(r.dest)] /\ r.dest \in Names
  BY <1>1, <1>2, <1>3, Apart, PathFacts DEF Knows
<1> HIDE DEF p
<1>5. \A m \in Names : card'[Nro(m)] \in Releases \cup {None}
  BY <1>1, <1>2, <1>3, PathFacts DEF Clear
<1>6. \A l \in Labels : card'[Kept(l)] \in Releases \cup {None}
  BY <1>1, <1>2, <1>3, PathFacts DEF Clear
<1>7. \E m \in Names : IsWhole(card', Nro(m)) BY <1>1, <1>2, <1>4 DEF Swap, IsWhole
<1>8. Sound(card', spent'.faults, Idle) BY <1>5, <1>6, <1>7, IdleSound DEF Busy, Idle
<1> QED BY <1>1, <1>2, <1>8, BuiltStep, IdleIsFit DEF Fit, Role, Busy, Idle

\* Only one at work takes a step of its own, which may fail.
LEMMA WorkParts ==
  ASSUME NEW a \in Actors, Work(a)
  PROVE  Busy(act[a]) /\ (Fine \/ Faulty)
<1>1. ASSUME NEW e \in Extras, CopyBegin(a, e) \/ RemoveNew(a, e)
      PROVE  Busy(act[a]) /\ (Fine \/ Faulty)
  BY <1>1 DEF CopyBegin, RemoveNew, At, Busy
<1>2. CASE CopyEnd(a) \/ CopyFails(a) \/ CopyDone(a)
  BY <1>2 DEF CopyEnd, CopyFails, CopyDone, At, Busy
<1>3. CASE Keep(a) \/ KeepEnd(a) \/ KeepFails(a) \/ Prune(a)
  BY <1>3 DEF Keep, KeepEnd, KeepFails, Prune, At, Busy
<1>4. CASE Park(a) BY <1>4 DEF Park, At, Busy
<1>5. CASE Place(a) \/ PlaceFails(a) BY <1>5 DEF Place, PlaceFails, At, Busy
<1>6. CASE Write(a) \/ WriteEnd(a) \/ WriteFails(a)
  BY <1>6 DEF Write, WriteEnd, WriteFails, At, Busy
<1>7. CASE Clean(a) \/ Old(a) \/ RolledBack(a) BY <1>7 DEF Clean, Old, RolledBack, At, Busy
<1> QED BY <1>1, <1>2, <1>3, <1>4, <1>5, <1>6, <1>7 DEF Work

LEMMA WorkBuilt ==
  ASSUME IInv, SpentOK, MaxFaults \in {0, 1}, NEW c \in Actors, Built(c),
         NEW a \in Actors, Work(a)
  PROVE  \E b \in Actors : Built(b)'
<1>1. Busy(act[a]) BY WorkParts
<1>2. Built(a) BY <1>1 DEF Built, Alone
<1>3. CASE \E e \in Extras : CopyBegin(a, e) \/ RemoveNew(a, e)
  BY <1>2, <1>3, CopyBeginBuilt, RemoveNewBuilt
<1>4. CASE CopyEnd(a) \/ CopyFails(a) \/ CopyDone(a)
  BY <1>2, <1>4, CopyEndBuilt, CopyDoneBuilt
<1>5. CASE Keep(a) \/ KeepEnd(a) \/ KeepFails(a) \/ Prune(a)
  BY <1>2, <1>5, KeepBuilt, KeepEndBuilt, PruneBuilt
<1>6. CASE Park(a) \/ Place(a) \/ PlaceFails(a)
  BY <1>2, <1>6, ParkBuilt, PlaceBuilt, PlaceFailsBuilt
<1>7. CASE Write(a) \/ WriteEnd(a) \/ WriteFails(a)
  BY <1>2, <1>7, WriteBuilt, WriteEndBuilt, WriteFailsBuilt
<1>8. CASE Clean(a) \/ Old(a) \/ RolledBack(a)
  BY <1>2, <1>8, CleanBuilt, OldBuilt, RolledBackBuilt
<1> QED BY <1>3, <1>4, <1>5, <1>6, <1>7, <1>8 DEF Work

-----------------------------------------------------------------------------
(* The list and the UI, and the theorem. *)

\* Nobody is at work: what there is is whole, and a build is in place.
Settled == /\ \A n \in Names : card[Nro(n)] \in Releases \cup {None}
           /\ \A l \in Labels : card[Kept(l)] \in Releases \cup {None}
           /\ \E n \in Names : IsWhole(card, Nro(n))

LEMMA Settling ==
  ASSUME IInv, NEW c \in Actors, Built(c), ~Busy(act["ui"]), ~Busy(act["rev"])
  PROVE  Settled /\ TypeOK /\ \A a \in Actors : Alone(a) /\ Role(a, act[a])
<1>1. \A a \in Actors : ~Busy(act[a]) BY DEF Actors
<1>2. Settled BY <1>1 DEF Built, Sound, Clear, Standing, Swapping, Busy, Settled
<1> QED BY <1>1, <1>2 DEF Alone, Role, IInv

\* A change begins.
LEMMA BeginBuilt ==
  ASSUME IInv, NEW c \in Actors, Built(c), ~Busy(act["ui"]), ~Busy(act["rev"]), card' = card,
         NEW a \in Actors, NEW s \in Actor, Goto(a, s) \/ Upset(a, s), Role(a, s),
         s.pc \in {"idle", "extras", "keep"}, ~s.restore,
         s.op = "rollback" => s.pc = "keep" /\ s.src \in Labels /\ Exists(Kept(s.src))
  PROVE  Built(a)'
<1>1. Settled /\ TypeOK /\ Alone(a) /\ \A b \in Actors : Role(b, act[b]) BY Settling
<1>2. Clear(card', s) BY <1>1 DEF Settled, Clear
<1>3. Standing(card', spent'.faults, s) BY <1>1 DEF Settled, Standing
<1>4. Swap(card', spent'.faults, s) BY DEF Swap, Swapping
<1>5. Giving(card', s) BY <1>1 DEF Giving, Settled, IsWhole, Exists
<1>6. Sound(card', spent'.faults, s) BY <1>2, <1>3, <1>4, <1>5 DEF Sound
<1> QED BY <1>1, <1>6, BuiltStep

LEMMA IdleFields ==
  /\ Idle \in Actor /\ Idle.pc = "idle" /\ Idle.op = "none" /\ Idle.restore = FALSE
  /\ ~Busy(Idle) /\ \A a : Role(a, Idle)
BY IdleIsFit DEF Fit, Idle, Busy, Role

LEMMA UmiTickBuilt ==
  ASSUME IInv, SpentOK, NEW c \in Actors, Built(c), NEW j \in Jobs, UmiTick(j), ~spent'.rough
  PROVE  Built("ui")'
<1> DEFINE d == jobs[j]
           op == IF d.fresh THEN "install" ELSE "update"
           keep == ~d.fresh /\ Exists(Nro(d.dest))
           root == IF keep THEN d.label ELSE None
           s == [Idle EXCEPT !.pc = "extras", !.op = op,
                  !.ver = d.ver, !.job = j, !.todo = Ships[d.ver], !.dest = NameOf[d.ver],
                  !.old = d.dest, !.label = d.label, !.root = root]
<1>1. d # None /\ Upset("ui", s) /\ card' = card /\ ~Busy(act["ui"]) /\ ~Busy(act["rev"])
  BY DEF UmiTick, SpentOK, Both, UiFree, At, Busy
<1>2. d \in [ver : Releases, fresh : BOOLEAN, label : Labels, dest : Names]
  BY <1>1 DEF IInv, TypeOK, ListOK
<1>3. /\ root \in Labels \cup {None} /\ op \in {"install", "update"}
      /\ NameOf[d.ver] \in Names /\ Ships[d.ver] \in SUBSET Extras
  BY <1>2, UpdatesAssumption DEF Names
<1> HIDE DEF d, op, root
<1>4. s \in Actor BY ZenonT(30), <1>2, <1>3, IdleFields DEF Actor, Pcs
<1>5. s.pc = "extras" /\ s.op = op /\ s.restore = FALSE
  BY <1>2, <1>3, IdleFields DEF Actor, Pcs
<1> HIDE DEF s
<1>6. "ui" \in Actors /\ Role("ui", s) BY <1>3, <1>5 DEF Actors, Role
<1> QED BY <1>1, <1>3, <1>4, <1>5, <1>6, BeginBuilt

LEMMA PushBuilt ==
  ASSUME IInv, SpentOK, NEW c \in Actors, Built(c), NEW n \in Names, NEW v \in Releases,
         Push(n, v), ~spent'.rough
  PROVE  Built("ui")'
<1> DEFINE l == Label(card[Nro(n)])
           s == [Idle EXCEPT !.pc = "keep", !.op = "push", !.ver = v, !.dest = n,
                             !.old = n, !.label = l]
<1>1. l \in Labels BY DEF Label, Labels
<1>2. Upset("ui", s) /\ card' = card /\ ~Busy(act["ui"]) /\ ~Busy(act["rev"])
  BY DEF Push, SpentOK, Both, UiFree, At, Busy
<1> HIDE DEF l
<1>3. s \in Actor BY <1>1, IdleFields DEF Actor, Pcs
<1>4. s.pc = "keep" /\ s.op = "push" /\ s.restore = FALSE BY <1>1, IdleFields DEF Actor, Pcs
<1> HIDE DEF s
<1>5. "ui" \in Actors /\ Role("ui", s) BY <1>4 DEF Actors, Role
<1> QED BY <1>2, <1>3, <1>4, <1>5, BeginBuilt

LEMMA AppRevertBuilt ==
  ASSUME IInv, NEW c \in Actors, Built(c), NEW m \in Match, NEW l \in Labels, AppRevert(m, l)
  PROVE  Built("rev")'
<1> DEFINE goal == IF snap # None /\ snap.label = l THEN snap ELSE None
           s == [Idle EXCEPT !.pc = "keep", !.op = "rollback", !.dest = m.path,
                  !.old = m.path, !.label = m.label, !.src = l, !.goal = goal]
<1>1. m \in Rows /\ m.path \in Names /\ m.label \in Labels
  BY MatchFacts DEF Rows, AppRevert
<1>2. /\ Goto("rev", s) /\ card' = card /\ ~Busy(act["ui"]) /\ ~Busy(act["rev"])
      /\ Exists(Kept(l))
  BY DEF AppRevert, UiFree, At, Busy, book
<1>3. goal \in Snaps \cup {None} BY DEF IInv, TypeOK, ActorsOK
<1> HIDE DEF goal
<1>4. s \in Actor BY <1>1, <1>3, IdleFields DEF Actor, Pcs
<1>5. s.pc = "keep" /\ s.op = "rollback" /\ s.restore = FALSE /\ s.src = l
  BY <1>1, <1>3, IdleFields DEF Actor, Pcs
<1> HIDE DEF s
<1>6. "rev" \in Actors /\ Role("rev", s) BY <1>5 DEF Actors, Role
<1> QED BY <1>2, <1>4, <1>5, <1>6, BeginBuilt

LEMMA AppRevertTickBuilt ==
  ASSUME IInv, NEW c \in Actors, Built(c), AppRevertTick PROVE Built("rev")'
<1>1. Goto("rev", Idle) /\ card' = card /\ ~Busy(act["ui"]) /\ ~Busy(act["rev"])
  BY DEF AppRevertTick, UiFree, At, Busy, book
<1>2. "rev" \in Actors BY DEF Actors
<1> QED BY <1>1, <1>2, IdleFields, BeginBuilt

\* A backup is deleted while a build is in place and nobody needs it.
LEMMA DeleteBuilt ==
  ASSUME IInv, SpentOK, NEW c \in Actors, Built(c), NEW l \in Labels, Delete(l), ~spent'.rash
  PROVE  Built("ui")'
<1> DEFINE ps == {Kept(l)} \cup {File(l, e) : e \in Extras}
<1>1. /\ Upset("ui", act["ui"]) /\ card' = Removed(ps) /\ ~Busy(act["ui"]) /\ ~Busy(act["rev"])
  BY DEF Delete, UiFree, At, Busy, SpentOK
<1>2. "ui" \in Actors BY DEF Actors
<1>3. /\ Settled /\ TypeOK /\ CardOK /\ act["ui"] \in Actor /\ Alone("ui")
      /\ \A a \in Actors : Role(a, act[a])
  BY <1>1, <1>2, Settling, BuiltFacts DEF TypeOK, ActorsOK
<1>4. /\ \A n \in Names : card'[Nro(n)] = card[Nro(n)]
      /\ \A k \in Labels : card'[Kept(k)] \in {card[Kept(k)], None}
  <2>1. \A n : Nro(n) \notin ps BY Apart
  <2> HIDE DEF ps
  <2> QED BY <1>1, <1>3, <2>1, PathFacts DEF Removed, CardOK
<1>5. Sound(card', spent'.faults, act["ui"])
  BY <1>1, <1>3, <1>4, IdleSound DEF Settled, IsWhole
<1> QED BY <1>1, <1>2, <1>3, <1>5, BuiltStep

\* Nobody takes a step, or what is in memory goes while nobody is at work.
LEMMA RestBuilt ==
  ASSUME IInv, NEW c \in Actors, Built(c),
         \/ (act' = act /\ card' = card /\ spent'.faults = spent.faults)
         \/ (\E u \in Extras : Play(u)) \/ Exit
  PROVE  Built(c)'
<1>1. CASE act' = act /\ card' = card /\ spent'.faults = spent.faults
  BY <1>1 DEF Built, Alone
<1>2. CASE \E u \in Extras : Play(u)
  <2>1. PICK u \in Extras : Play(u) BY <1>2
  <2>2. /\ act' = act /\ spent' = spent /\ card' = [card EXCEPT ![Extra(u)] = Own]
    BY <2>1 DEF Play, Fine
  <2>3. SameBuilds(card', card)
    BY <2>2, Apart, PathFacts DEF SameBuilds, IInv, TypeOK, CardOK
  <2>4. Sound(card', spent'.faults, act[c])
    BY <2>1, <2>2, <2>3 DEF Built, Sound, Clear, Standing, Swap, Giving, Play, At, IsWhole,
                           SameBuilds, Fresh, Swapping
  <2> QED BY <2>2, <2>4 DEF Built, Alone
<1>3. CASE Exit
  <2>1. act' = [a \in Actors |-> Idle] /\ card' = card /\ ~Busy(act["ui"]) /\ ~Busy(act["rev"])
    BY <1>3 DEF Exit, Forget, UiFree, At, Busy
  <2>2. Settled BY <2>1, Settling
  <2>3. Sound(card', spent'.faults, Idle) BY <2>1, <2>2, IdleSound, IdleFields DEF Settled
  <2> QED BY <2>1, <2>3, IdleFields DEF Built, Alone
<1> QED BY <1>1, <1>2, <1>3

LEMMA SpentStep ==
  ASSUME SpentOK, [Next]_vars
  PROVE  SpentOK' /\ (spent.rough => spent'.rough) /\ (spent.rash => spent'.rash)
<1> DEFINE After == SpentOK' /\ (spent.rough => spent'.rough) /\ (spent.rash => spent'.rash)
<1> SUFFICES After OBVIOUS
<1> DEFINE done == spent.ops + 1
           hurt == spent.faults + 1
<1>0. /\ done \in Nat /\ hurt \in Nat /\ spent.ops \in Nat /\ spent.faults \in Nat
      /\ spent.rough \in BOOLEAN /\ spent.rash \in BOOLEAN
  BY DEF SpentOK
<1>1. ASSUME Fine \/ Op \/ Faulty PROVE After
  <2>1. CASE Fine BY <2>1 DEF Fine, SpentOK
  <2>2. CASE Op \/ Faulty
    <3>1. \/ spent' = [spent EXCEPT !.ops = done]
          \/ spent' = [spent EXCEPT !.ops = done, !.faults = hurt]
      BY <2>2 DEF Op, Faulty
    <3> HIDE DEF done, hurt
    <3>2. SpentOK' BY <1>0, <3>1 DEF SpentOK
    <3>3. spent'.rough = spent.rough /\ spent'.rash = spent.rash BY <3>1 DEF SpentOK
    <3> QED BY <3>2, <3>3
  <2> QED BY <1>1, <2>1, <2>2
<1>2. ASSUME NEW b \in BOOLEAN,
             \/ spent' = [spent EXCEPT !.rough = @ \/ b]
             \/ spent' = [spent EXCEPT !.ops = @ + 1, !.rough = @ \/ b]
             \/ spent' = [spent EXCEPT !.ops = @ + 1, !.rash = @ \/ b]
             \/ spent' = [spent EXCEPT !.ops = @ + 1, !.faults = @ + 1, !.rough = TRUE]
      PROVE  After
  <2> DEFINE rough == spent.rough \/ b
             rash  == spent.rash \/ b
  <2>1. rough \in BOOLEAN /\ rash \in BOOLEAN /\ (spent.rough => rough) /\ (spent.rash => rash)
    OBVIOUS
  <2>2. /\ spent.rough \in BOOLEAN /\ spent.rash \in BOOLEAN
    BY DEF SpentOK
  <2> HIDE DEF rough, rash, done, hurt
  <2>3. CASE spent' = [spent EXCEPT !.rough = rough]
    <3>1. SpentOK' BY <1>0, <2>1, <2>3 DEF SpentOK
    <3>2. spent'.rough = rough /\ spent'.rash = spent.rash BY <2>3 DEF SpentOK
    <3> QED BY <2>1, <3>1, <3>2
  <2>4. CASE spent' = [spent EXCEPT !.ops = done, !.rough = rough]
    <3>1. SpentOK' BY <1>0, <2>1, <2>4 DEF SpentOK
    <3>2. spent'.rough = rough /\ spent'.rash = spent.rash BY <2>4 DEF SpentOK
    <3> QED BY <2>1, <3>1, <3>2
  <2>5. CASE spent' = [spent EXCEPT !.ops = done, !.rash = rash]
    <3>1. SpentOK' BY <1>0, <2>1, <2>5 DEF SpentOK
    <3>2. spent'.rough = spent.rough /\ spent'.rash = rash BY <2>5 DEF SpentOK
    <3> QED BY <2>1, <3>1, <3>2
  <2>6. CASE spent' = [spent EXCEPT !.ops = done, !.faults = hurt, !.rough = TRUE]
    <3>1. SpentOK' BY <1>0, <2>6 DEF SpentOK
    <3>2. spent'.rough = TRUE /\ spent'.rash = spent.rash BY <2>6 DEF SpentOK
    <3> QED BY <3>1, <3>2
  <2> QED BY <1>2, <2>3, <2>4, <2>5, <2>6 DEF rough, rash, done, hurt
<1> HIDE DEF After, done, hurt
<1>3. ASSUME NEW a \in Actors, Work(a) PROVE After BY <1>1, <1>3, WorkParts
<1>4. CASE ScanStart \/ ScanRead \/ ScanPublish \/ AppRevertTick \/ Published \/ Exit
  BY <1>1, <1>4 DEF ScanStart, ScanRead, ScanPublish, AppRevertTick, Published, Exit
<1>5. ASSUME NEW j \in Jobs, UmiStart(j) \/ UmiFails(j) PROVE After
  BY <1>1, <1>5 DEF UmiStart, UmiFails
<1>6. ASSUME NEW j \in Jobs, UmiTick(j) PROVE After
  <2>1. Both \in BOOLEAN /\ spent' = [spent EXCEPT !.rough = @ \/ Both]
    BY <1>6 DEF UmiTick, Both
  <2> QED BY <1>2, <2>1
<1>7. ASSUME NEW n \in Names, NEW v \in Releases, Push(n, v) PROVE After
  <2>1. Both \in BOOLEAN /\ spent' = [spent EXCEPT !.ops = @ + 1, !.rough = @ \/ Both]
    BY <1>7 DEF Push, Both
  <2> QED BY <1>2, <2>1
<1>8. ASSUME NEW m \in Match, NEW l \in Labels, AppRevert(m, l) PROVE After
  BY <1>1, <1>8 DEF AppRevert
<1>9. ASSUME NEW l \in Labels, Delete(l) PROVE After
  <2> DEFINE b == ~(At("rev", "idle") /\ \E n \in Names : card[Nro(n)] \in Releases)
  <2>1. b \in BOOLEAN /\ spent' = [spent EXCEPT !.ops = @ + 1, !.rash = @ \/ b]
    BY <1>9 DEF Delete
  <2> QED BY <1>2, <2>1
<1>10. ASSUME NEW u \in Extras, Play(u) PROVE After BY <1>1, <1>10 DEF Play
<1>11. CASE PowerCut
  <2>1. spent' = [spent EXCEPT !.ops = @ + 1, !.faults = @ + 1, !.rough = TRUE]
    BY <1>11 DEF PowerCut
  <2> QED BY <1>2, <2>1
<1>12. CASE UNCHANGED vars BY <1>1, <1>12 DEF vars, Fine
<1> QED
  BY <1>3, <1>4, <1>5, <1>6, <1>7, <1>8, <1>9, <1>10, <1>11, <1>12 DEF Next

LEMMA BuildStep ==
  ASSUME IInv, BuildInv, MaxFaults \in {0, 1}, [Next]_vars PROVE BuildInv'
<1>1. SpentOK' /\ (spent.rough => spent'.rough) /\ (spent.rash => spent'.rash)
  BY SpentStep DEF BuildInv
<1>2. ASSUME NEW c \in Actors, Built(c), ~spent'.rough, ~spent'.rash
      PROVE  \E a \in Actors : Built(a)'
  <2>1. SpentOK /\ "ui" \in Actors /\ "rev" \in Actors BY DEF BuildInv, Actors
  <2>2. CASE \E a \in Actors : Work(a) BY <1>2, <2>1, <2>2, WorkBuilt
  <2>3. CASE \/ ScanStart \/ ScanRead \/ ScanPublish \/ Published \/ Exit
             \/ (\E j \in Jobs : UmiStart(j) \/ UmiFails(j)) \/ (\E u \in Extras : Play(u))
             \/ UNCHANGED vars
    <3>1. \/ (act' = act /\ card' = card /\ spent'.faults = spent.faults)
          \/ (\E u \in Extras : Play(u)) \/ Exit
      BY <2>1, <2>3 DEF ScanStart, ScanRead, ScanPublish, Published, UmiStart, UmiFails, vars,
                        Fine, Op, SpentOK
    <3> QED BY <1>2, <3>1, RestBuilt
  <2>4. CASE \E j \in Jobs : UmiTick(j) BY <1>2, <2>1, <2>4, UmiTickBuilt
  <2>5. CASE \E n \in Names, v \in Releases : Push(n, v) BY <1>2, <2>1, <2>5, PushBuilt
  <2>6. CASE \E m \in Match, l \in Labels : AppRevert(m, l) BY <1>2, <2>1, <2>6, AppRevertBuilt
  <2>7. CASE AppRevertTick BY <1>2, <2>1, <2>7, AppRevertTickBuilt
  <2>8. CASE \E l \in Labels : Delete(l) BY <1>2, <2>1, <2>8, DeleteBuilt
  <2>9. CASE PowerCut BY <1>2, <2>1, <2>9 DEF PowerCut, SpentOK
  <2> QED BY <2>2, <2>3, <2>4, <2>5, <2>6, <2>7, <2>8, <2>9 DEF Next
<1> QED BY <1>1, <1>2 DEF BuildInv

LEMMA InitBuilt == ASSUME Init PROVE BuildInv
<1>1. SpentOK BY DEF Init, SpentOK
<1>2. "ui" \in Actors /\ act = [a \in Actors |-> Idle] BY DEF Init, Actors
<1>3. /\ \A p \in Paths : card[p] \in {1, None}
      /\ 1 \in Releases /\ NameOf[1] \in Names /\ card[Nro(NameOf[1])] = 1
  <2>1. 1 \in Releases /\ NameOf[1] \in Names BY UpdatesAssumption DEF Names
  <2> QED BY <2>1, PathFacts DEF Init
<1>4. Sound(card, spent.faults, Idle)
  <2>1. \E n \in Names : IsWhole(card, Nro(n)) BY <1>3 DEF IsWhole
  <2> QED BY <1>3, <2>1, PathFacts, IdleSound, IdleFields
<1>5. Built("ui") BY <1>2, <1>4, IdleFields DEF Built, Alone
<1> QED BY <1>1, <1>2, <1>5 DEF BuildInv

LEMMA BuildHolds == ASSUME IInv, BuildInv, ~spent.rough PROVE BuildSurvives
<1>1. CASE spent.rash BY <1>1 DEF BuildSurvives
<1>2. ASSUME NEW a \in Actors, Built(a) PROVE BuildSurvives
  <2> DEFINE r == act[a]
  <2>1. CASE \E n \in Names : IsWhole(card, Nro(n)) BY <2>1 DEF BuildSurvives, IsWhole
  <2>2. CASE r.pc \in Swapping
    <3>1. Knows(r) /\ Busy(r) BY <1>2, <2>2, BuiltFacts DEF Swapping, Busy
    <3>2. CASE r.restore
      BY <1>2, <2>2, <3>1, <3>2 DEF Built, Sound, Swap, IsWhole, BuildSurvives, Busy, Knows
    <3>3. CASE r.pc = "place" BY <3>1, <3>3 DEF BuildSurvives, Busy, At
    <3>4. CASE r.pc \in {"write", "writing"}
      BY <1>2, <3>1, <3>4 DEF Built, Sound, Giving, IsWhole, BuildSurvives, Busy, Knows
    <3> QED BY <2>2, <3>2, <3>3, <3>4 DEF Swapping
  <2> QED BY <1>2, <2>1, <2>2 DEF Built, Sound, Standing
<1> QED BY <1>1, <1>2 DEF BuildInv

\* As long as the power was not cut and a rollback and the UI thread were not at work at
\* once, with one failing file operation at most: a whole build of the app has its name once
\* nobody is at work, and until then is there, parked beside it, kept, or about to be put in
\* place; unless the user has deleted a backup meanwhile (UmiTick, InvApplyEmuNroAt, AppRevertThread).
THEOREM BuildKept ==
  ASSUME MaxFaults \in {0, 1} PROVE Spec => [](spent.rough \/ BuildSurvives)
<1>1. IInv /\ BuildInv /\ [Next]_vars => BuildInv' BY BuildStep
<1>2. IInv /\ BuildInv => spent.rough \/ BuildSurvives BY BuildHolds
<1>3. Init => BuildInv BY InitBuilt
<1> QED BY <1>1, <1>2, <1>3, Inductive, PTL DEF Spec

-----------------------------------------------------------------------------
(* What a rollback owes. *)

\* The extra files that are an app's own, not the user's.
Theirs == Extras \ UserData

\* The backup f has for the snapshot s, of which the change has listed gone as added, gives
\* e back as it was.
Saved(f, s, gone, e) ==
  /\ e \in gone => s.extra[e] = None
  /\ e \notin gone => IF f[File(s.label, e)] # None THEN f[File(s.label, e)] = s.extra[e]
                                                    ELSE f[Extra(e)] = s.extra[e]
\* What is in the backup has been replaced: it will not be listed as added.
InPlace(f, l, gone, e) == f[File(l, e)] # None /\ e \notin gone => f[Extra(e)] # None

\* Copying extra files; before the build is swapped, and while it is.  The build is not
\* kept yet while an update copies, nor as the keeping begins.
Filling == {"extras", "copy"}
Ahead   == {"keep", "keeping", "prune", "park", "write", "writing", "clean"}
Early(r) == r.pc = "keep" \/ (r.pc \in Filling /\ r.op # "rollback")
\* What the backup lists as added, once the change r is done.
Added(nw, r, s) == nw[s.label] \cup r.added

\* The backup of the change r, of files f and lists nw, is one of the snapshot s: every
\* file can be given back, and so can the build, which is kept, or in its place as long as
\* it is not; the change is the one that fills this backup, or a rollback that fills none
\* because it goes back to it; and what that change has yet to copy spoils nothing.
OwesFiles(f, nw, r, s) == \A e \in Theirs : Saved(f, s, Added(nw, r, s), e)
OwesBuild(f, r, s) ==
  /\ s.nro \in Releases
  /\ IF r.pc = "keeping" THEN f[Nro(r.old)] = s.nro
     ELSE \/ f[Kept(s.label)] = s.nro
          \/ Early(r) /\ f[Kept(s.label)] = None /\ f[Nro(r.old)] = s.nro
OwesPlan(r, s) ==
  /\ r.pc # "idle" => r.label = s.label /\ r.op # "install"
  /\ r.pc \in Filling \cup {"rnew"} =>
       r.root = s.label \/ (r.root = None /\ r.op = "rollback" /\ r.src = s.label)
OwesTodo(f, nw, r, s) ==
  /\ r.pc = "copy" /\ r.cur \in Theirs =>
       r.cur \in Added(nw, r, s) \/ f[File(s.label, r.cur)] # None
  /\ r.pc \in Filling => \A e \in Theirs \cap r.todo : InPlace(f, s.label, Added(nw, r, s), e)
  /\ r.op = "rollback" /\ r.pc \in Ahead =>
       \A e \in Theirs : InPlace(f, s.label, Added(nw, r, s), e)
  /\ r.pc \in Filling /\ r.root = None => \A e \in r.todo : f[File(s.label, e)] # None
  /\ r.pc = "rnew" /\ r.root = None => r.todo \subseteq nw[s.label]
Owes(f, nw, r, s) == /\ OwesFiles(f, nw, r, s) /\ OwesBuild(f, r, s)
                     /\ OwesPlan(r, s) /\ OwesTodo(f, nw, r, s)

\* What the rollback r has yet to do, or has done, of what it owes.
DueBuild(f, r) ==
  /\ r.op = "rollback" /\ r.goal.label = r.src /\ r.goal.nro \in Releases
  /\ r.pc \in Ahead \ {"clean"} => f[Kept(r.src)] = r.goal.nro
  /\ r.pc = "keeping" => r.label # r.src
  /\ r.pc \in Filling \cup {"clean", "rnew"} \/ (r.pc = "reap" /\ r.ok) =>
       f[Nro(r.dest)] = r.goal.nro
\* ... while the extra files are given back: the one e is given back already, or the backup
\* has it still, or it is listed as added and goes last.
CopyBack(f, nw, r, e) ==
  /\ e \in nw[r.src] => r.goal.extra[e] = None
  /\ e \notin nw[r.src] /\ f[File(r.src, e)] # None => f[File(r.src, e)] = r.goal.extra[e]
  /\ e \in r.todo \/ (r.pc = "copy" /\ e = r.cur) => f[File(r.src, e)] # None
  /\ e \notin nw[r.src] /\ e \notin r.todo /\ ~(r.pc = "copy" /\ e = r.cur) =>
       f[Extra(e)] = r.goal.extra[e]
DueFiles(f, nw, r) ==
  /\ r.pc \in Ahead => ~r.ok /\ \A e \in Theirs : Saved(f, r.goal, nw[r.src], e)
  /\ r.pc \in Filling => r.root # r.src /\ \A e \in Theirs : CopyBack(f, nw, r, e)
  /\ r.pc = "rnew" => \A e \in Theirs : IF e \in r.todo THEN r.goal.extra[e] = None
                                                        ELSE f[Extra(e)] = r.goal.extra[e]
  /\ r.pc = "reap" /\ r.ok => \A e \in Theirs : f[Extra(e)] = r.goal.extra[e]
Due(f, nw, r) == DueBuild(f, r) /\ DueFiles(f, nw, r)

\* Nobody else is at work.
Sole(a) == \A b \in Actors \ {a} : act[b].pc = "idle"
\* Nothing is noted as added outside the copying of a change that fills a backup, a file
\* being copied is not one to copy, and who is idle owes nothing.
Neat(r) == /\ r.pc \notin Filling \/ r.root = None => r.added = {}
           /\ r.pc = "copy" => r.cur \notin r.todo
           /\ r.pc = "idle" => r.goal = None
\* The last change, and whatever came after it, keeps what its backup owes; a rollback to
\* it is on its way to give it.
SnapInv == snap # None => \E a \in Actors : Sole(a) /\ Owes(card, new, act[a], snap)
GoalInv == act["rev"].goal # None => Sole("rev") /\ Due(card, new, act["rev"])
RollInv == SnapInv /\ GoalInv /\ \A a \in Actors : Neat(act[a])

LEMMA SoleIsAlone == ASSUME NEW a, Sole(a) PROVE Alone(a)
BY DEF Sole, Alone, Busy

\* Owes reads nothing of an actor that forgetting what is owed changes.
LEMMA SameOwes ==
  ASSUME NEW f, NEW nw, NEW r, NEW q, NEW s, Same(q, r), Owes(f, nw, r, s)
  PROVE  Owes(f, nw, q, s)
<1>1. OwesFiles(f, nw, q, s) BY DEF Owes, OwesFiles, Saved, Added, Same
<1>2. OwesBuild(f, q, s) BY DEF Owes, OwesBuild, Early, Same
<1>3. OwesPlan(q, s) BY DEF Owes, OwesPlan, Same
<1>4. OwesTodo(f, nw, q, s) BY DEF Owes, OwesTodo, InPlace, Added, Same
<1> QED BY <1>1, <1>2, <1>3, <1>4 DEF Owes

LEMMA GoalMoves ==
  ASSUME TypeOK, NEW a \in Actors, NEW s \in Actor, Goto(a, s) \/ Upset(a, s)
  PROVE  /\ act'["rev"].goal = None \/ act' = [act EXCEPT ![a] = s]
         /\ act'[a].goal = None \/ act'[a] = s
         /\ \A b \in Actors \ {a} : act'[b].goal = None \/ act'[b] = act[b]
<1> DEFINE f == [act EXCEPT ![a] = s]
<1>1. f \in [Actors -> Actor] /\ f[a] = s /\ \A b \in Actors \ {a} : f[b] = act[b]
  BY DEF TypeOK, ActorsOK
<1>2. CASE act' = [f EXCEPT !["rev"].goal = None]
  <2> HIDE DEF f
  <2>1. "rev" \in Actors /\ f["rev"] \in Actor BY <1>1 DEF Actors
  <2> DEFINE q == [f["rev"] EXCEPT !.goal = None]
  <2>2. q.goal = None BY <2>1 DEF Actor
  <2>3. act' = [f EXCEPT !["rev"] = q] BY <1>2
  <2> HIDE DEF q
  <2>4. act'["rev"] = q /\ \A b \in Actors \ {"rev"} : act'[b] = f[b] BY <1>1, <2>1, <2>3
  <2> QED BY <1>1, <2>2, <2>4
<1>3. CASE act' = f BY <1>1, <1>3
<1> QED BY <1>2, <1>3 DEF Goto, Upset

LEMMA NeatMoves ==
  ASSUME TypeOK, \A b \in Actors : Neat(act[b]), NEW a \in Actors, NEW s \in Actor, Neat(s),
         Goto(a, s) \/ Upset(a, s)
  PROVE  \A b \in Actors : Neat(act'[b])
<1>1. ASSUME NEW r \in Actor, NEW q, Same(q, r), Neat(r), q.goal = None \/ q = r
      PROVE  Neat(q)
  BY <1>1 DEF Neat, Same
<1>2. Same(act'[a], s) /\ \A b \in Actors \ {a} : Same(act'[b], act[b]) BY ActorMoves
<1>3. \A b \in Actors : act[b] \in Actor BY DEF TypeOK, ActorsOK
<1>4. /\ act'[a].goal = None \/ act'[a] = s
      /\ \A b \in Actors \ {a} : act'[b].goal = None \/ act'[b] = act[b]
  BY GoalMoves
<1> QED BY <1>1, <1>2, <1>3, <1>4

LEMMA UpsetGoal ==
  ASSUME TypeOK, NEW a \in Actors, NEW s \in Actor, Upset(a, s)
  PROVE  act'["rev"].goal = None
<1> DEFINE f == [act EXCEPT ![a] = s]
           q == [f["rev"] EXCEPT !.goal = None]
<1>1. "rev" \in Actors BY DEF Actors
<1>2. f \in [Actors -> Actor] BY DEF TypeOK, ActorsOK
<1>3. q.goal = None BY <1>1, <1>2 DEF Actor
<1>4. act' = [f EXCEPT !["rev"] = q] BY DEF Upset
<1> HIDE DEF f, q
<1> QED BY <1>1, <1>2, <1>3, <1>4

\* One at work takes a step.
LEMMA RollStep ==
  ASSUME TypeOK, RollInv, NEW a \in Actors, act[a].pc # "idle", NEW s \in Actor,
         Goto(a, s) \/ Upset(a, s), Neat(s), snap' \in {snap, None},
         snap' # None /\ Sole(a) /\ Owes(card, new, act[a], snap) => Owes(card', new', s, snap),
         Goto(a, s) /\ a = "rev" /\ s.goal # None =>
           act[a].goal = s.goal /\ (Sole(a) /\ Due(card, new, act[a]) => Due(card', new', s))
  PROVE  RollInv'
<1>1. Same(act'[a], s) /\ \A b \in Actors \ {a} : Same(act'[b], act[b]) BY ActorMoves
<1>2. SnapInv'
  <2> SUFFICES ASSUME snap' # None PROVE \E b \in Actors : Sole(b)' /\ Owes(card', new', act'[b], snap')
    BY DEF SnapInv
  <2>1. snap' = snap /\ snap # None OBVIOUS
  <2>2. PICK c \in Actors : Sole(c) /\ Owes(card, new, act[c], snap) BY <2>1 DEF RollInv, SnapInv
  <2>3. c = a BY <2>2 DEF Sole
  <2>4. Owes(card', new', s, snap) BY <2>2, <2>3
  <2>5. Owes(card', new', act'[a], snap) BY <1>1, <2>4, SameOwes
  <2>6. Sole(a)' BY <1>1, <2>2, <2>3 DEF Sole, Same
  <2> QED BY <2>1, <2>5, <2>6
<1>3. act'["rev"].goal = None \/ act' = [act EXCEPT ![a] = s] BY GoalMoves
<1>4. "rev" \in Actors BY DEF Actors
<1>5. GoalInv'
  <2> SUFFICES ASSUME act'["rev"].goal # None PROVE Sole("rev")' /\ Due(card', new', act'["rev"])
    BY DEF GoalInv
  <2>1. act' = [act EXCEPT ![a] = s] BY <1>3
  <2>2. act'[a] = s /\ \A b \in Actors \ {a} : act'[b] = act[b] BY <2>1 DEF TypeOK, ActorsOK
  <2>3. Goto(a, s) BY <2>1 DEF Goto
  <2>4. a = "rev"
    <3> SUFFICES ASSUME a # "rev" PROVE FALSE OBVIOUS
    <3>1. act["rev"].goal # None BY <1>4, <2>2
    <3>2. Sole("rev") BY <3>1 DEF RollInv, GoalInv
    <3> QED BY <3>2 DEF Sole
  <2>5. s.goal # None BY <2>2, <2>4
  <2>6. act["rev"].goal # None BY <2>3, <2>4, <2>5
  <2>7. Sole("rev") /\ Due(card, new, act["rev"]) BY <2>6 DEF RollInv, GoalInv
  <2>8. Sole("rev")' BY <2>2, <2>4, <2>7 DEF Sole
  <2>9. Due(card', new', s) BY <2>3, <2>4, <2>5, <2>7
  <2> QED BY <2>2, <2>4, <2>8, <2>9
<1>6. \A b \in Actors : Neat(act'[b]) BY NeatMoves DEF RollInv
<1> QED BY <1>2, <1>5, <1>6 DEF RollInv

-----------------------------------------------------------------------------
(* ... through the extra files. *)

\* What most steps leave as it is.
Kin(s, r) == /\ s.op = r.op /\ s.label = r.label /\ s.src = r.src /\ s.root = r.root
             /\ s.dest = r.dest /\ s.old = r.old /\ s.ok = r.ok /\ s.goal = r.goal

\* What is used of a state.
LEMMA RollFacts ==
  ASSUME IInv, RollInv, NEW a \in Actors
  PROVE  /\ TypeOK /\ CardOK /\ act[a] \in Actor /\ RecOK(act[a]) /\ Neat(act[a])
         /\ act[a].pc # "idle" => Knows(act[a])
         /\ snap # None => snap.label \in Labels /\ snap \in Snaps
         /\ None \notin Extras
BY ActorFacts, UpdatesAssumption DEF IInv, TypeOK, ActorsOK, DataInv, RollInv, Fit, Snaps

LEMMA CopyBeginFacts ==
  ASSUME IInv, RollInv, NEW a \in Actors, NEW e \in Extras, CopyBegin(a, e)
  PROVE  \E s \in Actor :
           /\ Goto(a, s) /\ Kin(s, act[a]) /\ s.todo = act[a].todo \ {e} /\ Neat(s)
           /\ \/ /\ card' = card /\ s.pc = "extras" /\ s.added = act[a].added
                 /\ LeftAlone(act[a], e) \/ Open(a, Extra(e))
              \/ /\ s.pc = "copy" /\ s.cur = e
                 /\ card' = [(IF KeepFirst(a, e) THEN Moved(a, Extra(e), File(act[a].root, e))
                              ELSE card) EXCEPT ![Extra(e)] = Torn]
                 /\ s.added = act[a].added \cup
                      (IF act[a].root # None /\ ~Exists(Extra(e)) THEN {e} ELSE {})
<1> DEFINE r == act[a]
           moves == KeepFirst(a, e)
           left == IF moves THEN Moved(a, Extra(e), File(r.root, e)) ELSE card
           adds == IF r.root # None /\ ~Exists(Extra(e)) THEN {e} ELSE {}
           todo == r.todo \ {e}
           added == r.added \cup adds
           skip == [r EXCEPT !.todo = todo]
           s == [[r EXCEPT !.todo = todo, !.added = added]
                   EXCEPT !.pc = "copy", !.cur = e, !.moved = moves]
<1>1. /\ r.pc = "extras"
      /\ \/ card' = card /\ Goto(a, skip) /\ (LeftAlone(r, e) \/ Open(a, Extra(e)))
         \/ card' = [left EXCEPT ![Extra(e)] = Torn] /\ Goto(a, s)
  BY DEF CopyBegin, At
<1>2. r \in Actor /\ Neat(r) BY RollFacts
<1>3. todo \in SUBSET Extras /\ added \in SUBSET Extras /\ moves \in BOOLEAN
  BY <1>2 DEF Actor, KeepFirst
<1>4. CASE card' = card /\ Goto(a, skip) /\ (LeftAlone(r, e) \/ Open(a, Extra(e)))
  <2> HIDE DEF todo
  <2>1. skip \in Actor BY <1>2, <1>3 DEF Actor
  <2>2. Kin(skip, r) /\ skip.pc = "extras" /\ skip.todo = todo /\ skip.added = r.added
    BY <1>1, <1>2 DEF Actor, Kin
  <2> HIDE DEF skip
  <2>3. Neat(skip) BY <1>1, <1>2, <2>2 DEF Neat, Kin, Filling
  <2> QED BY <1>4, <2>1, <2>2, <2>3 DEF todo
<1>5. CASE card' = [left EXCEPT ![Extra(e)] = Torn] /\ Goto(a, s)
  <2> HIDE DEF todo, added, moves
  <2> DEFINE u == [r EXCEPT !.todo = todo, !.added = added]
  <2>1. u \in Actor BY <1>2, <1>3 DEF Actor
  <2>2. Kin(u, r) /\ u.pc = "extras" /\ u.todo = todo /\ u.added = added
    BY <1>1, <1>2 DEF Actor, Kin
  <2>3. s = [u EXCEPT !.pc = "copy", !.cur = e, !.moved = moves] OBVIOUS
  <2> HIDE DEF u, s
  <2>4. s \in Actor BY ZenonT(30), <1>3, <2>1, <2>3 DEF Actor, Pcs
  <2>5. Kin(s, r) /\ s.pc = "copy" /\ s.cur = e /\ s.todo = todo /\ s.added = added
    BY <2>1, <2>2, <2>3 DEF Actor, Kin
  <2>6. Neat(s) BY <1>1, <1>2, <2>5 DEF Neat, Kin, Filling, todo, added
  <2> QED BY <1>5, <2>4, <2>5, <2>6 DEF todo, added, moves
<1> QED BY <1>1, <1>4, <1>5

\* Of the files only e, and what the backup called root has of it, change.
LEMMA OnlyPair ==
  ASSUME CardOK, NEW e \in Extras, NEW root \in Labels \cup {None},
         \A x \in Paths \ {Extra(e), File(root, e)} : card'[x] = card[x],
         root = None => \A x \in Paths \ {Extra(e)} : card'[x] = card[x]
  PROVE  /\ \A x \in Extras \ {e} : card'[Extra(x)] = card[Extra(x)]
         /\ \A l \in Labels, x \in Extras :
              l # root \/ x # e => card'[File(l, x)] = card[File(l, x)]
         /\ \A n \in Names : card'[Nro(n)] = card[Nro(n)]
         /\ \A l \in Labels : card'[Kept(l)] = card[Kept(l)]
<1> DEFINE p == Extra(e)
           q == File(root, e)
<1>1. /\ \A x \in Extras : Extra(x) \in Paths /\ Extra(x) # q /\ (Extra(x) = p => x = e)
      /\ \A l, x : File(l, x) # p /\ (File(l, x) = q => l = root /\ x = e)
      /\ \A l \in Labels, x \in Extras : File(l, x) \in Paths
      /\ \A n \in Names : Nro(n) \in Paths \ {p, q}
      /\ \A l \in Labels : Kept(l) \in Paths \ {p, q}
  <2>1. \A x \in Extras : Extra(x) \in Paths /\ Extra(x) # q /\ (Extra(x) = p => x = e)
    <3>1. \A x \in Extras : Extra(x) \in Paths BY PathFacts
    <3>2. \A x : Extra(x) # q /\ (Extra(x) = p => x = e) BY Apart
    <3> QED BY <3>1, <3>2
  <2>2. \A l, x : File(l, x) # p /\ (File(l, x) = q => l = root /\ x = e) BY Apart
  <2>3. \A l \in Labels, x \in Extras : File(l, x) \in Paths BY PathFacts
  <2>4. \A n \in Names : Nro(n) \in Paths \ {p, q}
    <3>1. \A n \in Names : Nro(n) \in Paths BY PathFacts
    <3>2. \A n : Nro(n) # p /\ Nro(n) # q BY Apart
    <3> QED BY <3>1, <3>2
  <2>5. \A l \in Labels : Kept(l) \in Paths \ {p, q}
    <3>1. \A l \in Labels : Kept(l) \in Paths BY PathFacts
    <3>2. \A l : Kept(l) # p /\ Kept(l) # q BY Apart
    <3> QED BY <3>1, <3>2
  <2> QED BY <2>1, <2>2, <2>3, <2>4, <2>5
<1> HIDE DEF p, q
<1> QED BY <1>1 DEF p, q

\* The files a copy begins with, of one that is alone.
LEMMA CopyBeginCard ==
  ASSUME CardOK, NEW a \in Actors, Alone(a), NEW e \in Extras,
         act[a].root \in Labels \cup {None},
         card' = [(IF KeepFirst(a, e) THEN Moved(a, Extra(e), File(act[a].root, e))
                   ELSE card) EXCEPT ![Extra(e)] = Torn]
  PROVE  /\ card'[Extra(e)] = Torn
         /\ \A x \in Extras \ {e} : card'[Extra(x)] = card[Extra(x)]
         /\ \A l \in Labels, x \in Extras :
              l # act[a].root \/ x # e => card'[File(l, x)] = card[File(l, x)]
         /\ act[a].root # None =>
              card'[File(act[a].root, e)] =
                IF card[File(act[a].root, e)] = None THEN card[Extra(e)]
                                                     ELSE card[File(act[a].root, e)]
         /\ \A n \in Names : card'[Nro(n)] = card[Nro(n)]
         /\ \A l \in Labels : card'[Kept(l)] = card[Kept(l)]
<1> DEFINE root == act[a].root
           p == Extra(e)
           q == File(root, e)
<1>1. p \in Paths /\ p # q /\ (root # None => q \in Paths)
  <2>1. p \in Paths BY PathFacts
  <2>2. p # q BY Apart
  <2>3. root # None => q \in Paths BY PathFacts
  <2> QED BY <2>1, <2>2, <2>3
<1>2. KeepFirst(a, e) <=> root # None /\ card[q] = None /\ card[p] # None
  BY AloneFacts DEF KeepFirst, Exists
<1>3. KeepFirst(a, e) => Moved(a, p, q) = [card EXCEPT ![q] = card[p], ![p] = None]
  BY AloneFacts
<1>4. /\ card'[p] = Torn /\ \A x \in Paths \ {p, q} : card'[x] = card[x]
      /\ root # None => card'[q] = IF card[q] = None THEN card[p] ELSE card[q]
      /\ root = None => \A x \in Paths \ {p} : card'[x] = card[x]
  <2> HIDE DEF p, q, root
  <2>1. CASE KeepFirst(a, e)
    <3>1. card' = [[card EXCEPT ![q] = card[p], ![p] = None] EXCEPT ![p] = Torn]
      BY <1>3, <2>1 DEF p, q, root
    <3> QED BY <1>1, <1>2, <2>1, <3>1 DEF CardOK
  <2>2. CASE ~KeepFirst(a, e)
    <3>1. card' = [card EXCEPT ![p] = Torn] BY <2>2 DEF p
    <3> QED BY <1>1, <1>2, <2>2, <3>1 DEF CardOK
  <2> QED BY <2>1, <2>2
<1>5. root \in Labels \cup {None} OBVIOUS
<1> QED BY <1>4, <1>5, OnlyPair DEF p, q, root

LEMMA CopyBeginRolls ==
  ASSUME IInv, RollInv, NEW a \in Actors, NEW e \in Extras, CopyBegin(a, e)
  PROVE  RollInv'
<1> DEFINE r == act[a]
           l == snap.label
<1>1. r.pc = "extras" /\ e \in r.todo /\ new' = new /\ snap' = snap
  BY DEF CopyBegin, At, First, book
<1>2. /\ TypeOK /\ CardOK /\ r \in Actor /\ Knows(r) /\ RecOK(r) /\ Neat(r)
      /\ (snap # None => l \in Labels)
  BY <1>1, RollFacts
<1>3. PICK s \in Actor :
           /\ Goto(a, s) /\ Kin(s, r) /\ s.todo = r.todo \ {e} /\ Neat(s)
           /\ \/ /\ card' = card /\ s.pc = "extras" /\ s.added = r.added
                 /\ LeftAlone(r, e) \/ Open(a, Extra(e))
              \/ /\ s.pc = "copy" /\ s.cur = e
                 /\ card' = [(IF KeepFirst(a, e) THEN Moved(a, Extra(e), File(r.root, e))
                              ELSE card) EXCEPT ![Extra(e)] = Torn]
                 /\ s.added = r.added \cup
                      (IF r.root # None /\ ~Exists(Extra(e)) THEN {e} ELSE {})
  BY CopyBeginFacts
<1>4. CASE card' = card /\ s.pc = "extras" /\ s.added = r.added
           /\ (LeftAlone(r, e) \/ Open(a, Extra(e)))
  <2>1. ASSUME snap # None, Owes(card, new, r, snap) PROVE Owes(card', new', s, snap)
    <3>1. Added(new', s, snap) = Added(new, r, snap) BY <1>1, <1>4 DEF Added
    <3>2. OwesFiles(card', new', s, snap) BY <1>4, <2>1, <3>1 DEF Owes, OwesFiles, Saved
    <3>3. OwesBuild(card', s, snap)
      BY <1>1, <1>3, <1>4, <2>1 DEF Owes, OwesBuild, Early, Filling, Kin
    <3>4. OwesPlan(s, snap) BY <1>1, <1>3, <1>4, <2>1 DEF Owes, OwesPlan, Filling, Kin
    <3>5. OwesTodo(card', new', s, snap)
      BY <1>1, <1>3, <1>4, <2>1, <3>1 DEF Owes, OwesTodo, Filling, Ahead, Kin, InPlace
    <3> QED BY <3>2, <3>3, <3>4, <3>5 DEF Owes
  <2>2. Sole(a) => r.op # "rollback"
    BY <1>4, SoleIsAlone, AloneFacts DEF LeftAlone
  <2> QED BY <1>1, <1>2, <1>3, <2>1, <2>2, RollStep DEF Due, DueBuild, Kin
<1>5. CASE /\ s.pc = "copy" /\ s.cur = e
           /\ card' = [(IF KeepFirst(a, e) THEN Moved(a, Extra(e), File(r.root, e))
                        ELSE card) EXCEPT ![Extra(e)] = Torn]
           /\ s.added = r.added \cup (IF r.root # None /\ ~Exists(Extra(e)) THEN {e} ELSE {})
  <2>0. ASSUME Sole(a)
        PROVE  /\ card'[Extra(e)] = Torn /\ Torn # None
               /\ \A x \in Extras \ {e} : card'[Extra(x)] = card[Extra(x)]
               /\ \A k \in Labels, x \in Extras :
                    k # r.root \/ x # e => card'[File(k, x)] = card[File(k, x)]
               /\ r.root # None =>
                    card'[File(r.root, e)] = IF card[File(r.root, e)] = None THEN card[Extra(e)]
                                                                 ELSE card[File(r.root, e)]
               /\ \A n \in Names : card'[Nro(n)] = card[Nro(n)]
               /\ \A k \in Labels : card'[Kept(k)] = card[Kept(k)]
    <3>1. r.root \in Labels \cup {None} BY <1>2 DEF Actor
    <3> QED BY <1>2, <1>5, <2>0, <3>1, SoleIsAlone, CopyBeginCard, ContentFacts
  <2>1. ASSUME snap # None, Sole(a), Owes(card, new, r, snap) PROVE Owes(card', new', s, snap)
    <3> DEFINE gone == Added(new, r, snap)
               adds == IF r.root # None /\ ~Exists(Extra(e)) THEN {e} ELSE {}
               was(x) == card[File(l, x)]
               is(x) == card'[File(l, x)]
    <3>1. Added(new', s, snap) = gone \cup adds BY <1>1, <1>5 DEF Added
    <3>2. r.root = l \/ (r.root = None /\ was(e) # None)
      BY <1>1, <2>1 DEF Owes, OwesPlan, OwesTodo, Filling
    <3>3. /\ is(e) = IF r.root = None \/ was(e) # None THEN was(e) ELSE card[Extra(e)]
          /\ \A x \in Extras \ {e} : is(x) = was(x) /\ card'[Extra(x)] = card[Extra(x)]
      <4>1. e \in Extras /\ l \in Labels BY <1>2, <2>1
      <4>2. \A x \in Extras \ {e} : is(x) = was(x) BY <2>0, <2>1, <4>1
      <4>3. CASE r.root = None
        <5>1. l # r.root BY <3>2, <4>1, <4>3, <2>1, UpdatesAssumption
        <5> QED BY <2>0, <2>1, <4>1, <4>3, <5>1
      <4>4. CASE r.root # None
        <5>1. r.root = l BY <3>2, <4>4
        <5>2. card'[File(r.root, e)] = IF card[File(r.root, e)] = None THEN card[Extra(e)]
                                                          ELSE card[File(r.root, e)]
          BY <2>0, <2>1, <4>4
        <5>3. is(e) = IF was(e) = None THEN card[Extra(e)] ELSE was(e) BY <5>1, <5>2
        <5> QED BY <2>0, <2>1, <4>2, <4>4, <5>3
      <4> QED BY <2>0, <2>1, <4>2, <4>3, <4>4
    <3>4. /\ e \in Theirs => InPlace(card, l, gone, e) /\ Saved(card, snap, gone, e)
          /\ \A x \in Theirs : Saved(card, snap, gone, x)
      BY <1>1, <2>1 DEF Owes, OwesFiles, OwesTodo, Filling
    <3>5. adds = IF r.root # None /\ card[Extra(e)] = None THEN {e} ELSE {} BY DEF Exists
    <3> HIDE DEF gone, adds
    <3>6. e \in Theirs => /\ Saved(card', snap, gone \cup adds, e)
                          /\ e \in gone \cup adds \/ is(e) # None
      <4> SUFFICES ASSUME e \in Theirs
                   PROVE  Saved(card', snap, gone \cup adds, e)
                          /\ (e \in gone \cup adds \/ is(e) # None)
        OBVIOUS
      <4>1. InPlace(card, l, gone, e) /\ Saved(card, snap, gone, e) BY <3>4
      <4>2. CASE was(e) # None
        <5>1. is(e) = was(e) BY <3>3, <4>2
        <5>2. e \notin gone => adds = {} BY <3>5, <4>1, <4>2 DEF InPlace
        <5> QED BY <4>1, <4>2, <5>1, <5>2 DEF Saved
      <4>3. CASE was(e) = None
        <5>0. l # None BY <1>2, <2>1, UpdatesAssumption
        <5>1. r.root # None /\ is(e) = card[Extra(e)] BY <3>2, <3>3, <4>3, <5>0
        <5>2. (adds = IF card[Extra(e)] = None THEN {e} ELSE {}) BY <3>5, <5>1
        <5> QED BY <4>1, <4>3, <5>1, <5>2 DEF Saved
      <4> QED BY <4>2, <4>3
    <3>7. \A x \in Theirs \ {e} : Saved(card', snap, gone \cup adds, x)
      BY <3>3, <3>4, <3>5 DEF Saved, Theirs
    <3>8. OwesFiles(card', new', s, snap) BY <3>1, <3>6, <3>7 DEF OwesFiles
    <3>9. OwesBuild(card', s, snap)
      BY <1>1, <1>2, <1>3, <1>5, <2>0, <2>1 DEF Owes, OwesBuild, Early, Filling, Kin, Knows
    <3>10. OwesPlan(s, snap) BY <1>1, <1>3, <1>5, <2>1 DEF Owes, OwesPlan, Filling, Kin
    <3>11. \A x \in Theirs \cap s.todo : InPlace(card', l, gone \cup adds, x)
      <4> SUFFICES ASSUME NEW x \in Theirs \cap s.todo PROVE InPlace(card', l, gone \cup adds, x)
        OBVIOUS
      <4>1. x \in Extras \ {e} /\ x \in r.todo BY <1>3 DEF Theirs
      <4>2. InPlace(card, l, gone, x)
        BY <1>1, <2>1, <4>1 DEF Owes, OwesTodo, Filling, gone
      <4> QED BY <3>3, <3>5, <4>1, <4>2 DEF InPlace
    <3>12. r.root = None => \A x \in s.todo : is(x) # None
      <4> SUFFICES ASSUME r.root = None, NEW x \in s.todo PROVE is(x) # None OBVIOUS
      <4>1. x \in Extras \ {e} /\ x \in r.todo BY <1>2, <1>3 DEF Actor
      <4>2. was(x) # None BY <1>1, <2>1, <4>1 DEF Owes, OwesTodo, Filling
      <4> QED BY <3>3, <4>1, <4>2
    <3>13. OwesTodo(card', new', s, snap)
      BY <1>3, <1>5, <3>1, <3>6, <3>11, <3>12 DEF OwesTodo, Ahead, Kin
    <3> QED BY <3>8, <3>9, <3>10, <3>13 DEF Owes
  <2>2. ASSUME Sole(a), Due(card, new, r) PROVE Due(card', new', s)
    <3>1. r.op = "rollback" /\ r.src \in Labels /\ r.dest \in Names
      BY <1>2, <2>2 DEF Due, DueBuild, Knows
    <3>2. DueBuild(card', s)
      BY <1>1, <1>3, <1>5, <2>0, <2>2, <3>1 DEF Due, DueBuild, Filling, Ahead, Kin
    <3>3. r.root # r.src /\ \A x \in Theirs : CopyBack(card, new, r, x)
      BY <1>1, <2>2 DEF Due, DueFiles, Filling
    <3>4. /\ \A x \in Extras : card'[File(r.src, x)] = card[File(r.src, x)]
          /\ \A x \in Extras \ {e} : card'[Extra(x)] = card[Extra(x)]
      BY <2>0, <2>2, <3>1, <3>3
    <3>5. \A x \in Theirs : CopyBack(card', new', s, x)
      <4> SUFFICES ASSUME NEW x \in Theirs PROVE CopyBack(card', new', s, x) OBVIOUS
      <4>1. x \in Extras /\ CopyBack(card, new, r, x) BY <3>3 DEF Theirs
      <4> QED BY <1>1, <1>3, <1>5, <3>4, <4>1 DEF CopyBack, Kin
    <3>6. DueFiles(card', new', s)
      BY <1>3, <1>5, <3>3, <3>5 DEF DueFiles, Filling, Ahead, Kin
    <3> QED BY <3>2, <3>6 DEF Due
  <2>3. s.goal = r.goal BY <1>3 DEF Kin
  <2> QED BY <1>1, <1>2, <1>3, <2>1, <2>2, <2>3, RollStep
<1> QED BY <1>3, <1>4, <1>5

\* A fault: nothing is owed any more.
LEMMA RollForgets ==
  ASSUME TypeOK, RollInv, NEW a \in Actors, act[a].pc # "idle", NEW s \in Actor,
         Upset(a, s), Neat(s), snap' = None
  PROVE  RollInv'
<1>1. Goto(a, s) /\ a = "rev" => s.goal = None
  <2> SUFFICES ASSUME Goto(a, s), a = "rev" PROVE s.goal = None OBVIOUS
  <2> DEFINE f == [act EXCEPT ![a] = s]
             q == [f["rev"] EXCEPT !.goal = None]
  <2>1. f \in [Actors -> Actor] /\ f["rev"] = s BY DEF TypeOK, ActorsOK
  <2>2. act' = [f EXCEPT !["rev"] = q] BY DEF Upset
  <2>3. act' = f BY DEF Goto
  <2>4. q.goal = None BY <2>1 DEF Actor
  <2> HIDE DEF f, q
  <2>5. act'["rev"] = q BY <2>1, <2>2
  <2> QED BY <2>1, <2>3, <2>4, <2>5
<1> QED BY <1>1, RollStep

LEMMA CopyEndRolls == ASSUME IInv, RollInv, NEW a \in Actors, CopyEnd(a) PROVE RollInv'
<1> DEFINE r == act[a]
           c == r.cur
           s == [r EXCEPT !.pc = "extras", !.cur = None, !.moved = FALSE]
<1>1. /\ r.pc = "copy" /\ Goto(a, s) /\ new' = new /\ snap' = snap
      /\ card' = [card EXCEPT ![Extra(c)] = Source(r, c)]
  BY DEF CopyEnd, At, book
<1>2. /\ TypeOK /\ CardOK /\ r \in Actor /\ Knows(r) /\ Neat(r)
      /\ (snap # None => snap.label \in Labels)
  BY <1>1, RollFacts
<1>3. s \in Actor BY ZenonT(30), <1>2 DEF Actor, Pcs
<1>4. Kin(s, r) /\ s.pc = "extras" /\ s.todo = r.todo /\ s.added = r.added
  BY <1>2 DEF Actor, Kin
<1>5. Neat(s) BY <1>1, <1>2, <1>4 DEF Neat, Kin, Filling
<1>6. c \in Extras /\ c \notin r.todo BY <1>1, <1>2 DEF Knows, Neat
<1>7. /\ card'[Extra(c)] = Source(r, c)
      /\ \A x \in Extras \ {c} : card'[Extra(x)] = card[Extra(x)]
      /\ \A k \in Labels, x \in Extras : card'[File(k, x)] = card[File(k, x)]
      /\ \A n \in Names : card'[Nro(n)] = card[Nro(n)]
      /\ \A k \in Labels : card'[Kept(k)] = card[Kept(k)]
  <2> DEFINE p == Extra(c)
  <2>1. p \in Paths BY <1>6, PathFacts
  <2>2. /\ \A x : Extra(x) = p => x = c
        /\ \A k, x : File(k, x) # p
        /\ \A n : Nro(n) # p /\ Kept(n) # p
    BY Apart
  <2> HIDE DEF p
  <2>3. card'[p] = Source(r, c) /\ \A x \in Paths \ {p} : card'[x] = card[x]
    BY <1>1, <1>2, <2>1 DEF CardOK, p
  <2>4. card'[Extra(c)] = Source(r, c) BY <2>3 DEF p
  <2> QED BY <2>2, <2>3, <2>4, PathFacts
<1> HIDE DEF s, c
<1>8. ASSUME snap # None, Owes(card, new, r, snap) PROVE Owes(card', new', s, snap)
  <2>0. snap.label \in Labels BY <1>2, <1>8
  <2> DEFINE gone == Added(new, r, snap)
  <2>1. Added(new', s, snap) = gone BY <1>1, <1>4 DEF Added
  <2>2. \A x \in Theirs : Saved(card, snap, gone, x) BY <1>8 DEF Owes, OwesFiles
  <2>3. c \in Theirs => c \in gone \/ card[File(snap.label, c)] # None
    BY <1>1, <1>8 DEF Owes, OwesTodo, c
  <2> HIDE DEF gone
  <2>4. \A x \in Theirs : Saved(card', snap, gone, x)
    BY <1>7, <2>0, <2>2, <2>3 DEF Saved, Theirs
  <2>5. OwesFiles(card', new', s, snap) BY <2>1, <2>4 DEF OwesFiles
  <2>6. OwesBuild(card', s, snap)
    BY <1>1, <1>2, <1>4, <1>7, <1>8, <2>0 DEF Owes, OwesBuild, Early, Filling, Kin, Knows
  <2>7. OwesPlan(s, snap) BY <1>1, <1>4, <1>8 DEF Owes, OwesPlan, Filling, Kin
  <2>8. \A x \in Theirs \cap s.todo : InPlace(card', snap.label, gone, x)
    <3> SUFFICES ASSUME NEW x \in Theirs \cap s.todo PROVE InPlace(card', snap.label, gone, x)
      OBVIOUS
    <3>1. x \in Extras \ {c} /\ x \in r.todo BY <1>4, <1>6 DEF Theirs
    <3>2. InPlace(card, snap.label, gone, x)
      BY <1>1, <1>8, <3>1 DEF Owes, OwesTodo, Filling, gone
    <3> QED BY <1>7, <2>0, <3>1, <3>2 DEF InPlace
  <2>9. r.root = None => \A x \in s.todo : card'[File(snap.label, x)] # None
    <3> SUFFICES ASSUME r.root = None, NEW x \in s.todo
                 PROVE  card'[File(snap.label, x)] # None
      OBVIOUS
    <3>1. x \in Extras /\ x \in r.todo BY <1>2, <1>4 DEF Actor
    <3>2. card[File(snap.label, x)] # None BY <1>1, <1>8, <3>1 DEF Owes, OwesTodo, Filling
    <3> QED BY <1>7, <2>0, <3>1, <3>2
  <2>10. OwesTodo(card', new', s, snap)
    BY <1>4, <2>1, <2>8, <2>9 DEF OwesTodo, Ahead, Kin
  <2> QED BY <2>5, <2>6, <2>7, <2>10 DEF Owes
<1>9. ASSUME Due(card, new, r) PROVE Due(card', new', s)
  <2>1. r.op = "rollback" /\ r.src \in Labels /\ r.dest \in Names
    BY <1>2, <1>9 DEF Due, DueBuild, Knows
  <2>2. DueBuild(card', s)
    BY <1>1, <1>4, <1>7, <1>9, <2>1 DEF Due, DueBuild, Filling, Ahead, Kin
  <2>3. r.root # r.src /\ \A x \in Theirs : CopyBack(card, new, r, x)
    BY <1>1, <1>9 DEF Due, DueFiles, Filling
  <2>4. \A x \in Theirs : CopyBack(card', new', s, x)
    <3> SUFFICES ASSUME NEW x \in Theirs PROVE CopyBack(card', new', s, x) OBVIOUS
    <3>1. x \in Extras /\ CopyBack(card, new, r, x) BY <2>3 DEF Theirs
    <3>2. card'[File(r.src, x)] = card[File(r.src, x)] BY <1>7, <2>1, <3>1
    <3>3. CASE x = c
      <4>1. card'[Extra(x)] = card[File(r.src, x)] BY <1>7, <2>1, <3>3 DEF Source
      <4> QED BY <1>1, <1>4, <1>6, <3>1, <3>2, <3>3, <4>1 DEF CopyBack, Kin, c
    <3>4. CASE x # c
      <4>1. card'[Extra(x)] = card[Extra(x)] BY <1>7, <3>1, <3>4
      <4> QED BY <1>1, <1>4, <3>1, <3>2, <3>4, <4>1 DEF CopyBack, Kin, c
    <3> QED BY <3>3, <3>4
  <2>5. DueFiles(card', new', s)
    BY <1>4, <2>3, <2>4 DEF DueFiles, Filling, Ahead, Kin
  <2> QED BY <2>2, <2>5 DEF Due
<1>10. s.goal = r.goal BY <1>4 DEF Kin
<1> QED BY <1>1, <1>2, <1>3, <1>5, <1>8, <1>9, <1>10, RollStep

LEMMA CopyFailsRolls == ASSUME IInv, RollInv, NEW a \in Actors, CopyFails(a) PROVE RollInv'
<1> DEFINE r == act[a]
           s == [r EXCEPT !.pc = "extras", !.cur = None, !.moved = FALSE]
<1>1. r.pc = "copy" /\ Upset(a, s) /\ snap' = None BY DEF CopyFails, At
<1>2. TypeOK /\ r \in Actor /\ Neat(r) BY RollFacts
<1>3. s \in Actor BY ZenonT(30), <1>2 DEF Actor, Pcs
<1>4. s.pc = "extras" /\ s.root = r.root /\ s.added = r.added BY <1>2 DEF Actor
<1>5. Neat(s) BY <1>1, <1>2, <1>4 DEF Neat, Filling
<1> HIDE DEF s
<1> QED BY <1>1, <1>2, <1>3, <1>5, RollForgets

LEMMA CopyDoneRolls == ASSUME IInv, RollInv, NEW a \in Actors, CopyDone(a) PROVE RollInv'
<1> DEFINE r == act[a]
           back == r.op = "rollback"
           pc == IF back THEN "rnew" ELSE "keep"
           todo == IF back THEN new[r.src] ELSE {}
           s == [r EXCEPT !.added = {}, !.pc = pc, !.todo = todo]
<1>1. /\ r.pc = "extras" /\ r.todo = {} /\ Goto(a, s) /\ card' = card /\ snap' = snap
      /\ new' = IF r.root = None THEN new ELSE [new EXCEPT ![r.root] = @ \cup r.added]
  BY DEF CopyDone, At
<1>2. /\ TypeOK /\ CardOK /\ r \in Actor /\ Knows(r) /\ Neat(r)
      /\ (snap # None => snap.label \in Labels)
  BY <1>1, RollFacts
<1>3. pc \in Pcs /\ todo \in SUBSET Extras BY <1>2 DEF Pcs, Knows, CardOK
<1>4. /\ \A l \in Labels : l # r.root => new'[l] = new[l]
      /\ \A l \in Labels : new'[l] = IF l = r.root THEN new[l] \cup r.added ELSE new[l]
  <2>1. CASE r.root = None
    <3>1. \A l \in Labels : l # None BY UpdatesAssumption
    <3> QED BY <1>1, <2>1, <3>1
  <2>2. CASE r.root # None
    <3>1. new' = [new EXCEPT ![r.root] = new[r.root] \cup r.added] BY <1>1, <2>2
    <3> QED BY <1>2, <3>1 DEF CardOK
  <2> QED BY <2>1, <2>2
<1>5. r.root = None => r.added = {} BY <1>2 DEF Neat
<1> HIDE DEF pc, todo
<1>6. s \in Actor BY ZenonT(30), <1>2, <1>3 DEF Actor
<1>7. Kin(s, r) /\ s.pc = pc /\ s.todo = todo /\ s.added = {} BY <1>2 DEF Actor, Kin
<1> HIDE DEF s
<1>8. Neat(s) BY <1>7 DEF Neat, pc
<1>9. ASSUME snap # None, Owes(card, new, r, snap) PROVE Owes(card', new', s, snap)
  <2>0. snap.label \in Labels /\ snap.label # None BY <1>2, <1>9, UpdatesAssumption
  <2> DEFINE gone == Added(new, r, snap)
  <2>1. r.root = snap.label \/ (r.root = None /\ back /\ r.src = snap.label)
    BY <1>1, <1>9 DEF Owes, OwesPlan, Filling
  <2>2. Added(new', s, snap) = gone
    BY <1>4, <1>5, <1>7, <2>0, <2>1 DEF Added
  <2>3. OwesFiles(card', new', s, snap) BY <1>1, <1>9, <2>2 DEF Owes, OwesFiles, Saved
  <2>4. OwesBuild(card', s, snap)
    BY <1>1, <1>7, <1>9 DEF Owes, OwesBuild, Early, Filling, Kin, pc
  <2>5. OwesPlan(s, snap) BY <1>1, <1>7, <1>9, <2>1 DEF Owes, OwesPlan, Kin
  <2>6. r.root = None => todo \subseteq new'[snap.label]
    BY <1>4, <2>0, <2>1 DEF todo
  <2>7. OwesTodo(card', new', s, snap) BY <1>7, <2>6 DEF OwesTodo, Filling, Ahead, Kin, pc
  <2> QED BY <2>3, <2>4, <2>5, <2>7 DEF Owes
<1>10. ASSUME Due(card, new, r) PROVE Due(card', new', s)
  <2>1. r.op = "rollback" /\ s.pc = "rnew" /\ s.todo = new[r.src]
    BY <1>7, <1>10 DEF Due, DueBuild, pc, todo
  <2>2. DueBuild(card', s)
    BY <1>1, <1>7, <1>10, <2>1 DEF Due, DueBuild, Filling, Ahead, Kin
  <2>3. \A x \in Theirs : CopyBack(card, new, r, x)
    BY <1>1, <1>10 DEF Due, DueFiles, Filling
  <2>4. DueFiles(card', new', s)
    BY <1>1, <1>7, <2>1, <2>3 DEF DueFiles, CopyBack, Filling, Ahead, Kin
  <2> QED BY <2>2, <2>4 DEF Due
<1>11. s.goal = r.goal BY <1>7 DEF Kin
<1> QED BY <1>1, <1>2, <1>6, <1>8, <1>9, <1>10, <1>11, RollStep

-----------------------------------------------------------------------------
(* ... and through what is kept of the build. *)

\* The extra files of the app and those of the backup l are the same, and its list.
SameExtras(l) == /\ new'[l] = new[l]
                 /\ \A e \in Extras : /\ card'[Extra(e)] = card[Extra(e)]
                                      /\ card'[File(l, e)] = card[File(l, e)]

LEMMA OwesOn ==
  ASSUME NEW r, NEW t, NEW s, Owes(card, new, r, s), SameExtras(s.label), OwesBuild(card', t, s),
         r.added = {}, t.added = {}, t.pc \notin Filling \cup {"rnew"},
         t.pc = "idle" \/ (r.pc # "idle" /\ t.label = r.label /\ t.op = r.op),
         t.pc \in Ahead => r.pc \in Ahead
  PROVE  Owes(card', new', t, s)
<1> DEFINE gone == Added(new, r, s)
<1>1. Added(new', t, s) = gone BY DEF Added, SameExtras
<1>2. \A e \in Theirs : Saved(card, s, gone, e) BY DEF Owes, OwesFiles
<1>3. t.op = "rollback" /\ t.pc \in Ahead => \A e \in Theirs : InPlace(card, s.label, gone, e)
  BY DEF Owes, OwesTodo, Ahead
<1> HIDE DEF gone
<1>4. OwesFiles(card', new', t, s) BY <1>1, <1>2 DEF OwesFiles, Saved, SameExtras, Theirs
<1>5. OwesPlan(t, s) BY DEF Owes, OwesPlan
<1>6. OwesTodo(card', new', t, s)
  BY <1>1, <1>3 DEF OwesTodo, InPlace, SameExtras, Theirs, Filling
<1> QED BY <1>4, <1>5, <1>6 DEF Owes

LEMMA DueOn ==
  ASSUME NEW r, NEW t, Due(card, new, r), SameExtras(r.src), DueBuild(card', t),
         r.pc \in Ahead, t.pc \in Ahead \/ t.pc = "reap", t.src = r.src, t.goal = r.goal,
         t.ok = r.ok
  PROVE  Due(card', new', t)
<1>1. ~t.ok /\ r.goal.label = r.src /\ \A e \in Theirs : Saved(card, r.goal, new[r.src], e)
  BY DEF Due, DueFiles, DueBuild
<1>2. \A e \in Theirs : Saved(card', t.goal, new'[t.src], e)
  BY <1>1 DEF Saved, SameExtras, Theirs
<1>3. DueFiles(card', new', t) BY <1>1, <1>2 DEF DueFiles, Ahead, Filling
<1> QED BY <1>3 DEF Due

LEMMA PartFacts ==
  ASSUME NEW r \in Actor, Neat(r), r.pc \notin Filling, NEW x \in Pcs \ (Filling \cup {"idle"}),
         NEW s, s = [r EXCEPT !.pc = x]
  PROVE  /\ s \in Actor /\ Kin(s, r) /\ s.pc = x /\ s.todo = r.todo /\ s.restore = r.restore
         /\ r.added = {} /\ s.added = {} /\ Neat(s)
<1>1. s \in Actor /\ Kin(s, r) /\ s.pc = x /\ s.todo = r.todo /\ s.restore = r.restore
      /\ s.added = r.added
  BY DEF Actor, Kin
<1>2. r.added = {} BY DEF Neat
<1> QED BY <1>1, <1>2 DEF Neat, Filling

LEMMA KeepRolls == ASSUME IInv, RollInv, NEW a \in Actors, Keep(a) PROVE RollInv'
<1> DEFINE r == act[a]
           q == Kept(r.label)
<1>1. r.pc = "keep" /\ new' = new /\ snap' = snap BY DEF Keep, At
<1>2. /\ TypeOK /\ CardOK /\ r \in Actor /\ Knows(r) /\ Neat(r)
      /\ (snap # None => snap.label \in Labels)
  BY <1>1, RollFacts
<1>3. ASSUME NEW x \in {"park", "prune"}, Step(a, x), card' = card,
             Sole(a) /\ x = "park" => r.op = "install" \/ ~Exists(Nro(r.old)),
             Sole(a) /\ x = "prune" => Exists(Kept(r.label))
      PROVE  RollInv'
  <2> DEFINE s == [r EXCEPT !.pc = x]
  <2>1. x \in Pcs \ (Filling \cup {"idle"}) BY DEF Pcs, Filling
  <2>2. /\ s \in Actor /\ Kin(s, r) /\ s.pc = x /\ r.added = {} /\ s.added = {} /\ Neat(s)
    BY <1>1, <1>2, <2>1, PartFacts DEF Filling
  <2> HIDE DEF s
  <2>3. ASSUME snap # None, Sole(a), Owes(card, new, r, snap) PROVE Owes(card', new', s, snap)
    <3>1. r.label = snap.label /\ r.op # "install" /\ snap.nro \in Releases
      BY <1>1, <2>3 DEF Owes, OwesPlan, OwesBuild
    <3>2. card[Kept(snap.label)] = snap.nro
      BY <1>1, <1>3, <2>3, <3>1, ContentFacts DEF Owes, OwesBuild, Exists
    <3>3. OwesBuild(card', s, snap) BY <1>3, <2>2, <3>1, <3>2 DEF OwesBuild
    <3>4. SameExtras(snap.label) BY <1>1, <1>3 DEF SameExtras
    <3> QED BY <1>1, <2>2, <2>3, <3>3, <3>4, OwesOn DEF Filling, Ahead, Kin
  <2>4. ASSUME Due(card, new, r) PROVE Due(card', new', s)
    <3>1. DueBuild(card', s)
      BY <1>1, <1>3, <2>2, <2>4 DEF Due, DueBuild, Filling, Ahead, Kin
    <3>2. SameExtras(r.src) BY <1>1, <1>3 DEF SameExtras
    <3> QED BY <1>1, <2>2, <2>4, <3>1, <3>2, DueOn DEF Ahead, Kin
  <2> QED BY <1>1, <1>2, <1>3, <2>2, <2>3, <2>4, RollStep DEF Step, s, Kin
<1>4. ASSUME Step(a, "keeping"), card[q] = None, card[Nro(r.old)] # None,
             card' = [card EXCEPT ![q] = Torn]
      PROVE  RollInv'
  <2> DEFINE s == [r EXCEPT !.pc = "keeping"]
  <2>1. "keeping" \in Pcs \ (Filling \cup {"idle"}) BY DEF Pcs, Filling
  <2>2. /\ s \in Actor /\ Kin(s, r) /\ s.pc = "keeping" /\ r.added = {} /\ s.added = {}
        /\ Neat(s)
    BY <1>1, <1>2, <2>1, PartFacts DEF Filling
  <2> HIDE DEF s
  <2>3. q \in Paths /\ \A p \in Paths \ {q} : card'[p] = card[p]
    BY <1>2, <1>4, PathFacts DEF Knows, CardOK
  <2>4. /\ \A e : Extra(e) # q
        /\ \A k, e : File(k, e) # q
        /\ \A n : Nro(n) # q /\ (Kept(n) = q => n = r.label)
    BY Apart
  <2> HIDE DEF q
  <2>5. /\ \A l \in Labels : SameExtras(l)
        /\ \A n \in Names : card'[Nro(n)] = card[Nro(n)]
        /\ \A l \in Labels : l # r.label => card'[Kept(l)] = card[Kept(l)]
    BY <1>1, <2>3, <2>4, PathFacts DEF SameExtras
  <2>6. ASSUME snap # None, Sole(a), Owes(card, new, r, snap) PROVE Owes(card', new', s, snap)
    <3>1. r.label = snap.label /\ snap.nro \in Releases
      BY <1>1, <2>6 DEF Owes, OwesPlan, OwesBuild
    <3>2. card[Nro(r.old)] = snap.nro
      BY <1>1, <1>4, <2>6, <3>1, ContentFacts DEF Owes, OwesBuild, q
    <3>3. OwesBuild(card', s, snap)
      BY <1>2, <2>2, <2>5, <3>1, <3>2 DEF OwesBuild, Knows, Kin
    <3> QED BY <1>1, <1>2, <2>2, <2>5, <2>6, <3>3, OwesOn DEF Filling, Ahead, Kin
  <2>7. ASSUME Due(card, new, r) PROVE Due(card', new', s)
    <3>1. /\ r.op = "rollback" /\ r.src \in Labels /\ r.dest \in Names
          /\ r.goal.label = r.src /\ r.goal.nro \in Releases /\ card[Kept(r.src)] = r.goal.nro
      BY <1>1, <1>2, <2>7 DEF Due, DueBuild, Knows, Ahead
    <3>2. r.src # r.label BY <1>4, <3>1, ContentFacts DEF q
    <3>3. card'[Kept(r.src)] = r.goal.nro BY <2>5, <3>1, <3>2
    <3>4. DueBuild(card', s)
      BY <2>2, <3>1, <3>2, <3>3 DEF DueBuild, Filling, Ahead, Kin
    <3> QED BY <1>1, <2>2, <2>5, <2>7, <3>1, <3>4, DueOn DEF Ahead, Kin
  <2> QED BY <1>1, <1>2, <1>4, <2>2, <2>6, <2>7, RollStep DEF Step, s, Kin
<1>5. Sole(a) => ~Written(a, Nro(r.old)) /\ ~Open(a, Kept(r.label))
  BY SoleIsAlone, AloneFacts
<1> QED BY <1>3, <1>4, <1>5 DEF Keep, Exists

LEMMA KeepEndRolls == ASSUME IInv, RollInv, NEW a \in Actors, KeepEnd(a) PROVE RollInv'
<1> DEFINE r == act[a]
           q == Kept(r.label)
           s == [r EXCEPT !.pc = "prune"]
<1>1. /\ r.pc = "keeping" /\ new' = new /\ snap' = snap /\ Goto(a, s)
      /\ card' = [card EXCEPT ![q] = card[Nro(r.old)]]
  BY DEF KeepEnd, At, Step, book
<1>2. /\ TypeOK /\ CardOK /\ r \in Actor /\ Knows(r) /\ Neat(r)
      /\ (snap # None => snap.label \in Labels)
  BY <1>1, RollFacts
<1>3. "prune" \in Pcs \ (Filling \cup {"idle"}) BY DEF Pcs, Filling
<1>4. /\ s \in Actor /\ Kin(s, r) /\ s.pc = "prune" /\ r.added = {} /\ s.added = {}
      /\ Neat(s)
  BY <1>1, <1>2, <1>3, PartFacts DEF Filling
<1> HIDE DEF s
<1>5. q \in Paths /\ card'[q] = card[Nro(r.old)] /\ \A p \in Paths \ {q} : card'[p] = card[p]
  BY <1>1, <1>2, PathFacts DEF Knows, CardOK
<1>6. /\ \A e : Extra(e) # q
      /\ \A k, e : File(k, e) # q
      /\ \A n : Nro(n) # q /\ (Kept(n) = q => n = r.label)
  BY Apart
<1> HIDE DEF q
<1>7. /\ \A l \in Labels : SameExtras(l)
      /\ \A n \in Names : card'[Nro(n)] = card[Nro(n)]
      /\ \A l \in Labels : l # r.label => card'[Kept(l)] = card[Kept(l)]
  BY <1>1, <1>5, <1>6, PathFacts DEF SameExtras
<1>8. ASSUME snap # None, Owes(card, new, r, snap) PROVE Owes(card', new', s, snap)
  <2>1. /\ r.label = snap.label /\ snap.nro \in Releases /\ card[Nro(r.old)] = snap.nro
    BY <1>1, <1>8 DEF Owes, OwesPlan, OwesBuild
  <2>2. OwesBuild(card', s, snap) BY <1>4, <1>5, <2>1 DEF OwesBuild, q
  <2> QED BY <1>1, <1>2, <1>4, <1>7, <1>8, <2>2, OwesOn DEF Filling, Ahead, Kin
<1>9. ASSUME Due(card, new, r) PROVE Due(card', new', s)
  <2>1. /\ r.op = "rollback" /\ r.src \in Labels /\ r.label # r.src
        /\ r.goal.label = r.src /\ r.goal.nro \in Releases /\ card[Kept(r.src)] = r.goal.nro
    BY <1>1, <1>2, <1>9 DEF Due, DueBuild, Knows, Ahead
  <2>2. card'[Kept(r.src)] = r.goal.nro BY <1>7, <2>1
  <2>3. DueBuild(card', s) BY <1>4, <2>1, <2>2 DEF DueBuild, Filling, Ahead, Kin
  <2> QED BY <1>1, <1>4, <1>7, <1>9, <2>1, <2>3, DueOn DEF Ahead, Kin
<1> QED BY <1>1, <1>2, <1>4, <1>8, <1>9, RollStep DEF Kin

LEMMA KeepFailsRolls == ASSUME IInv, RollInv, NEW a \in Actors, KeepFails(a) PROVE RollInv'
<1> DEFINE r == act[a]
           s == [r EXCEPT !.pc = "prune"]
<1>1. r.pc = "keeping" /\ Upset(a, s) /\ snap' = None BY DEF KeepFails, At
<1>2. TypeOK /\ r \in Actor /\ Neat(r) BY RollFacts
<1>3. "prune" \in Pcs \ (Filling \cup {"idle"}) BY DEF Pcs, Filling
<1>4. s \in Actor /\ Neat(s) BY <1>1, <1>2, <1>3, PartFacts DEF Filling
<1> HIDE DEF s
<1> QED BY <1>1, <1>2, <1>4, RollForgets

LEMMA PruneRolls == ASSUME IInv, RollInv, NEW a \in Actors, Prune(a) PROVE RollInv'
<1> DEFINE r == act[a]
           ks == {Kept(l) : l \in Victims(a)}
           left == Gone(a, ks)
           bare == Victims(a) \cup {l \in Labels : left[Kept(l)] = None}
           away == {File(l, e) : l \in bare, e \in Extras}
           s == [r EXCEPT !.pc = "park"]
<1>1. /\ r.pc = "prune" /\ Goto(a, s) /\ snap' = NoMore(bare)
      /\ card' = [p \in Paths |-> IF p \in away THEN None ELSE left[p]]
      /\ new' = [l \in Labels |-> IF l \in bare THEN {} ELSE new[l]]
  BY DEF Prune, At, Step
<1>2. /\ TypeOK /\ CardOK /\ r \in Actor /\ Knows(r) /\ Neat(r)
      /\ (snap # None => snap.label \in Labels)
  BY <1>1, RollFacts
<1>3. "park" \in Pcs \ (Filling \cup {"idle"}) BY DEF Pcs, Filling
<1>4. /\ s \in Actor /\ Kin(s, r) /\ s.pc = "park" /\ r.added = {} /\ s.added = {}
      /\ Neat(s)
  BY <1>1, <1>2, <1>3, PartFacts DEF Filling
<1> HIDE DEF s
<1>5. Changes(left, ks) BY <1>2, Going
<1>6. snap' \in {snap, None} /\ (snap' # None => snap.label \notin bare) BY <1>1 DEF NoMore
<1> HIDE DEF bare
<1>7. ASSUME NEW l \in Labels, l \notin bare
      PROVE  SameExtras(l) /\ card'[Kept(l)] = left[Kept(l)]
  <2>1. new'[l] = new[l] BY <1>1, <1>7
  <2>2. /\ \A e : Extra(e) \notin ks /\ Extra(e) \notin away
        /\ \A e : File(l, e) \notin ks /\ File(l, e) \notin away
        /\ Kept(l) \notin away
    <3>1. \A e : Extra(e) \notin ks /\ File(l, e) \notin ks BY Apart
    <3>2. \A e : Extra(e) \notin away BY Apart
    <3>3. \A e : File(l, e) \notin away BY <1>7, Apart
    <3>4. Kept(l) \notin away BY Apart
    <3> QED BY <3>1, <3>2, <3>3, <3>4
  <2> HIDE DEF ks, away, left
  <2>3. \A p \in Paths \ ks : p \notin away => card'[p] = card[p] BY <1>1, <1>5 DEF Changes
  <2>4. card'[Kept(l)] = left[Kept(l)] BY <1>1, <2>2, PathFacts
  <2>5. \A e \in Extras : card'[Extra(e)] = card[Extra(e)] BY <2>2, <2>3, PathFacts
  <2>6. \A e \in Extras : card'[File(l, e)] = card[File(l, e)] BY <2>2, <2>3, PathFacts
  <2> QED BY <2>1, <2>4, <2>5, <2>6 DEF SameExtras
<1>8. \A n \in Names : card'[Nro(n)] = card[Nro(n)]
  <2>1. \A n : Nro(n) \notin ks /\ Nro(n) \notin away
    <3>1. \A n : Nro(n) \notin ks BY Apart
    <3>2. \A n : Nro(n) \notin away BY Apart
    <3> QED BY <3>1, <3>2
  <2> HIDE DEF ks, away, left
  <2> QED BY <1>1, <1>5, <2>1, PathFacts DEF Changes
<1>9. ASSUME NEW l \in Labels, l \notin Victims(a) PROVE left[Kept(l)] = card[Kept(l)]
  <2>1. Kept(l) \notin ks BY <1>9, Apart
  <2>2. Kept(l) \in Paths BY PathFacts
  <2> QED BY <1>5, <2>1, <2>2 DEF Changes
<1>10. \A l \in Labels : l \notin bare => l \notin Victims(a) /\ left[Kept(l)] # None
  BY DEF bare
<1>11. \A l \in Labels : l \notin Victims(a) /\ left[Kept(l)] # None => l \notin bare
  BY DEF bare
<1> HIDE DEF ks, left, away
<1>12. ASSUME snap' # None, Owes(card, new, r, snap) PROVE Owes(card', new', s, snap)
  <2>1. snap # None /\ snap.label \in Labels /\ snap.label \notin bare BY <1>2, <1>6, <1>12
  <2>2. SameExtras(snap.label) /\ card'[Kept(snap.label)] = card[Kept(snap.label)]
    BY <1>7, <1>9, <1>10, <2>1
  <2>3. snap.nro \in Releases /\ card[Kept(snap.label)] = snap.nro
    BY <1>1, <1>12 DEF Owes, OwesBuild, Early, Filling
  <2>4. OwesBuild(card', s, snap) BY <1>4, <2>2, <2>3 DEF OwesBuild
  <2> QED BY <1>1, <1>4, <1>12, <2>2, <2>4, OwesOn DEF Filling, Ahead, Kin
<1>13. ASSUME Due(card, new, r) PROVE Due(card', new', s)
  <2>1. /\ r.op = "rollback" /\ r.src \in Labels /\ r.goal.label = r.src
        /\ r.goal.nro \in Releases /\ card[Kept(r.src)] = r.goal.nro
    BY <1>1, <1>2, <1>13 DEF Due, DueBuild, Knows, Ahead
  <2>2. r.src \notin Victims(a) BY DEF Victims
  <2>3. SameExtras(r.src) /\ card'[Kept(r.src)] = r.goal.nro
    BY <1>7, <1>9, <1>11, <2>1, <2>2, ContentFacts
  <2>4. DueBuild(card', s) BY <1>4, <2>1, <2>3 DEF DueBuild, Filling, Ahead, Kin
  <2> QED BY <1>1, <1>4, <1>13, <2>3, <2>4, DueOn DEF Ahead, Kin
<1> QED BY <1>1, <1>2, <1>4, <1>6, <1>12, <1>13, RollStep DEF Kin

-----------------------------------------------------------------------------
(* ... and through the swap. *)

\* Of the files only builds and what is parked change.
Besides == /\ \A l \in Labels : SameExtras(l) /\ card'[Kept(l)] = card[Kept(l)]

LEMMA BuildsOnly ==
  ASSUME new' = new, NEW ps, Changes(card', ps), \A p \in ps : \E n : p = Nro(n) \/ p = Bak(n)
  PROVE  Besides
<1>1. /\ \A e : Extra(e) \notin ps
      /\ \A l, e : File(l, e) \notin ps
      /\ \A l : Kept(l) \notin ps
  <2>1. \A e, n : Extra(e) # Nro(n) /\ Extra(e) # Bak(n) BY Apart
  <2>2. \A l, e, n : File(l, e) # Nro(n) /\ File(l, e) # Bak(n) BY Apart
  <2>3. \A l, n : Kept(l) # Nro(n) /\ Kept(l) # Bak(n) BY Apart
  <2> QED BY <2>1, <2>2, <2>3
<1>2. \A e \in Extras : card'[Extra(e)] = card[Extra(e)] BY <1>1, PathFacts DEF Changes
<1>3. \A l \in Labels, e \in Extras : card'[File(l, e)] = card[File(l, e)]
  BY <1>1, PathFacts DEF Changes
<1>4. \A l \in Labels : card'[Kept(l)] = card[Kept(l)] BY <1>1, PathFacts DEF Changes
<1> QED BY <1>2, <1>3, <1>4 DEF Besides, SameExtras

\* What is owed stays so during the swap and beyond.
LEMMA OwesBesides ==
  ASSUME NEW r, NEW t, NEW s, s.label \in Labels, Owes(card, new, r, s), Besides,
         r.pc \notin {"idle", "keep", "keeping"} \cup Filling, r.added = {}, t.added = {},
         t.pc \notin {"keep", "keeping", "rnew"} \cup Filling,
         t.pc = "idle" \/ (t.label = r.label /\ t.op = r.op),
         t.pc \in Ahead => r.pc \in Ahead
  PROVE  Owes(card', new', t, s)
<1>1. s.nro \in Releases /\ card[Kept(s.label)] = s.nro BY DEF Owes, OwesBuild, Early
<1>2. OwesBuild(card', t, s) BY <1>1 DEF OwesBuild, Besides
<1> QED BY <1>2, OwesOn DEF Besides

LEMMA PartRolls ==
  ASSUME IInv, RollInv, NEW a \in Actors,
         act[a].pc \notin {"idle", "keep", "keeping"} \cup Filling,
         NEW x \in Pcs \ ({"idle", "keep", "keeping", "rnew"} \cup Filling),
         x \in Ahead => act[a].pc \in Ahead,
         NEW s \in Actor, s.added = act[a].added, Kin(s, act[a]), s.pc = x, Goto(a, s) \/ Upset(a, s),
         Sole(a) => Besides, snap' \in {snap, None},
         Sole(a) /\ Due(card, new, act[a]) /\ Goto(a, s) => Due(card', new', s)
  PROVE  RollInv'
<1> DEFINE r == act[a]
<1>1. /\ TypeOK /\ r \in Actor /\ Neat(r) /\ (snap # None => snap.label \in Labels)
  BY RollFacts
<1>2. r.added = {} BY <1>1 DEF Neat
<1>3. Neat(s) BY <1>2 DEF Neat, Filling
<1>4. ASSUME snap' # None, Sole(a), Owes(card, new, r, snap) PROVE Owes(card', new', s, snap)
  <2>1. snap.label \in Labels BY <1>1, <1>4
  <2> QED BY <1>2, <1>4, <2>1, OwesBesides DEF Kin
<1> QED BY <1>1, <1>3, <1>4, RollStep DEF Kin

LEMMA EndRolls ==
  ASSUME IInv, RollInv, NEW a \in Actors,
         act[a].pc \notin {"idle", "keep", "keeping"} \cup Filling, Goto(a, Idle),
         Sole(a) => Besides, snap' = snap
  PROVE  RollInv'
<1> DEFINE r == act[a]
<1>1. /\ TypeOK /\ r \in Actor /\ Neat(r) /\ (snap # None => snap.label \in Labels)
  BY RollFacts
<1>2. r.added = {} BY <1>1 DEF Neat
<1>3. Idle \in Actor /\ Idle.pc = "idle" /\ Idle.added = {} /\ Idle.goal = None
  BY IdleFields DEF Idle
<1>4. Neat(Idle) BY <1>3 DEF Neat
<1>5. ASSUME snap # None, Sole(a), Owes(card, new, r, snap) PROVE Owes(card', new', Idle, snap)
  <2>1. snap.label \in Labels BY <1>1, <1>5
  <2> QED BY <1>2, <1>3, <1>5, <2>1, OwesBesides DEF Filling, Ahead
<1> QED BY <1>1, <1>3, <1>4, <1>5, RollStep

\* Where the two files of the app's own name are.
LEMMA Pair ==
  ASSUME NEW n \in Names
  PROVE  /\ Nro(n) \in Paths /\ Bak(n) \in Paths
         /\ \A p \in {Nro(n), Bak(n)} : \E m : p = Nro(m) \/ p = Bak(m)
BY PathFacts

LEMMA ParkRolls == ASSUME IInv, RollInv, NEW a \in Actors, Park(a) PROVE RollInv'
<1> DEFINE r == act[a]
           n == Nro(r.dest)
           b == Bak(r.dest)
           next == IF r.op = "rollback" THEN "write" ELSE "place"
           t == [r EXCEPT !.pc = next]
           s == [r EXCEPT !.pc = next, !.restore = TRUE]
<1>1. /\ r.pc = "park" /\ new' = new
      /\ \/ snap' = snap /\ card' = Moved(a, n, b) /\ Goto(a, s)
         \/ /\ snap' \in {snap, None} /\ (Goto(a, t) \/ Upset(a, t))
            /\ card' \in {card, Gone(a, {b}), Gone(a, {b, n})}
  BY DEF Park, At, Step, book
<1>2. /\ TypeOK /\ CardOK /\ r \in Actor /\ Knows(r) /\ Neat(r)
  BY <1>1, RollFacts
<1>3. next \in Pcs \ ({"idle", "keep", "keeping", "rnew"} \cup Filling)
      /\ (next \in Ahead => next = "write" /\ r.op = "rollback")
      /\ next # "reap" /\ (next = "place" => r.op # "rollback")
  BY DEF Pcs, Filling, Ahead
<1> HIDE DEF next
<1>4. t \in Actor /\ Kin(t, r) /\ t.pc = next /\ t.added = r.added
  BY <1>2, <1>3 DEF Actor, Kin
<1>5. s \in Actor /\ Kin(s, r) /\ s.pc = next /\ s.added = r.added
  <2> HIDE DEF t
  <2> DEFINE u == [t EXCEPT !.restore = TRUE]
  <2>1. Kin(u, r) /\ u.pc = next /\ u.added = r.added BY <1>4 DEF Actor, Kin
  <2>2. u \in Actor BY <1>4 DEF Actor
  <2>3. u = s BY DEF t
  <2> HIDE DEF u, s
  <2> QED BY <2>1, <2>2, <2>3
<1>6. Besides
  <2>1. n \in Paths /\ b \in Paths /\ \A p \in {n, b} : \E m : p = Nro(m) \/ p = Bak(m)
    BY <1>1, <1>2, Pair DEF Knows
  <2>2. Changes(Moved(a, n, b), {n, b}) BY <1>2, <2>1, MovingOne
  <2>3. Changes(card, {n, b}) BY <1>2 DEF CardOK, Changes
  <2>4. Changes(Gone(a, {b}), {b}) /\ Changes(Gone(a, {b, n}), {b, n}) BY <1>2, Going
  <2>5. Changes(card', {n, b}) BY <1>1, <2>2, <2>3, <2>4 DEF Changes
  <2> QED BY <1>1, <2>1, <2>5, BuildsOnly
<1> HIDE DEF s, t, n, b
<1>7. ASSUME NEW q, Kin(q, r), q.pc = next, Due(card, new, r) PROVE Due(card', new', q)
  <2>1. /\ r.op = "rollback" /\ r.src \in Labels /\ r.goal.label = r.src
        /\ r.goal.nro \in Releases /\ card[Kept(r.src)] = r.goal.nro
    BY <1>1, <1>2, <1>7 DEF Due, DueBuild, Knows, Ahead
  <2>2. next = "write" BY <2>1 DEF next
  <2>3. DueBuild(card', q) BY <1>6, <1>7, <2>1, <2>2 DEF DueBuild, Kin, Filling, Besides
  <2> QED BY <1>1, <1>6, <1>7, <2>1, <2>2, <2>3, DueOn DEF Ahead, Kin, Besides
<1>8. r.pc \in Ahead /\ r.pc \notin {"idle", "keep", "keeping"} \cup Filling
  BY <1>1 DEF Ahead, Filling
<1>9. CASE snap' = snap /\ Goto(a, s)
  <2>1. Due(card, new, r) => Due(card', new', s) BY <1>5, <1>7
  <2> QED BY <1>3, <1>5, <1>6, <1>8, <1>9, <2>1, PartRolls
<1>10. CASE snap' \in {snap, None} /\ (Goto(a, t) \/ Upset(a, t))
  <2>1. Due(card, new, r) => Due(card', new', t) BY <1>4, <1>7
  <2> QED BY <1>3, <1>4, <1>6, <1>8, <1>10, <2>1, PartRolls
<1> QED BY <1>1, <1>9, <1>10

LEMMA PlaceRolls ==
  ASSUME IInv, RollInv, NEW a \in Actors, Place(a) \/ PlaceFails(a)
  PROVE  RollInv'
<1> DEFINE r == act[a]
           n == Nro(r.dest)
           s == [r EXCEPT !.pc = "clean"]
<1>1. r.pc = "place" /\ new' = new /\ snap' = snap
  BY DEF Place, PlaceFails, At, book
<1>2. /\ TypeOK /\ CardOK /\ r \in Actor /\ Knows(r) /\ Neat(r)
  BY <1>1, RollFacts
<1>3. CASE Place(a)
  <2>1. Goto(a, s) /\ card' = [card EXCEPT ![n] = r.ver] BY <1>3 DEF Place, Step
  <2>2. s \in Actor /\ Kin(s, r) /\ s.pc = "clean" /\ s.added = r.added
    BY <1>2 DEF Actor, Kin, Pcs
  <2>3. Besides
    <3>1. n \in Paths /\ r.ver \in Contents
      BY <1>1, <1>2, Pair, ContentFacts DEF Knows
    <3>2. Changes(card', {n}) BY <1>2, <2>1, <3>1, Setting
    <3> QED BY <1>1, <3>2, BuildsOnly
  <2>4. ~Due(card, new, r) BY <1>1, <1>2 DEF Due, DueBuild, Knows
  <2>5. ASSUME snap' # None, Sole(a), Owes(card, new, r, snap) PROVE Owes(card', new', s, snap)
    <3>1. snap.label \in Labels BY <1>1, <2>5, RollFacts
    <3>2. r.added = {} BY <1>1, <1>2 DEF Neat, Filling
    <3>3. SameExtras(snap.label) BY <2>3, <3>1 DEF Besides
    <3>4. snap.nro \in Releases /\ card[Kept(snap.label)] = snap.nro
      BY <1>1, <2>5 DEF Owes, OwesBuild, Early, Filling
    <3>5. OwesFiles(card', new', s, snap)
      BY <2>2, <2>5, <3>3 DEF Owes, OwesFiles, Saved, Added, SameExtras, Theirs
    <3>6. OwesBuild(card', s, snap) BY <2>2, <2>3, <3>1, <3>4 DEF OwesBuild, Besides
    <3>7. OwesPlan(s, snap) BY <1>1, <2>2, <2>5 DEF Owes, OwesPlan, Kin, Filling
    <3>8. OwesTodo(card', new', s, snap)
      BY <1>1, <1>2, <2>2 DEF OwesTodo, Filling, Kin, Knows
    <3> QED BY <3>5, <3>6, <3>7, <3>8 DEF Owes
  <2>6. Neat(s) BY <1>1, <1>2, <2>2 DEF Neat, Filling
  <2> HIDE DEF s
  <2> QED BY <1>1, <1>2, <2>1, <2>2, <2>4, <2>5, <2>6, RollStep DEF Kin
<1>4. CASE PlaceFails(a)
  <2>1. Goto(a, Idle) /\ card' = Undone(a) BY <1>4 DEF PlaceFails
  <2>2. Besides
    <3>1. Changes(card', {n, Bak(r.dest)}) BY <1>1, <1>2, <2>1, Undoing DEF Knows
    <3> QED BY <1>1, <1>2, <3>1, Pair, BuildsOnly DEF Knows
  <2> QED BY <1>1, <2>1, <2>2, EndRolls DEF Filling
<1> QED BY <1>3, <1>4

LEMMA WriteRolls == ASSUME IInv, RollInv, NEW a \in Actors, Write(a) PROVE RollInv'
<1> DEFINE r == act[a]
           n == Nro(r.dest)
<1>1. /\ r.pc = "write" /\ new' = new /\ snap' = snap
      /\ \/ Step(a, "writing") /\ card' = [card EXCEPT ![n] = Torn]
         \/ Step(a, "reap") /\ card' = Undone(a)
  BY DEF Write, At, book
<1>2. /\ TypeOK /\ CardOK /\ r \in Actor /\ Knows(r) /\ Neat(r)
  BY <1>1, RollFacts
<1>3. Besides
  <2>1. n \in Paths BY <1>1, <1>2, Pair DEF Knows
  <2>2. Changes([card EXCEPT ![n] = Torn], {n, Bak(r.dest)})
    <3>1. Changes([card EXCEPT ![n] = Torn], {n}) BY <1>2, <2>1, Setting, ContentFacts
    <3> QED BY <3>1 DEF Changes
  <2>3. Changes(Undone(a), {n, Bak(r.dest)}) BY <1>1, <1>2, Undoing DEF Knows
  <2>4. Changes(card', {n, Bak(r.dest)}) BY <1>1, <2>2, <2>3
  <2> QED BY <1>1, <1>2, <2>4, Pair, BuildsOnly DEF Knows
<1>4. ASSUME NEW x \in {"writing", "reap"}, Step(a, x) PROVE RollInv'
  <2> DEFINE s == [r EXCEPT !.pc = x]
  <2>1. /\ x \in Pcs \ ({"idle", "keep", "keeping", "rnew"} \cup Filling)
        /\ r.pc \in Ahead /\ r.pc \notin {"idle", "keep", "keeping"} \cup Filling
    BY <1>1 DEF Pcs, Filling, Ahead
  <2>2. s \in Actor /\ Kin(s, r) /\ s.pc = x /\ s.added = r.added
    BY <1>2, <2>1 DEF Actor, Kin
  <2> HIDE DEF s
  <2>3. ASSUME Due(card, new, r) PROVE Due(card', new', s)
    <3>1. /\ r.op = "rollback" /\ r.src \in Labels /\ r.goal.label = r.src
          /\ r.goal.nro \in Releases /\ card[Kept(r.src)] = r.goal.nro /\ ~r.ok
      BY <1>1, <1>2, <2>1, <2>3 DEF Due, DueBuild, DueFiles, Knows
    <3>2. DueBuild(card', s)
      BY <1>3, <2>2, <3>1 DEF DueBuild, Kin, Filling, Ahead, Besides
    <3> QED BY <1>3, <2>1, <2>2, <2>3, <3>1, <3>2, DueOn DEF Ahead, Kin, Besides
  <2> QED BY <1>1, <1>3, <1>4, <2>1, <2>2, <2>3, PartRolls DEF Step, s
<1> QED BY <1>1, <1>4

LEMMA WriteEndRolls == ASSUME IInv, RollInv, NEW a \in Actors, WriteEnd(a) PROVE RollInv'
<1> DEFINE r == act[a]
           n == Nro(r.dest)
           c == card[Kept(r.src)]
           s == [r EXCEPT !.pc = "clean"]
<1>1. /\ r.pc = "writing" /\ new' = new /\ snap' = snap /\ Goto(a, s)
      /\ card' = [card EXCEPT ![n] = c]
  BY DEF WriteEnd, At, Step, book
<1>2. /\ TypeOK /\ CardOK /\ r \in Actor /\ Knows(r) /\ Neat(r)
  BY <1>1, RollFacts
<1>3. /\ "clean" \in Pcs \ ({"idle", "keep", "keeping", "rnew"} \cup Filling)
      /\ r.pc \in Ahead /\ r.pc \notin {"idle", "keep", "keeping"} \cup Filling
  BY <1>1 DEF Pcs, Filling, Ahead
<1>4. s \in Actor /\ Kin(s, r) /\ s.pc = "clean" /\ s.added = r.added
  BY <1>2, <1>3 DEF Actor, Kin
<1> HIDE DEF s
<1>5. n \in Paths /\ r.src \in Labels /\ c \in Contents
  BY <1>1, <1>2, Pair, PathFacts DEF Knows, CardOK
<1>6. card'[n] = c BY <1>1, <1>2, <1>5 DEF CardOK
<1>7. Besides
  <2> DEFINE ps == {n}
  <2>1. Changes(card', ps) BY <1>1, <1>2, <1>5, Setting
  <2>2. \A p \in ps : \E m : p = Nro(m) \/ p = Bak(m) OBVIOUS
  <2> HIDE DEF ps
  <2> QED BY <1>1, <2>1, <2>2, BuildsOnly
<1>8. ASSUME Due(card, new, r) PROVE Due(card', new', s)
  <2>1. /\ r.op = "rollback" /\ r.goal.label = r.src /\ r.goal.nro \in Releases
        /\ c = r.goal.nro
    BY <1>1, <1>3, <1>8 DEF Due, DueBuild
  <2>2. DueBuild(card', s) BY <1>4, <1>6, <2>1 DEF DueBuild, Kin, Filling
  <2> QED BY <1>3, <1>4, <1>5, <1>7, <1>8, <2>2, DueOn DEF Ahead, Kin, Besides
<1> QED BY <1>1, <1>3, <1>4, <1>7, <1>8, PartRolls

LEMMA WriteFailsRolls == ASSUME IInv, RollInv, NEW a \in Actors, WriteFails(a) PROVE RollInv'
<1> DEFINE r == act[a]
           s == [r EXCEPT !.pc = "reap"]
<1>1. r.pc = "writing" /\ Upset(a, s) /\ snap' = None BY DEF WriteFails, At
<1>2. TypeOK /\ r \in Actor /\ Neat(r) BY RollFacts
<1>3. "reap" \in Pcs \ (Filling \cup {"idle"}) BY DEF Pcs, Filling
<1>4. s \in Actor /\ Neat(s) BY <1>1, <1>2, <1>3, PartFacts DEF Filling
<1> HIDE DEF s
<1> QED BY <1>1, <1>2, <1>4, RollForgets

LEMMA CleanRolls == ASSUME IInv, RollInv, NEW a \in Actors, Clean(a) PROVE RollInv'
<1> DEFINE r == act[a]
           b == Bak(r.dest)
           todo == {e \in Extras : Exists(File(r.src, e))}
           root == IF r.label = r.src THEN None ELSE r.label
           t == [r EXCEPT !.pc = "old"]
           s == [r EXCEPT !.pc = "extras", !.ok = TRUE, !.root = root, !.todo = todo]
<1>1. /\ r.pc = "clean" /\ card' \in {card, Gone(a, {b})} /\ new' = new /\ snap' = snap
      /\ IF r.op = "rollback" THEN Goto(a, s) ELSE Goto(a, t)
  BY DEF Clean, At, Step, book
<1>2. /\ TypeOK /\ CardOK /\ r \in Actor /\ Knows(r) /\ Neat(r)
      /\ (snap # None => snap.label \in Labels)
  BY <1>1, RollFacts
<1>3. /\ Besides
      /\ \A n \in Names : card'[Nro(n)] = card[Nro(n)]
  <2> DEFINE ps == {b}
  <2>1. Changes(card, ps) BY <1>2 DEF CardOK, Changes
  <2>2. Changes(Gone(a, ps), ps) BY <1>2, Going
  <2>3. \A p \in ps : \E m : p = Nro(m) \/ p = Bak(m) OBVIOUS
  <2>4. \A n : Nro(n) \notin ps BY Apart
  <2>5. card' \in {card, Gone(a, ps)} BY <1>1
  <2> HIDE DEF ps
  <2>6. Changes(card', ps) BY <2>1, <2>2, <2>5
  <2>7. Besides BY <1>1, <2>3, <2>6, BuildsOnly
  <2>8. \A n \in Names : card'[Nro(n)] = card[Nro(n)] BY <2>4, <2>6, PathFacts DEF Changes
  <2> QED BY <2>7, <2>8
<1>4. r.added = {} BY <1>1, <1>2 DEF Neat, Filling
<1>5. CASE r.op = "rollback"
  <2>1. root \in Labels \cup {None} /\ todo \in SUBSET Extras BY <1>2 DEF Knows
  <2> HIDE DEF root, todo
  <2>2. s \in Actor BY ZenonT(30), <1>2, <2>1 DEF Actor, Pcs
  <2>3. /\ s.pc = "extras" /\ s.op = r.op /\ s.label = r.label /\ s.src = r.src
        /\ s.root = root /\ s.todo = todo /\ s.dest = r.dest /\ s.added = {} /\ s.goal = r.goal
        /\ s.old = r.old
    BY <1>2, <1>4 DEF Actor
  <2> HIDE DEF s
  <2>4. Neat(s) BY <2>3 DEF Neat
  <2>5. ASSUME snap # None, Owes(card, new, r, snap) PROVE Owes(card', new', s, snap)
    <3>1. snap.label \in Labels BY <1>2, <2>5
    <3>2. SameExtras(snap.label) /\ card'[Kept(snap.label)] = card[Kept(snap.label)]
      BY <1>3, <3>1 DEF Besides
    <3>3. r.label = snap.label /\ snap.nro \in Releases /\ card[Kept(snap.label)] = snap.nro
      BY <1>1, <2>5 DEF Owes, OwesPlan, OwesBuild, Early, Filling
    <3> DEFINE gone == Added(new, r, snap)
    <3>4. Added(new', s, snap) = gone BY <1>1, <1>4, <2>3 DEF Added
    <3>5. \A e \in Theirs : Saved(card, snap, gone, e) /\ InPlace(card, snap.label, gone, e)
      BY <1>1, <1>5, <2>5 DEF Owes, OwesFiles, OwesTodo, Ahead
    <3> HIDE DEF gone
    <3>6. OwesFiles(card', new', s, snap)
      BY <3>2, <3>4, <3>5 DEF OwesFiles, Saved, SameExtras, Theirs
    <3>7. OwesBuild(card', s, snap) BY <2>3, <3>2, <3>3 DEF OwesBuild
    <3>8. OwesPlan(s, snap)
      BY <1>1, <1>5, <2>3, <2>5, <3>3 DEF Owes, OwesPlan, root, Filling
    <3>9. \A e \in Theirs : InPlace(card', snap.label, gone, e)
      BY <3>2, <3>5 DEF InPlace, SameExtras, Theirs
    <3>10. s.root = None => \A e \in s.todo : card'[File(snap.label, e)] # None
      <4> SUFFICES ASSUME s.root = None, NEW e \in s.todo
                   PROVE  card'[File(snap.label, e)] # None
        OBVIOUS
      <4>1. r.src = snap.label
        BY <1>1, <1>2, <2>3, <3>3, UpdatesAssumption DEF root, Knows
      <4>2. e \in Extras /\ card[File(snap.label, e)] # None
        BY <2>3, <4>1 DEF todo, Exists
      <4> QED BY <3>2, <4>2 DEF SameExtras
    <3>11. OwesTodo(card', new', s, snap)
      BY <2>3, <3>4, <3>9, <3>10 DEF OwesTodo, Ahead
    <3> QED BY <3>6, <3>7, <3>8, <3>11 DEF Owes
  <2>6. ASSUME Due(card, new, r) PROVE Due(card', new', s)
    <3>1. /\ r.src \in Labels /\ r.dest \in Names /\ r.goal.label = r.src
          /\ r.goal.nro \in Releases /\ card[Nro(r.dest)] = r.goal.nro
          /\ \A e \in Theirs : Saved(card, r.goal, new[r.src], e)
      BY <1>1, <1>2, <1>5, <2>6 DEF Due, DueBuild, DueFiles, Knows, Ahead
    <3>2. DueBuild(card', s)
      BY <1>3, <1>5, <2>3, <3>1 DEF DueBuild, Filling, Ahead
    <3>3. SameExtras(r.src) BY <1>3, <3>1 DEF Besides
    <3>4. root # r.src BY <3>1, UpdatesAssumption DEF root
    <3>5. \A e \in Theirs : CopyBack(card', new', s, e)
      <4> SUFFICES ASSUME NEW e \in Theirs PROVE CopyBack(card', new', s, e) OBVIOUS
      <4>1. e \in Extras /\ Saved(card, r.goal, new[r.src], e) BY <3>1 DEF Theirs
      <4>2. e \in todo <=> card[File(r.src, e)] # None BY <4>1 DEF todo, Exists
      <4> QED BY <2>3, <3>1, <3>3, <4>1, <4>2 DEF CopyBack, Saved, SameExtras
    <3>6. DueFiles(card', new', s)
      BY <2>3, <3>4, <3>5 DEF DueFiles, Filling, Ahead
    <3> QED BY <3>2, <3>6 DEF Due
  <2> QED BY <1>1, <1>2, <1>5, <2>2, <2>3, <2>4, <2>5, <2>6, RollStep
<1>6. CASE r.op # "rollback"
  <2>1. /\ "old" \in Pcs \ ({"idle", "keep", "keeping", "rnew"} \cup Filling)
        /\ r.pc \notin {"idle", "keep", "keeping"} \cup Filling /\ "old" \notin Ahead
    BY <1>1 DEF Pcs, Filling, Ahead
  <2>2. t \in Actor /\ Kin(t, r) /\ t.pc = "old" /\ t.added = r.added
    BY <1>2, <2>1 DEF Actor, Kin
  <2> HIDE DEF t
  <2>3. ~Due(card, new, r) BY <1>6 DEF Due, DueBuild
  <2> QED BY <1>1, <1>3, <1>6, <2>1, <2>2, <2>3, PartRolls
<1> QED BY <1>5, <1>6

LEMMA OldRolls == ASSUME IInv, RollInv, NEW a \in Actors, Old(a) PROVE RollInv'
<1> DEFINE r == act[a]
           p == Nro(r.old)
           ps == {p}
<1>1. /\ r.pc = "old" /\ Goto(a, Idle) /\ card' \in {card, Gone(a, ps)} /\ new' = new
      /\ snap' = snap
  BY DEF Old, At, book
<1>2. CardOK BY RollFacts
<1>3. Changes(card, ps) /\ Changes(Gone(a, ps), ps) BY <1>2, Going DEF CardOK, Changes
<1>4. \A q \in ps : \E m : q = Nro(m) \/ q = Bak(m) OBVIOUS
<1> HIDE DEF ps
<1>5. Besides BY <1>1, <1>3, <1>4, BuildsOnly
<1> QED BY <1>1, <1>5, EndRolls DEF Filling

-----------------------------------------------------------------------------
(* ... and through what a rollback takes away. *)

LEMMA RemoveNewRolls ==
  ASSUME IInv, RollInv, NEW a \in Actors, NEW e \in Extras, RemoveNew(a, e)
  PROVE  RollInv'
<1> DEFINE r == act[a]
           p == Extra(e)
           q == File(r.root, e)
           move == KeepFirst(a, e)
           todo == r.todo \ {e}
           s == [r EXCEPT !.todo = todo]
<1>1. /\ r.pc = "rnew" /\ e \in r.todo /\ Goto(a, s) /\ new' = new /\ snap' = snap
      /\ card' = IF e \in UserData THEN card
                 ELSE IF move THEN Moved(a, p, q) ELSE Gone(a, {p})
  BY DEF RemoveNew, At, First, book
<1>2. /\ TypeOK /\ CardOK /\ r \in Actor /\ Knows(r) /\ Neat(r)
      /\ (snap # None => snap.label \in Labels)
  BY <1>1, RollFacts
<1>3. r.added = {} BY <1>1, <1>2 DEF Neat, Filling
<1>4. todo \in SUBSET Extras BY <1>2 DEF Actor
<1>5. s \in Actor /\ Kin(s, r) /\ s.pc = "rnew" /\ s.todo = todo /\ s.added = {}
  <2> HIDE DEF todo
  <2> QED BY <1>1, <1>2, <1>3, <1>4 DEF Actor, Kin
<1> HIDE DEF s
<1>6. Neat(s) BY <1>5 DEF Neat
<1>7. ASSUME Sole(a)
      PROVE  /\ \A x \in Extras \ {e} : card'[Extra(x)] = card[Extra(x)]
             /\ \A k \in Labels, x \in Extras :
                  k # r.root \/ x # e => card'[File(k, x)] = card[File(k, x)]
             /\ e \notin UserData => card'[Extra(e)] = None
             /\ e \notin UserData /\ r.root # None =>
                  card'[File(r.root, e)] = IF card[File(r.root, e)] = None THEN card[Extra(e)]
                                                               ELSE card[File(r.root, e)]
             /\ \A n \in Names : card'[Nro(n)] = card[Nro(n)]
             /\ \A k \in Labels : card'[Kept(k)] = card[Kept(k)]
  <2>1. /\ move <=> r.root # None /\ card[q] = None /\ card[p] # None
        /\ Moved(a, p, q) = [card EXCEPT ![q] = card[p], ![p] = None]
        /\ Gone(a, {p}) = Removed({p})
    BY <1>7, SoleIsAlone, AloneFacts DEF KeepFirst, Exists
  <2>2. p \in Paths /\ p # q /\ (r.root # None => q \in Paths)
    <3>1. p \in Paths BY PathFacts
    <3>2. p # q BY Apart
    <3>3. r.root # None => q \in Paths BY <1>2, PathFacts DEF Actor
    <3> QED BY <3>1, <3>2, <3>3
  <2>3. CASE e \in UserData
    <3>1. card' = card BY <1>1, <2>3
    <3> QED BY <2>3, <3>1
  <2>4. CASE e \notin UserData
    <3>1. card' = IF move THEN [card EXCEPT ![q] = card[p], ![p] = None] ELSE Removed({p})
      BY <1>1, <2>1, <2>4
    <3>0. r.root \in Labels \cup {None} BY <1>2 DEF Actor
    <3> HIDE DEF p, q, move
    <3>2. CASE move
      <4>1. card' = [card EXCEPT ![q] = card[p], ![p] = None] BY <3>1, <3>2
      <4>2. /\ card'[p] = None /\ card'[q] = card[p]
            /\ \A x \in Paths \ {p, q} : card'[x] = card[x]
        BY <1>2, <2>1, <2>2, <3>2, <4>1 DEF CardOK
      <4>3. /\ card'[p] = None /\ \A x \in Paths \ {p, q} : card'[x] = card[x]
            /\ r.root # None => card'[q] = IF card[q] = None THEN card[p] ELSE card[q]
            /\ r.root = None => \A x \in Paths \ {p} : card'[x] = card[x]
        BY <2>1, <3>2, <4>2
      <4> QED BY <1>2, <2>4, <3>0, <4>3, OnlyPair DEF p, q
    <3>3. CASE ~move
      <4>1. card' = Removed({p}) BY <3>1, <3>3
      <4>2. card'[p] = None /\ \A x \in Paths \ {p} : card'[x] = card[x]
        BY <2>2, <4>1 DEF Removed
      <4>3. /\ card'[p] = None /\ \A x \in Paths \ {p, q} : card'[x] = card[x]
            /\ r.root # None => card'[q] = IF card[q] = None THEN card[p] ELSE card[q]
            /\ r.root = None => \A x \in Paths \ {p} : card'[x] = card[x]
        BY <2>1, <2>2, <3>3, <4>2
      <4> QED BY <1>2, <2>4, <3>0, <4>3, OnlyPair DEF p, q
    <3> QED BY <3>2, <3>3
  <2> QED BY <2>3, <2>4
<1> HIDE DEF p, q, move, todo
<1>8. ASSUME snap # None, Sole(a), Owes(card, new, r, snap) PROVE Owes(card', new', s, snap)
  <2> DEFINE l == snap.label
             gone == Added(new, r, snap)
  <2>1. /\ l \in Labels /\ l # None /\ gone = new[l]
        /\ r.root = l \/ (r.root = None /\ r.op = "rollback" /\ r.src = l)
        /\ r.root = None => e \in gone
    BY <1>1, <1>2, <1>3, <1>8, UpdatesAssumption DEF Owes, OwesPlan, OwesTodo, Added
  <2>2. Added(new', s, snap) = gone BY <1>1, <1>3, <1>5 DEF Added
  <2>3. \A x \in Theirs : Saved(card, snap, gone, x) BY <1>8 DEF Owes, OwesFiles
  <2> HIDE DEF gone
  <2>4. e \in Theirs => Saved(card', snap, gone, e)
    <3> SUFFICES ASSUME e \in Theirs, e \notin gone PROVE Saved(card', snap, gone, e)
      BY <2>3 DEF Saved
    <3>1. e \notin UserData /\ r.root = l /\ r.root # None BY <2>1 DEF Theirs
    <3>2. /\ card'[Extra(e)] = None
          /\ card'[File(l, e)] = IF card[File(l, e)] = None THEN card[Extra(e)]
                                                          ELSE card[File(l, e)]
      BY <1>7, <1>8, <3>1
    <3>3. Saved(card, snap, gone, e) BY <2>3
    <3> QED BY <3>2, <3>3 DEF Saved
  <2>5. ASSUME NEW x \in Theirs, x # e PROVE Saved(card', snap, gone, x)
    <3>1. card'[Extra(x)] = card[Extra(x)] /\ card'[File(l, x)] = card[File(l, x)]
      BY <1>7, <1>8, <2>1, <2>5 DEF Theirs
    <3>2. Saved(card, snap, gone, x) BY <2>3
    <3> QED BY <3>1, <3>2 DEF Saved
  <2>6. OwesFiles(card', new', s, snap) BY <2>2, <2>4, <2>5 DEF OwesFiles
  <2>7. OwesBuild(card', s, snap)
    BY <1>1, <1>5, <1>7, <1>8, <2>1 DEF Owes, OwesBuild, Early, Filling
  <2>8. OwesPlan(s, snap) BY <1>1, <1>5, <1>8 DEF Owes, OwesPlan, Kin, Filling
  <2>9. OwesTodo(card', new', s, snap)
    BY <1>1, <1>5, <1>8 DEF Owes, OwesTodo, Kin, Filling, Ahead, todo
  <2> QED BY <2>6, <2>7, <2>8, <2>9 DEF Owes
<1>9. ASSUME Sole(a), Due(card, new, r) PROVE Due(card', new', s)
  <2>1. /\ r.op = "rollback" /\ r.src \in Labels /\ r.dest \in Names
        /\ \A x \in Theirs : IF x \in r.todo THEN r.goal.extra[x] = None
                                             ELSE card[Extra(x)] = r.goal.extra[x]
    BY <1>1, <1>2, <1>9 DEF Due, DueBuild, DueFiles, Knows
  <2>2. DueBuild(card', s)
    BY <1>1, <1>5, <1>7, <1>9, <2>1 DEF Due, DueBuild, Filling, Ahead, Kin
  <2>3. \A x \in Theirs : IF x \in s.todo THEN r.goal.extra[x] = None
                                         ELSE card'[Extra(x)] = r.goal.extra[x]
    <3> SUFFICES ASSUME NEW x \in Theirs
                 PROVE  IF x \in s.todo THEN r.goal.extra[x] = None
                                        ELSE card'[Extra(x)] = r.goal.extra[x]
      OBVIOUS
    <3>1. x \in Extras /\ x \notin UserData BY DEF Theirs
    <3>2. CASE x = e
      <4>1. x \notin s.todo /\ r.goal.extra[x] = None BY <1>1, <1>5, <2>1, <3>2 DEF todo
      <4>2. card'[Extra(x)] = None BY <1>7, <1>9, <3>1, <3>2
      <4> QED BY <4>1, <4>2
    <3>3. CASE x # e
      <4>1. (x \in s.todo <=> x \in r.todo) /\ card'[Extra(x)] = card[Extra(x)]
        BY <1>5, <1>7, <1>9, <3>1, <3>3 DEF todo
      <4> QED BY <2>1, <4>1
    <3> QED BY <3>2, <3>3
  <2>4. DueFiles(card', new', s) BY <1>5, <2>3 DEF DueFiles, Filling, Ahead, Kin
  <2> QED BY <2>2, <2>4 DEF Due
<1> QED BY <1>1, <1>2, <1>5, <1>6, <1>8, <1>9, RollStep DEF Kin

LEMMA RolledBackRolls == ASSUME IInv, RollInv, NEW a \in Actors, RolledBack(a) PROVE RollInv'
<1> DEFINE r == act[a]
           s == [r EXCEPT !.pc = "reap"]
<1>1. r.pc = "rnew" /\ r.todo = {} /\ Goto(a, s) /\ card' = card /\ new' = new /\ snap' = snap
  BY DEF RolledBack, At, Step, book
<1>2. /\ TypeOK /\ r \in Actor /\ Neat(r) BY RollFacts
<1>3. "reap" \in Pcs \ (Filling \cup {"idle"}) BY DEF Pcs, Filling
<1>4. /\ s \in Actor /\ Kin(s, r) /\ s.pc = "reap" /\ s.todo = {} /\ r.added = {}
      /\ s.added = {} /\ Neat(s)
  BY <1>1, <1>2, <1>3, PartFacts DEF Filling
<1> HIDE DEF s
<1>5. ASSUME snap # None, Owes(card, new, r, snap) PROVE Owes(card', new', s, snap)
  <2>1. SameExtras(snap.label) BY <1>1 DEF SameExtras
  <2>2. OwesBuild(card', s, snap)
    BY <1>1, <1>4, <1>5 DEF Owes, OwesBuild, Early, Filling
  <2> QED BY <1>1, <1>4, <1>5, <2>1, <2>2, OwesOn DEF Filling, Ahead, Kin
<1>6. ASSUME Due(card, new, r) PROVE Due(card', new', s)
  <2>1. DueBuild(card', s)
    BY <1>1, <1>4, <1>6 DEF Due, DueBuild, Filling, Ahead, Kin
  <2>2. DueFiles(card', new', s)
    BY <1>1, <1>4, <1>6 DEF Due, DueFiles, Filling, Ahead, Kin
  <2> QED BY <2>1, <2>2 DEF Due
<1> QED BY <1>1, <1>2, <1>4, <1>5, <1>6, RollStep DEF Kin

LEMMA WorkRolls == ASSUME IInv, RollInv, NEW a \in Actors, Work(a) PROVE RollInv'
<1>1. CASE \E e \in Extras : CopyBegin(a, e) \/ RemoveNew(a, e)
  BY <1>1, CopyBeginRolls, RemoveNewRolls
<1>2. CASE CopyEnd(a) \/ CopyFails(a) \/ CopyDone(a)
  BY <1>2, CopyEndRolls, CopyFailsRolls, CopyDoneRolls
<1>3. CASE Keep(a) \/ KeepEnd(a) \/ KeepFails(a) \/ Prune(a)
  BY <1>3, KeepRolls, KeepEndRolls, KeepFailsRolls, PruneRolls
<1>4. CASE Park(a) \/ Place(a) \/ PlaceFails(a) BY <1>4, ParkRolls, PlaceRolls
<1>5. CASE Write(a) \/ WriteEnd(a) \/ WriteFails(a)
  BY <1>5, WriteRolls, WriteEndRolls, WriteFailsRolls
<1>6. CASE Clean(a) \/ Old(a) \/ RolledBack(a)
  BY <1>6, CleanRolls, OldRolls, RolledBackRolls
<1> QED BY <1>1, <1>2, <1>3, <1>4, <1>5, <1>6 DEF Work

-----------------------------------------------------------------------------
(* The list and the UI. *)

\* What is owed as a change begins is what the backup has or will have.
LEMMA OwedIsOwed ==
  ASSUME IInv, RollInv, NEW a \in Actors, act[a].pc = "idle", NEW n \in Names, NEW l \in Labels,
         Owed(a, n, l) # None, NEW s, s.pc \in {"keep", "extras"}, s.added = {}, s.label = l,
         s.old = n, s.op \in {"update", "push", "rollback"},
         s.pc = "extras" => s.op = "update" /\ s.root = l
  PROVE  Owes(card, new, s, Owed(a, n, l)) /\ \A b \in Actors : act[b].pc = "idle"
<1> DEFINE o == Owed(a, n, l)
<1>1. \A b \in Actors : act[b].pc = "idle" BY DEF Owed, At
<1>2. /\ o.label = l /\ o.nro \in Releases
      /\ card[Kept(l)] = o.nro \/ (card[Kept(l)] = None /\ card[Nro(n)] = o.nro)
      /\ \A e \in Theirs : Saved(card, o, new[l], e) /\ InPlace(card, l, new[l], e)
  <2>1. CASE snap # None /\ snap.label = l
    <3>1. o = snap /\ Replaced(l) BY <1>1, <2>1 DEF Owed, At
    <3>2. PICK b \in Actors : Owes(card, new, act[b], snap) BY <2>1 DEF RollInv, SnapInv
    <3>3. act[b].pc = "idle" /\ act[b].added = {} BY <1>1, <3>2 DEF RollInv, Neat, Filling
    <3>4. snap.nro \in Releases /\ card[Kept(l)] = snap.nro
      BY <2>1, <3>2, <3>3 DEF Owes, OwesBuild, Early, Filling
    <3>5. \A e \in Theirs : Saved(card, snap, new[l], e)
      BY <2>1, <3>2, <3>3 DEF Owes, OwesFiles, Added
    <3>6. \A e \in Theirs : InPlace(card, l, new[l], e)
      BY <3>1 DEF Replaced, InPlace, Exists, Theirs
    <3> QED BY <2>1, <3>1, <3>4, <3>5, <3>6
  <2>2. CASE ~(snap # None /\ snap.label = l)
    <3>1. o = Snap(n, l) /\ card[Nro(n)] \in Releases /\ Agrees(n, l)
      BY <1>1, <2>2 DEF Owed, At
    <3>2. /\ o.label = l /\ o.nro = card[Nro(n)]
          /\ \A e \in Extras : o.extra[e] = card[Extra(e)]
      BY <3>1 DEF Snap
    <3>3. card[Kept(l)] = o.nro \/ card[Kept(l)] = None BY <3>1, <3>2 DEF Agrees, Exists
    <3>4. \A e \in Theirs : Saved(card, o, new[l], e) /\ InPlace(card, l, new[l], e)
      BY <3>1, <3>2 DEF Agrees, Exists, Saved, InPlace, Theirs
    <3> QED BY <3>1, <3>2, <3>3, <3>4
  <2> QED BY <2>1, <2>2
<1>3. l # None BY UpdatesAssumption
<1> HIDE DEF o
<1>4. Added(new, s, o) = new[l] BY <1>2 DEF Added
<1>5. OwesFiles(card, new, s, o) BY <1>2, <1>4 DEF OwesFiles
<1>6. OwesBuild(card, s, o) BY <1>2 DEF OwesBuild, Early, Filling
<1>7. OwesPlan(s, o) BY <1>2 DEF OwesPlan, Filling
<1>8. OwesTodo(card, new, s, o) BY <1>2, <1>3, <1>4 DEF OwesTodo, Filling, Ahead
<1> QED BY <1>1, <1>5, <1>6, <1>7, <1>8 DEF Owes, o

\* A change begins.
LEMMA BeginRolls ==
  ASSUME IInv, RollInv, NEW a \in Actors, NEW s \in Actor, Neat(s), card' = card, new' = new,
         Upset(a, s) \/ (Goto(a, s) /\ a = "rev"),
         snap' # None => Owes(card, new, s, snap') /\ \A b \in Actors : act[b].pc = "idle",
         Goto(a, s) /\ s.goal # None =>
           Due(card, new, s) /\ \A b \in Actors : act[b].pc = "idle"
  PROVE  RollInv'
<1>1. TypeOK BY DEF IInv
<1>2. Same(act'[a], s) /\ \A b \in Actors \ {a} : Same(act'[b], act[b]) BY <1>1, ActorMoves
<1>3. SnapInv'
  <2> SUFFICES ASSUME snap' # None PROVE Sole(a)' /\ Owes(card', new', act'[a], snap')
    BY DEF SnapInv
  <2>1. Sole(a)' BY <1>2 DEF Sole, Same
  <2> QED BY <1>2, <2>1, SameOwes
<1>4. GoalInv'
  <2> SUFFICES ASSUME act'["rev"].goal # None PROVE Sole("rev")' /\ Due(card', new', act'["rev"])
    BY DEF GoalInv
  <2>1. ~Upset(a, s) BY <1>1, UpsetGoal
  <2>2. Goto(a, s) /\ a = "rev" BY <2>1
  <2>3. act' = [act EXCEPT ![a] = s] BY <2>2 DEF Goto
  <2>4. act'[a] = s /\ \A b \in Actors \ {a} : act'[b] = act[b]
    BY <1>1, <2>3 DEF TypeOK, ActorsOK
  <2>5. s.goal # None BY <2>2, <2>4
  <2> QED BY <2>2, <2>4, <2>5 DEF Sole
<1>5. \A b \in Actors : Neat(act'[b]) BY <1>1, NeatMoves DEF RollInv
<1> QED BY <1>3, <1>4, <1>5 DEF RollInv

LEMMA UmiTickRolls == ASSUME IInv, RollInv, NEW j \in Jobs, UmiTick(j) PROVE RollInv'
<1> DEFINE d == jobs[j]
           op == IF d.fresh THEN "install" ELSE "update"
           keep == ~d.fresh /\ Exists(Nro(d.dest))
           root == IF keep THEN d.label ELSE None
           s == [Idle EXCEPT !.pc = "extras", !.op = op,
                  !.ver = d.ver, !.job = j, !.todo = Ships[d.ver], !.dest = NameOf[d.ver],
                  !.old = d.dest, !.label = d.label, !.root = root]
<1>1. /\ d # None /\ Upset("ui", s) /\ card' = card /\ new' = new /\ act["ui"].pc = "idle"
      /\ snap' = IF keep THEN Owed("ui", d.dest, d.label) ELSE None
  BY DEF UmiTick, UiFree, At, book
<1>2. d \in [ver : Releases, fresh : BOOLEAN, label : Labels, dest : Names]
  BY <1>1 DEF IInv, TypeOK, ListOK
<1>3. /\ root \in Labels \cup {None} /\ (keep => root = d.label /\ op = "update")
      /\ op \in {"install", "update"}
      /\ NameOf[d.ver] \in Names /\ Ships[d.ver] \in SUBSET Extras
  BY <1>2, UpdatesAssumption DEF Names
<1>4. Idle.added = {} BY DEF Idle
<1> HIDE DEF d, op, root, keep
<1>5. s \in Actor BY ZenonT(30), <1>2, <1>3, IdleFields DEF Actor, Pcs
<1>6. /\ s.pc = "extras" /\ s.op = op /\ s.old = d.dest /\ s.label = d.label /\ s.root = root
      /\ s.added = {}
  BY <1>2, <1>3, <1>4, IdleFields DEF Actor, Pcs
<1> HIDE DEF s
<1>7. Neat(s) BY <1>6 DEF Neat
<1>8. "ui" \in Actors BY DEF Actors
<1>9. snap' # None => Owes(card, new, s, snap') /\ \A b \in Actors : act[b].pc = "idle"
  <2> SUFFICES ASSUME snap' # None
               PROVE  Owes(card, new, s, snap') /\ \A b \in Actors : act[b].pc = "idle"
    OBVIOUS
  <2>1. keep /\ snap' = Owed("ui", d.dest, d.label) BY <1>1
  <2>2. d.dest \in Names /\ d.label \in Labels BY <1>2
  <2> QED BY <1>1, <1>3, <1>6, <1>8, <2>1, <2>2, OwedIsOwed
<1>10. Goto("ui", s) => s.goal = None
  <2>1. Idle.goal = None BY DEF Idle
  <2> QED BY <2>1, <1>2, <1>3, IdleFields DEF s, Actor
<1> QED BY <1>1, <1>5, <1>7, <1>8, <1>9, <1>10, BeginRolls

LEMMA PushRolls ==
  ASSUME IInv, RollInv, NEW n \in Names, NEW v \in Releases, Push(n, v)
  PROVE  RollInv'
<1> DEFINE l == Label(card[Nro(n)])
           s == [Idle EXCEPT !.pc = "keep", !.op = "push", !.ver = v, !.dest = n,
                             !.old = n, !.label = l]
<1>1. l \in Labels BY DEF Label, Labels
<1>2. /\ Upset("ui", s) /\ card' = card /\ new' = new /\ act["ui"].pc = "idle"
      /\ snap' = Owed("ui", n, l)
  BY DEF Push, UiFree, At, book
<1>3. Idle.added = {} /\ Idle.goal = None BY DEF Idle
<1> HIDE DEF l
<1>4. s \in Actor BY <1>1, IdleFields DEF Actor, Pcs
<1>5. /\ s.pc = "keep" /\ s.op = "push" /\ s.old = n /\ s.label = l /\ s.added = {}
      /\ s.goal = None
  BY <1>1, <1>3, IdleFields DEF Actor, Pcs
<1> HIDE DEF s
<1>6. Neat(s) BY <1>5 DEF Neat
<1>7. "ui" \in Actors BY DEF Actors
<1>8. snap' # None => Owes(card, new, s, snap') /\ \A b \in Actors : act[b].pc = "idle"
  BY <1>1, <1>2, <1>5, <1>7, OwedIsOwed
<1> QED BY <1>2, <1>4, <1>5, <1>6, <1>7, <1>8, BeginRolls

LEMMA AppRevertRolls ==
  ASSUME IInv, RollInv, NEW m \in Match, NEW l \in Labels, AppRevert(m, l)
  PROVE  RollInv'
<1> DEFINE goal == IF snap # None /\ snap.label = l THEN snap ELSE None
           s == [Idle EXCEPT !.pc = "keep", !.op = "rollback", !.dest = m.path,
                  !.old = m.path, !.label = m.label, !.src = l, !.goal = goal]
<1>1. m \in Rows /\ m.path \in Names /\ m.label \in Labels
  BY MatchFacts DEF Rows, AppRevert
<1>2. /\ Goto("rev", s) /\ card' = card /\ new' = new /\ act["ui"].pc = "idle"
      /\ act["rev"].pc = "idle" /\ snap' = Owed("rev", m.path, m.label)
  BY DEF AppRevert, UiFree, At, book
<1>3. /\ goal \in Snaps \cup {None}
      /\ goal # None => goal = snap /\ snap # None /\ snap.label = l
  BY DEF IInv, TypeOK, ActorsOK
<1>4. Idle.added = {} /\ Idle.ok = FALSE BY DEF Idle
<1> HIDE DEF goal
<1>5. s \in Actor BY <1>1, <1>3, IdleFields DEF Actor, Pcs
<1>6. /\ s.pc = "keep" /\ s.op = "rollback" /\ s.src = l /\ s.old = m.path
      /\ s.label = m.label /\ s.added = {} /\ s.ok = FALSE /\ s.goal = goal
  BY <1>1, <1>3, <1>4, IdleFields DEF Actor, Pcs
<1> HIDE DEF s
<1>7. Neat(s) BY <1>6 DEF Neat
<1>8. "rev" \in Actors /\ \A b \in Actors : act[b].pc = "idle" BY <1>2 DEF Actors
<1>9. snap' # None => Owes(card, new, s, snap')
  BY <1>1, <1>2, <1>6, <1>8, OwedIsOwed
<1>10. goal # None => Due(card, new, s)
  <2> SUFFICES ASSUME goal # None PROVE Due(card, new, s) OBVIOUS
  <2>1. goal = snap /\ snap # None /\ snap.label = l BY <1>3
  <2>2. PICK b \in Actors : Owes(card, new, act[b], snap) BY <2>1 DEF RollInv, SnapInv
  <2>3. act[b].pc = "idle" /\ act[b].added = {} BY <1>8, <2>2 DEF RollInv, Neat, Filling
  <2>4. snap.nro \in Releases /\ card[Kept(l)] = snap.nro
    BY <2>1, <2>2, <2>3 DEF Owes, OwesBuild, Early, Filling
  <2>5. \A e \in Theirs : Saved(card, snap, new[l], e)
    BY <2>1, <2>2, <2>3 DEF Owes, OwesFiles, Added
  <2>6. DueBuild(card, s) BY <1>6, <2>1, <2>4 DEF DueBuild, Filling
  <2>7. DueFiles(card, new, s) BY <1>6, <2>1, <2>5 DEF DueFiles, Filling
  <2> QED BY <2>6, <2>7 DEF Due
<1> QED BY <1>2, <1>5, <1>6, <1>7, <1>8, <1>9, <1>10, BeginRolls

LEMMA AppRevertTickRolls == ASSUME IInv, RollInv, AppRevertTick PROVE RollInv'
<1>1. /\ act["rev"].pc = "reap" /\ Goto("rev", Idle) /\ card' = card /\ new' = new
      /\ snap' = snap /\ "rev" \in Actors
  BY DEF AppRevertTick, book, Actors
<1>2. Besides BY <1>1 DEF Besides, SameExtras
<1> QED BY <1>1, <1>2, EndRolls DEF Filling

\* A deleted backup is no longer owed; a rollback that is at work leaves what is to the other.
LEMMA DeleteRolls == ASSUME IInv, RollInv, NEW l \in Labels, Delete(l) PROVE RollInv'
<1> DEFINE ps == {Kept(l)} \cup {File(l, e) : e \in Extras}
<1>1. /\ Upset("ui", act["ui"]) /\ card' = Removed(ps) /\ new' = [new EXCEPT ![l] = {}]
      /\ snap' = NoMore({l})
  BY DEF Delete
<1>2. "ui" \in Actors BY DEF Actors
<1>3. TypeOK /\ CardOK /\ act["ui"] \in Actor BY <1>2 DEF IInv, TypeOK, ActorsOK
<1>4. /\ Same(act'["ui"], act["ui"])
      /\ \A b \in Actors \ {"ui"} : Same(act'[b], act[b])
  BY <1>1, <1>2, <1>3, ActorMoves
<1>5. \A b \in Actors : Same(act'[b], act[b]) BY <1>2, <1>4
<1>6. act'["rev"].goal = None BY <1>1, <1>2, <1>3, UpsetGoal
<1>7. snap' # None => snap' = snap /\ snap # None /\ snap.label # l BY <1>1 DEF NoMore
<1>8. /\ \A n \in Names : card'[Nro(n)] = card[Nro(n)]
      /\ \A k \in Labels : k # l => SameExtras(k) /\ card'[Kept(k)] = card[Kept(k)]
  <2>1. /\ \A n : Nro(n) \notin ps
        /\ \A e : Extra(e) \notin ps
        /\ \A k : k # l => Kept(k) \notin ps
        /\ \A k, e : k # l => File(k, e) \notin ps
    <3>1. \A n : Nro(n) \notin ps BY Apart
    <3>2. \A e : Extra(e) \notin ps BY Apart
    <3>3. \A k : k # l => Kept(k) \notin ps BY Apart
    <3>4. \A k, e : k # l => File(k, e) \notin ps BY Apart
    <3> QED BY <3>1, <3>2, <3>3, <3>4
  <2> HIDE DEF ps
  <2>2. \A p \in Paths \ ps : card'[p] = card[p] BY <1>1 DEF Removed
  <2>3. \A n \in Names : card'[Nro(n)] = card[Nro(n)] BY <2>1, <2>2, PathFacts
  <2>4. ASSUME NEW k \in Labels, k # l PROVE SameExtras(k) /\ card'[Kept(k)] = card[Kept(k)]
    <3>1. new'[k] = new[k] BY <1>1, <1>3, <2>4 DEF CardOK
    <3>2. card'[Kept(k)] = card[Kept(k)] BY <2>1, <2>2, <2>4, PathFacts
    <3>3. \A e \in Extras : card'[Extra(e)] = card[Extra(e)] BY <2>1, <2>2, PathFacts
    <3>4. \A e \in Extras : card'[File(k, e)] = card[File(k, e)]
      BY <2>1, <2>2, <2>4, PathFacts
    <3> QED BY <3>1, <3>2, <3>3, <3>4 DEF SameExtras
  <2> QED BY <2>3, <2>4
<1>9. SnapInv'
  <2> SUFFICES ASSUME snap' # None
               PROVE  \E b \in Actors : Sole(b)' /\ Owes(card', new', act'[b], snap')
    BY DEF SnapInv
  <2>1. PICK b \in Actors : Sole(b) /\ Owes(card, new, act[b], snap)
    BY <1>7 DEF RollInv, SnapInv
  <2> DEFINE r == act[b]
             k == snap.label
  <2>2. snap' = snap /\ k # l /\ k \in Labels BY <1>7, RollFacts
  <2>3. SameExtras(k) /\ card'[Kept(k)] = card[Kept(k)] BY <1>8, <2>2
  <2>4. r \in Actor /\ (r.pc # "idle" => Knows(r)) BY RollFacts
  <2>5. Added(new', r, snap) = Added(new, r, snap) BY <2>3 DEF Added, SameExtras
  <2>6. OwesFiles(card', new', r, snap)
    BY <2>1, <2>3, <2>5 DEF Owes, OwesFiles, Saved, SameExtras, Theirs
  <2>7. OwesBuild(card', r, snap)
    <3>1. r.pc = "keeping" \/ Early(r) => r.pc # "idle" BY DEF Early, Filling
    <3> QED BY <1>8, <2>1, <2>3, <2>4, <3>1 DEF Owes, OwesBuild, Knows
  <2>8. OwesPlan(r, snap) BY <2>1 DEF Owes
  <2>9. OwesTodo(card', new', r, snap)
    <3>1. /\ r.todo \subseteq Extras /\ Theirs \subseteq Extras /\ new'[k] = new[k]
          /\ \A e \in Extras : /\ card'[Extra(e)] = card[Extra(e)]
                              /\ card'[File(k, e)] = card[File(k, e)]
      BY <2>3, <2>4 DEF SameExtras, Theirs, Actor
    <3> QED BY <2>1, <2>5, <3>1 DEF Owes, OwesTodo, InPlace
  <2>10. Owes(card', new', r, snap') BY <2>2, <2>6, <2>7, <2>8, <2>9 DEF Owes
  <2>11. Owes(card', new', act'[b], snap') BY <1>5, <2>10, SameOwes
  <2>12. Sole(b)' BY <1>5, <2>1 DEF Sole, Same
  <2> QED BY <2>11, <2>12
<1>10. \A b \in Actors : Neat(act'[b])
  BY <1>1, <1>2, <1>3, NeatMoves DEF RollInv
<1> QED BY <1>6, <1>9, <1>10 DEF RollInv, GoalInv

\* Nobody is at work: what is owed is in the backup.
LEMMA PlayRolls == ASSUME IInv, RollInv, NEW u \in Extras, Play(u) PROVE RollInv'
<1>1. /\ act' = act /\ snap' = snap /\ new' = new /\ u \in UserData
      /\ card' = [card EXCEPT ![Extra(u)] = Own] /\ \A b \in Actors : act[b].pc = "idle"
  BY DEF Play, At, book
<1>2. CardOK BY DEF IInv, TypeOK
<1>3. /\ \A e \in Theirs : card'[Extra(e)] = card[Extra(e)]
      /\ \A l \in Labels, e \in Theirs : card'[File(l, e)] = card[File(l, e)]
      /\ \A l \in Labels : card'[Kept(l)] = card[Kept(l)]
  <2> DEFINE p == Extra(u)
  <2>1. /\ \A e \in Theirs : Extra(e) # p
        /\ \A l, e : File(l, e) # p
        /\ \A l : Kept(l) # p
    BY <1>1, Apart DEF Theirs
  <2> HIDE DEF p
  <2>2. \A q \in Paths \ {p} : card'[q] = card[q] BY <1>1, <1>2 DEF CardOK, p
  <2> QED BY <2>1, <2>2, PathFacts DEF Theirs
<1>4. "rev" \in Actors BY DEF Actors
<1>5. act["rev"].goal = None BY <1>1, <1>4 DEF RollInv, Neat
<1>6. SnapInv'
  <2> SUFFICES ASSUME snap # None
               PROVE  \E b \in Actors : Sole(b)' /\ Owes(card', new', act[b], snap)
    BY <1>1 DEF SnapInv
  <2>1. PICK b \in Actors : Sole(b) /\ Owes(card, new, act[b], snap) BY DEF RollInv, SnapInv
  <2>2. act[b].pc = "idle" /\ snap.label \in Labels BY <1>1, RollFacts
  <2>3. OwesFiles(card', new', act[b], snap)
    BY <1>1, <1>3, <2>1, <2>2 DEF Owes, OwesFiles, Saved, Added
  <2>4. OwesBuild(card', act[b], snap)
    BY <1>3, <2>1, <2>2 DEF Owes, OwesBuild, Early, Filling
  <2>5. OwesPlan(act[b], snap) BY <2>1 DEF Owes
  <2>6. OwesTodo(card', new', act[b], snap) BY <2>2 DEF OwesTodo, Filling, Ahead
  <2>7. Sole(b)' BY <1>1, <2>1 DEF Sole
  <2> QED BY <2>3, <2>4, <2>5, <2>6, <2>7 DEF Owes
<1> QED BY <1>1, <1>5, <1>6 DEF RollInv, GoalInv

LEMMA ForgetRolls == ASSUME IInv, RollInv, Exit \/ PowerCut PROVE RollInv'
<1>1. /\ act' = [a \in Actors |-> Idle] /\ card' = card /\ new' = new
      /\ snap' = None \/ (snap' = snap /\ act["ui"].pc = "idle"
                                     /\ act["rev"].pc \in {"idle", "reap"})
  BY DEF Exit, PowerCut, Forget, UiFree, At, book
<1>2. /\ Idle.pc = "idle" /\ Idle.added = {} /\ Idle.goal = None
  BY DEF Idle
<1>3. \A b \in Actors : act'[b] = Idle /\ Neat(Idle) BY <1>1, <1>2 DEF Neat
<1>4. SnapInv'
  <2> SUFFICES ASSUME snap' # None
               PROVE  \E b \in Actors : Sole(b)' /\ Owes(card', new', act'[b], snap')
    BY DEF SnapInv
  <2>1. /\ snap' = snap /\ snap # None
        /\ \A b \in Actors : act[b].pc \in {"idle", "reap"}
    BY <1>1 DEF Actors
  <2>2. PICK b \in Actors : Owes(card, new, act[b], snap) BY <2>1 DEF RollInv, SnapInv
  <2> DEFINE r == act[b]
  <2>3. r.pc \in {"idle", "reap"} /\ r.added = {} /\ snap.label \in Labels
    BY <2>1, RollFacts DEF Neat, Filling
  <2>4. SameExtras(snap.label) BY <1>1 DEF SameExtras
  <2>5. OwesBuild(card', Idle, snap)
    BY <1>1, <1>2, <2>2, <2>3 DEF Owes, OwesBuild, Early, Filling
  <2> HIDE DEF r
  <2>6. Owes(card, new, r, snap) BY <2>2 DEF r
  <2>7. Owes(card', new', Idle, snap)
    BY <1>2, <2>3, <2>4, <2>5, <2>6, OwesOn DEF Filling, Ahead
  <2>8. Sole(b)' BY <1>2, <1>3 DEF Sole
  <2> QED BY <1>3, <2>1, <2>7, <2>8
<1>5. "rev" \in Actors BY DEF Actors
<1> QED BY <1>2, <1>3, <1>4, <1>5 DEF RollInv, GoalInv

LEMMA RollRests ==
  ASSUME RollInv, card' = card, new' = new, act' = act, snap' = snap
  PROVE  RollInv'
BY DEF RollInv, SnapInv, GoalInv, Sole

LEMMA RollInductive == ASSUME IInv, RollInv, [Next]_vars PROVE RollInv'
<1>1. CASE \E a \in Actors : Work(a) BY <1>1, WorkRolls
<1>2. CASE ScanStart \/ ScanRead \/ ScanPublish \/ Published
  BY <1>2, RollRests DEF ScanStart, ScanRead, ScanPublish, Published, book
<1>3. CASE AppRevertTick BY <1>3, AppRevertTickRolls
<1>4. CASE \E j \in Jobs : UmiStart(j) \/ UmiFails(j)
  BY <1>4, RollRests DEF UmiStart, UmiFails, book
<1>5. CASE \E j \in Jobs : UmiTick(j) BY <1>5, UmiTickRolls
<1>6. CASE \E n \in Names, v \in Releases : Push(n, v) BY <1>6, PushRolls
<1>7. CASE \E m \in Match, l \in Labels : AppRevert(m, l) BY <1>7, AppRevertRolls
<1>8. CASE \E l \in Labels : Delete(l) BY <1>8, DeleteRolls
<1>9. CASE \E u \in Extras : Play(u) BY <1>9, PlayRolls
<1>10. CASE Exit \/ PowerCut BY <1>10, ForgetRolls
<1>11. CASE UNCHANGED vars BY <1>11, RollRests DEF vars
<1> QED BY <1>1, <1>2, <1>3, <1>4, <1>5, <1>6, <1>7, <1>8, <1>9, <1>10, <1>11 DEF Next

LEMMA InitRolls == ASSUME Init PROVE RollInv
<1>1. /\ Idle.pc = "idle" /\ Idle.added = {} /\ Idle.goal = None
  BY DEF Idle
<1>2. snap = None /\ "rev" \in Actors /\ \A b \in Actors : act[b] = Idle
  BY DEF Init, Actors
<1> QED BY <1>1, <1>2 DEF RollInv, SnapInv, GoalInv, Neat, Filling

LEMMA RollHolds == ASSUME RollInv PROVE RollbackRestores
BY DEF RollInv, GoalInv, Due, DueBuild, DueFiles, RollbackRestores, Theirs

\* A rollback to the backup of the last change (AppRevertThread, backup_restore_files)
\* brings back the build and every file that is not the user's, for any releases, files,
\* labels and jobs: whatever was pruned, deleted, played, downloaded, scanned or tried
\* again in between.
THEOREM RollbackCorrect == Spec => []RollbackRestores
<1>1. IInv /\ RollInv /\ [Next]_vars => RollInv' BY RollInductive
<1>2. RollInv => RollbackRestores BY RollHolds
<1>3. Init => RollInv BY InitRolls
<1> QED BY <1>1, <1>2, <1>3, Inductive, PTL DEF Spec

-----------------------------------------------------------------------------
(* The collection list *)

ListContents == Nat
Replacing == {"import", "restore"}
ListPcs == Moves \cup {"idle", "open", "write", "commit", "seed", "seeding", "read"}
Job == [op : {"none", "boot", "save"} \cup Replacing, pc : ListPcs,
        half : {"clear", "rename", "copy", "unlink"}, in : ListContents, slot : Slots,
        had : [Files -> ListContents]]

ListTypeOK ==
  /\ file \in [Files -> ListContents] /\ mem \in ListContents /\ made \in Nat
  /\ run \in {"off", "on"} /\ job \in Job /\ faults \in Nat /\ cuts \in Nat

L == job.had["live"]
Other(s) == IF s = "bak" THEN "bak2" ELSE "bak"
Saving == {"open", "write", "land", "commit"}

\* Which operation does what.
Flow ==
  /\ job.op = "none" <=> job.pc = "idle"
  /\ run = "off" => job = NoJob
  /\ job.pc \notin Moves => job.half = "clear"
  /\ job.op = "boot" => job.pc \in {"migrate", "seed", "seeding", "read"}
  /\ job.op = "save" => job.pc \in Saving
  /\ job.op = "import" => job.pc \in Saving \cup {"rotate", "park", "unpark", "unrotate"}
  /\ job.op = "restore" => job.pc \in Saving \cup {"park", "unpark"}
  /\ job.op = "import" => job.slot = "bak"
  /\ job.op = "restore" => job.in = job.had[job.slot]
  /\ job.op \in {"save"} \cup Replacing => Whole(job.in)

\* A save: the new list is staged before the live one gives way.
Landing ==
  /\ job.op = "save" /\ job.pc \in {"open", "write"} => file["live"] = L
  /\ job.pc = "land" => file["tmp"] = job.in
  /\ job.pc = "land" /\ job.half = "unlink" => file["live"] = job.in
  /\ job.pc = "commit" => file["live"] = job.in

Rotating ==
  job.pc = "rotate" =>
    /\ file["live"] = L /\ file["bak"] = job.had["bak"]
    /\ job.half = "rename" => file["bak2"] = Absent
    /\ job.half = "copy" => faults >= 1
    /\ job.half = "unlink" => file["bak2"] = job.had["bak"]

Parking ==
  job.pc = "park" =>
    /\ file["live"] = L
    /\ job.half = "rename" => file[job.slot] = Absent
    /\ job.half = "copy" => faults >= 1
    /\ job.half = "unlink" => file[job.slot] = L

\* A park fails only by a refused rename and a failed copy.
Parked ==
  job.op \in Replacing =>
    /\ job.pc \in {"open", "write"} =>
         \/ file[job.slot] = L /\ file["live"] = Absent
         \/ faults >= 2 /\ file["live"] = L
    /\ job.pc \in {"land", "commit"} => file[job.slot] = L \/ faults >= 2
    /\ job.pc = "land" /\ job.half = "copy" => faults >= 1

Unparking ==
  /\ job.pc = "unpark" =>
       /\ faults >= 1
       /\ faults < 3 => file[job.slot] = L
       /\ job.half = "rename" => file["live"] = Absent
       /\ job.half = "copy" => faults >= 2
       /\ job.half = "unlink" /\ faults < 3 => file["live"] = L
  /\ job.pc = "unrotate" /\ faults < 3 => file["live"] = L

\* The backup that is not parked on.
Aging ==
  faults < 2 /\ job.pc \in Saving \cup {"park"} =>
    /\ job.op = "import" => file["bak2"] = job.had["bak"]
    /\ job.op = "restore" => file[Other(job.slot)] = job.had[Other(job.slot)]

ListIInv == ListTypeOK /\ Flow /\ Landing /\ Rotating /\ Parking /\ Parked /\ Unparking /\ Aging

-----------------------------------------------------------------------------

LEMMA IdleFacts ==
  NoJob \in Job /\ NoJob.op = "none" /\ NoJob.pc = "idle" /\ NoJob.half = "clear"
BY DEF NoJob, Job, ListPcs, ListContents, Files, Lists, Slots, Absent

LEMMA Ends ==
  ASSUME NEW pc \in Moves, job.pc = pc
  PROVE  /\ pc = "migrate"  => From = "old"    /\ To = "live"
         /\ pc = "rotate"   => From = "bak"    /\ To = "bak2"
         /\ pc = "park"     => From = "live"   /\ To = job.slot
         /\ pc = "land"     => From = "tmp"    /\ To = "live"
         /\ pc = "unpark"   => From = job.slot /\ To = "live"
         /\ pc = "unrotate" => From = "bak2"   /\ To = "bak"
BY DEF From, To, Moves

\* What goes on with the same operation keeps what it began with.
LEMMA GotoFacts ==
  ASSUME job \in Job, NEW pc \in ListPcs, Proceed(pc)
  PROVE  /\ job' \in Job /\ job'.op = job.op /\ job'.pc = pc /\ job'.half = "clear"
         /\ job'.in = job.in /\ job'.slot = job.slot /\ job'.had = job.had
BY DEF Proceed, Job

LEMMA HalfFacts ==
  ASSUME job \in Job, NEW h \in {"clear", "rename", "copy", "unlink"},
         job' = [job EXCEPT !.half = h]
  PROVE  /\ job' \in Job /\ job'.op = job.op /\ job'.pc = job.pc /\ job'.half = h
         /\ job'.in = job.in /\ job'.slot = job.slot /\ job'.had = job.had
BY DEF Job

LEMMA BeginFacts ==
  ASSUME ListTypeOK, NEW op \in {"boot", "save"} \cup Replacing, NEW pc \in ListPcs,
         NEW in \in ListContents,
         NEW s \in Slots, Begin(op, pc, in, s)
  PROVE  /\ job' \in Job /\ job'.op = op /\ job'.pc = pc /\ job'.half = "clear"
         /\ job'.in = in /\ job'.slot = s /\ job'.had = file
BY DEF Begin, Job, ListTypeOK

LEMMA Initially == ASSUME ConfigInit PROVE ListIInv
<1>1. ListTypeOK
  BY ConfigAssumption, IdleFacts DEF ConfigInit, ListTypeOK, ListContents, Blank, Absent, Version
<1>2. Flow
  BY IdleFacts DEF ConfigInit, Flow, Replacing
<1> QED BY <1>1, <1>2, IdleFacts DEF ConfigInit, ListIInv, Landing, Rotating, Parking, Parked,
           Unparking, Aging, Moves, Saving, Replacing

(* The moves. *)

LEMMA ClearStep == ASSUME ListIInv, ClearTarget PROVE ListIInv'
<1> USE DEF ListIInv, ClearTarget, Moving
<1>1. /\ job' \in Job /\ job'.op = job.op /\ job'.pc = job.pc /\ job'.half = "rename"
      /\ job'.in = job.in /\ job'.slot = job.slot /\ job'.had = job.had
  BY HalfFacts DEF ListTypeOK
<1>2. job.slot \in Slots /\ job.op \in {"none", "boot", "save", "import", "restore"}
  BY DEF ListTypeOK, Job, Replacing
<1>3. ListTypeOK'
  BY <1>1, <1>2, Ends DEF ListTypeOK, ListContents, Absent, Half, Files, Lists,
     Slots, Moves
<1> QED
  BY <1>1, <1>2, <1>3, Ends, IdleFacts DEF ListTypeOK, Flow, Landing, Rotating, Parking, Parked,
     Unparking, Aging, L, Other, Files, Lists, Slots, Moves, Saving, Replacing,
     Absent, ListContents, Whole, Seed

LEMMA RefusedStep == ASSUME ListIInv, RenameRefused PROVE ListIInv'
<1> USE DEF ListIInv, RenameRefused, Moving
<1>1. /\ job' \in Job /\ job'.op = job.op /\ job'.pc = job.pc /\ job'.half = "copy"
      /\ job'.in = job.in /\ job'.slot = job.slot /\ job'.had = job.had
  BY HalfFacts DEF ListTypeOK
<1>2. job.slot \in Slots /\ job.op \in {"none", "boot", "save", "import", "restore"}
  BY DEF ListTypeOK, Job, Replacing
<1>3. ListTypeOK'
  BY <1>1, <1>2, Ends DEF ListTypeOK, ListContents, Absent, Half, Files, Lists,
     Slots, Moves, Refused
<1> QED
  BY <1>1, <1>2, <1>3, Ends, IdleFacts DEF ListTypeOK, Flow, Landing, Rotating, Parking, Parked,
     Unparking, Aging, L, Other, Files, Lists, Slots, Moves, Saving, Replacing,
     Absent, ListContents, Whole, Seed, Refused, Half

LEMMA CopiedStep == ASSUME ListIInv, Copied PROVE ListIInv'
<1> USE DEF ListIInv, Copied, Moving
<1>1. /\ job' \in Job /\ job'.op = job.op /\ job'.pc = job.pc /\ job'.half = "unlink"
      /\ job'.in = job.in /\ job'.slot = job.slot /\ job'.had = job.had
  BY HalfFacts DEF ListTypeOK
<1>2. job.slot \in Slots /\ job.op \in {"none", "boot", "save", "import", "restore"}
  BY DEF ListTypeOK, Job, Replacing
<1>3. ListTypeOK'
  BY <1>1, <1>2, Ends DEF ListTypeOK, ListContents, Absent, Half, Files, Lists,
     Slots, Moves
<1> QED
  BY <1>1, <1>2, <1>3, Ends, IdleFacts DEF ListTypeOK, Flow, Landing, Rotating, Parking, Parked,
     Unparking, Aging, L, Other, Files, Lists, Slots, Moves, Saving, Replacing,
     Absent, ListContents, Whole, Seed

\* Where a move leads, for each purpose it is made for.
Onward(ok) ==
  /\ job' \in Job /\ job'.half = "clear"
  /\ \/ /\ \/ job.pc = "unrotate"
           \/ job.pc = "unpark" /\ job.op # "import"
           \/ job.pc = "land" /\ ~ok /\ job.op = "save"
        /\ job' = NoJob /\ job'.op = "none" /\ job'.pc = "idle"
     \/ /\ job'.op = job.op /\ job'.in = job.in /\ job'.slot = job.slot /\ job'.had = job.had
        /\ \/ job.pc = "migrate" /\ job'.pc = "seed"
           \/ job.pc = "rotate" /\ job'.pc = "park"
           \/ job.pc = "park" /\ job'.pc = "open"
           \/ job.pc = "land" /\ ok /\ job'.pc = "commit"
           \/ job.pc = "land" /\ ~ok /\ job.op # "save" /\ job'.pc = "unpark"
           \/ job.pc = "unpark" /\ job.op = "import" /\ job'.pc = "unrotate"

LEMMA MovedFacts ==
  ASSUME job \in Job, job.pc \in Moves, NEW ok \in BOOLEAN, AfterMove(ok)
  PROVE  Onward(ok)
<1> USE DEF Onward, AfterMove
<1>1. "seed" \in ListPcs /\ "park" \in ListPcs /\ "open" \in ListPcs /\ "commit" \in ListPcs
      /\ "unpark" \in ListPcs /\ "unrotate" \in ListPcs
  BY DEF ListPcs, Moves
<1>2. CASE job.pc = "migrate"
  BY <1>1, <1>2, GotoFacts
<1>3. CASE job.pc = "rotate"
  BY <1>1, <1>3, GotoFacts
<1>4. CASE job.pc = "park"
  BY <1>1, <1>4, GotoFacts
<1>5. CASE job.pc = "land"
  BY <1>1, <1>5, GotoFacts, IdleFacts DEF Undo, End
<1>6. CASE job.pc = "unpark"
  BY <1>1, <1>6, GotoFacts, IdleFacts DEF End
<1>7. CASE job.pc = "unrotate"
  BY <1>1, <1>7, IdleFacts DEF End
<1> QED BY <1>2, <1>3, <1>4, <1>5, <1>6, <1>7 DEF Moves

LEMMA RenameStep == ASSUME ListIInv, Rename PROVE ListIInv'
<1> USE DEF ListIInv, Rename, Moving
<1>1. Onward(TRUE)
  BY MovedFacts DEF ListTypeOK
<1>2. job.slot \in Slots /\ job.op \in {"none", "boot", "save", "import", "restore"}
  BY DEF ListTypeOK, Job, Replacing
<1>3. ListTypeOK'
  BY <1>1, <1>2, Ends DEF Onward, ListTypeOK, ListContents, Absent, Half, Files,
     Lists, Slots, Moves
<1> QED
  BY <1>1, <1>2, <1>3, Ends, IdleFacts DEF Onward, ListTypeOK, Flow, Landing, Rotating, Parking,
     Parked, Unparking, Aging, L, Other, Files, Lists, Slots, Moves, Saving,
     Replacing, Absent, ListContents, Whole, Seed

LEMMA NothingStep == ASSUME ListIInv, NothingToMove PROVE ListIInv'
<1> USE DEF ListIInv, NothingToMove, Moving
<1>1. Onward(FALSE)
  BY MovedFacts DEF ListTypeOK
<1>2. job.slot \in Slots /\ job.op \in {"none", "boot", "save", "import", "restore"}
  BY DEF ListTypeOK, Job, Replacing
<1>3. ListTypeOK'
  BY <1>1, <1>2, Ends DEF Onward, ListTypeOK, ListContents, Absent, Half, Files,
     Lists, Slots, Moves
<1>4. Flow'
  BY <1>1, <1>2, <1>3, Ends, IdleFacts DEF Onward, ListTypeOK, Flow, Landing, Rotating, Parking,
     Parked, Unparking, Aging, L, Other, Files, Lists, Slots, Moves, Saving,
     Replacing, Absent, ListContents, Whole, Seed
<1>5. Landing'
  BY <1>1, <1>2, <1>3, Ends, IdleFacts DEF Onward, ListTypeOK, Flow, Landing, Rotating, Parking,
     Parked, Unparking, Aging, L, Other, Files, Lists, Slots, Moves, Saving,
     Replacing, Absent, ListContents, Whole, Seed
<1>6. Rotating'
  BY <1>1, <1>2, <1>3, Ends, IdleFacts DEF Onward, ListTypeOK, Flow, Landing, Rotating, Parking,
     Parked, Unparking, Aging, L, Other, Files, Lists, Slots, Moves, Saving,
     Replacing, Absent, ListContents, Whole, Seed
<1>7. Parking'
  BY <1>1, <1>2, <1>3, Ends, IdleFacts DEF Onward, ListTypeOK, Flow, Landing, Rotating, Parking,
     Parked, Unparking, Aging, L, Other, Files, Lists, Slots, Moves, Saving,
     Replacing, Absent, ListContents, Whole, Seed
<1>8. Parked'
  BY <1>1, <1>2, <1>3, Ends, IdleFacts DEF Onward, ListTypeOK, Flow, Landing, Rotating, Parking,
     Parked, Unparking, Aging, L, Other, Files, Lists, Slots, Moves, Saving,
     Replacing, Absent, ListContents, Whole, Seed
<1>9. Unparking'
  BY <1>1, <1>2, <1>3, Ends, IdleFacts DEF Onward, ListTypeOK, Flow, Landing, Rotating, Parking,
     Parked, Unparking, Aging, L, Other, Files, Lists, Slots, Moves, Saving,
     Replacing, Absent, ListContents, Whole, Seed
<1>10. Aging'
  BY <1>1, <1>2, <1>3, Ends, IdleFacts DEF Onward, ListTypeOK, Flow, Landing, Rotating, Parking,
     Parked, Unparking, Aging, L, Other, Files, Lists, Slots, Moves, Saving,
     Replacing, Absent, ListContents, Whole, Seed
<1> QED BY <1>3, <1>4, <1>5, <1>6, <1>7, <1>8, <1>9, <1>10

LEMMA ListCopyFailsStep == ASSUME ListIInv, CopyRefused PROVE ListIInv'
<1> USE DEF ListIInv, CopyRefused, Moving
<1>1. Onward(FALSE)
  BY MovedFacts DEF ListTypeOK
<1>2. job.slot \in Slots /\ job.op \in {"none", "boot", "save", "import", "restore"}
  BY DEF ListTypeOK, Job, Replacing
<1>3. ListTypeOK'
  BY <1>1, <1>2, Ends DEF Onward, ListTypeOK, ListContents, Absent, Half, Files,
     Lists, Slots, Moves, Refused
<1>4. Flow'
  BY <1>1, <1>2, <1>3, Ends, IdleFacts DEF Onward, ListTypeOK, Flow, Landing, Rotating, Parking,
     Parked, Unparking, Aging, L, Other, Files, Lists, Slots, Moves, Saving,
     Replacing, Absent, ListContents, Whole, Seed, Refused
<1>5. Landing'
  BY <1>1, <1>2, <1>3, Ends, IdleFacts DEF Onward, ListTypeOK, Flow, Landing, Rotating, Parking,
     Parked, Unparking, Aging, L, Other, Files, Lists, Slots, Moves, Saving,
     Replacing, Absent, ListContents, Whole, Seed, Refused
<1>6. Rotating'
  BY <1>1, <1>2, <1>3, Ends, IdleFacts DEF Onward, ListTypeOK, Flow, Landing, Rotating, Parking,
     Parked, Unparking, Aging, L, Other, Files, Lists, Slots, Moves, Saving,
     Replacing, Absent, ListContents, Whole, Seed, Refused
<1>7. Parking'
  BY <1>1, <1>2, <1>3, Ends, IdleFacts DEF Onward, ListTypeOK, Flow, Landing, Rotating, Parking,
     Parked, Unparking, Aging, L, Other, Files, Lists, Slots, Moves, Saving,
     Replacing, Absent, ListContents, Whole, Seed, Refused
<1>8. Parked'
  BY <1>1, <1>2, <1>3, Ends, IdleFacts DEF Onward, ListTypeOK, Flow, Landing, Rotating, Parking,
     Parked, Unparking, Aging, L, Other, Files, Lists, Slots, Moves, Saving,
     Replacing, Absent, ListContents, Whole, Seed, Refused
<1>9. Unparking'
  BY <1>1, <1>2, <1>3, Ends, IdleFacts DEF Onward, ListTypeOK, Flow, Landing, Rotating, Parking,
     Parked, Unparking, Aging, L, Other, Files, Lists, Slots, Moves, Saving,
     Replacing, Absent, ListContents, Whole, Seed, Refused
<1>10. Aging'
  BY <1>1, <1>2, <1>3, Ends, IdleFacts DEF Onward, ListTypeOK, Flow, Landing, Rotating, Parking,
     Parked, Unparking, Aging, L, Other, Files, Lists, Slots, Moves, Saving,
     Replacing, Absent, ListContents, Whole, Seed, Refused
<1> QED BY <1>3, <1>4, <1>5, <1>6, <1>7, <1>8, <1>9, <1>10

LEMMA UnlinkStep == ASSUME ListIInv, Unlink PROVE ListIInv'
<1> USE DEF ListIInv, Unlink, Moving
<1>1. Onward(TRUE)
  BY MovedFacts DEF ListTypeOK
<1>2. job.slot \in Slots /\ job.op \in {"none", "boot", "save", "import", "restore"}
  BY DEF ListTypeOK, Job, Replacing
<1>3. ListTypeOK'
  BY <1>1, <1>2, Ends DEF Onward, ListTypeOK, ListContents, Absent, Half, Files,
     Lists, Slots, Moves
<1> QED
  BY <1>1, <1>2, <1>3, Ends, IdleFacts DEF Onward, ListTypeOK, Flow, Landing, Rotating, Parking,
     Parked, Unparking, Aging, L, Other, Files, Lists, Slots, Moves, Saving,
     Replacing, Absent, ListContents, Whole, Seed

-----------------------------------------------------------------------------
(* The other steps of an operation. *)

LEMMA OpenStep == ASSUME ListIInv, OpenStage PROVE ListIInv'
<1> USE DEF ListIInv, OpenStage, Doing
<1>1. /\ job' \in Job /\ job'.op = job.op /\ job'.pc = "write" /\ job'.half = "clear"
      /\ job'.in = job.in /\ job'.slot = job.slot /\ job'.had = job.had
  BY GotoFacts DEF ListTypeOK, ListPcs, Moves
<1>2. job.slot \in Slots /\ job.in \in ListContents
  BY DEF ListTypeOK, Job
<1>3. ListTypeOK'
  BY <1>1, <1>2 DEF ListTypeOK, ListContents, Half, Seed, Files, Lists, Half
<1> QED
  BY <1>1, <1>2, <1>3, IdleFacts DEF ListTypeOK, Flow, Landing, Rotating, Parking, Parked,
     Unparking, Aging, L, Other, Files, Lists, Slots, Moves, Saving, Replacing,
     Absent, ListContents, Whole, Seed, Half

LEMMA CloseStep == ASSUME ListIInv, CloseStage PROVE ListIInv'
<1> USE DEF ListIInv, CloseStage, Doing
<1>1. /\ job' \in Job /\ job'.op = job.op /\ job'.pc = "land" /\ job'.half = "clear"
      /\ job'.in = job.in /\ job'.slot = job.slot /\ job'.had = job.had
  BY GotoFacts DEF ListTypeOK, ListPcs, Moves
<1>2. job.slot \in Slots /\ job.in \in ListContents
  BY DEF ListTypeOK, Job
<1>3. ListTypeOK'
  BY <1>1, <1>2 DEF ListTypeOK, ListContents, Half, Seed, Files, Lists
<1> QED
  BY <1>1, <1>2, <1>3, IdleFacts DEF ListTypeOK, Flow, Landing, Rotating, Parking, Parked,
     Unparking, Aging, L, Other, Files, Lists, Slots, Moves, Saving, Replacing,
     Absent, ListContents, Whole, Seed

LEMMA SeedBeginStep == ASSUME ListIInv, SeedBegin PROVE ListIInv'
<1> USE DEF ListIInv, SeedBegin, Doing
<1>1. /\ job' \in Job /\ job'.op = job.op /\ job'.pc = "seeding" /\ job'.half = "clear"
      /\ job'.in = job.in /\ job'.slot = job.slot /\ job'.had = job.had
  BY GotoFacts DEF ListTypeOK, ListPcs, Moves
<1>2. job.slot \in Slots /\ job.in \in ListContents
  BY DEF ListTypeOK, Job
<1>3. ListTypeOK'
  BY <1>1, <1>2 DEF ListTypeOK, ListContents, Half, Seed, Files, Lists, Half
<1> QED
  BY <1>1, <1>2, <1>3, IdleFacts DEF ListTypeOK, Flow, Landing, Rotating, Parking, Parked,
     Unparking, Aging, L, Other, Files, Lists, Slots, Moves, Saving, Replacing,
     Absent, ListContents, Whole, Seed, Half

LEMMA SeedNothingStep == ASSUME ListIInv, SeedNothing PROVE ListIInv'
<1> USE DEF ListIInv, SeedNothing, Doing
<1>1. /\ job' \in Job /\ job'.op = job.op /\ job'.pc = "read" /\ job'.half = "clear"
      /\ job'.in = job.in /\ job'.slot = job.slot /\ job'.had = job.had
  BY GotoFacts DEF ListTypeOK, ListPcs, Moves
<1>2. job.slot \in Slots /\ job.in \in ListContents
  BY DEF ListTypeOK, Job
<1>3. ListTypeOK'
  BY <1>1, <1>2 DEF ListTypeOK, ListContents, Half, Seed, Files, Lists
<1> QED
  BY <1>1, <1>2, <1>3, IdleFacts DEF ListTypeOK, Flow, Landing, Rotating, Parking, Parked,
     Unparking, Aging, L, Other, Files, Lists, Slots, Moves, Saving, Replacing,
     Absent, ListContents, Whole, Seed

LEMMA SeedEndStep == ASSUME ListIInv, SeedEnd PROVE ListIInv'
<1> USE DEF ListIInv, SeedEnd, Doing
<1>1. /\ job' \in Job /\ job'.op = job.op /\ job'.pc = "read" /\ job'.half = "clear"
      /\ job'.in = job.in /\ job'.slot = job.slot /\ job'.had = job.had
  BY GotoFacts DEF ListTypeOK, ListPcs, Moves
<1>2. job.slot \in Slots /\ job.in \in ListContents
  BY DEF ListTypeOK, Job
<1>3. ListTypeOK'
  <2>1. file' = file \/ file' = [file EXCEPT !["live"] = Seed]
    OBVIOUS
  <2>2. file' \in [Files -> ListContents]
    BY <2>1 DEF ListTypeOK, ListContents, Seed
  <2>3. faults' \in Nat
    BY DEF ListTypeOK, Refused
  <2> QED BY <1>1, <2>2, <2>3 DEF ListTypeOK
<1> QED
  BY <1>1, <1>2, <1>3, IdleFacts DEF ListTypeOK, Flow, Landing, Rotating, Parking, Parked,
     Unparking, Aging, L, Other, Files, Lists, Slots, Moves, Saving, Replacing,
     Absent, ListContents, Whole, Seed, Refused

LEMMA OpenFailsStep == ASSUME ListIInv, OpenFails PROVE ListIInv'
<1> USE DEF ListIInv, OpenFails, Doing, Undo, End, Refused
<1>1. /\ job' \in Job /\ job'.half = "clear"
      /\ IF job.op = "save" THEN job' = NoJob /\ job'.op = "none" /\ job'.pc = "idle"
         ELSE /\ job'.op = job.op /\ job'.pc = "unpark"
              /\ job'.in = job.in /\ job'.slot = job.slot /\ job'.had = job.had
  BY GotoFacts, IdleFacts DEF ListTypeOK, ListPcs, Moves
<1>2. job.slot \in Slots /\ job.op \in {"none", "boot", "save", "import", "restore"}
  BY DEF ListTypeOK, Job, Replacing
<1>3. ListTypeOK'
  BY <1>1, <1>2 DEF ListTypeOK, ListContents, Absent, Files, Lists
<1>4. Flow'
  BY <1>1, <1>2, <1>3, IdleFacts DEF ListTypeOK, Flow, Landing, Rotating, Parking, Parked,
     Unparking, Aging, L, Other, Files, Lists, Slots, Moves, Saving, Replacing,
     Absent, ListContents, Whole, Seed
<1>5. Landing'
  BY <1>1, <1>2, <1>3, IdleFacts DEF ListTypeOK, Flow, Landing, Rotating, Parking, Parked,
     Unparking, Aging, L, Other, Files, Lists, Slots, Moves, Saving, Replacing,
     Absent, ListContents, Whole, Seed
<1>6. Rotating'
  BY <1>1, <1>2, <1>3, IdleFacts DEF ListTypeOK, Flow, Landing, Rotating, Parking, Parked,
     Unparking, Aging, L, Other, Files, Lists, Slots, Moves, Saving, Replacing,
     Absent, ListContents, Whole, Seed
<1>7. Parking'
  BY <1>1, <1>2, <1>3, IdleFacts DEF ListTypeOK, Flow, Landing, Rotating, Parking, Parked,
     Unparking, Aging, L, Other, Files, Lists, Slots, Moves, Saving, Replacing,
     Absent, ListContents, Whole, Seed
<1>8. Parked'
  BY <1>1, <1>2, <1>3, IdleFacts DEF ListTypeOK, Flow, Landing, Rotating, Parking, Parked,
     Unparking, Aging, L, Other, Files, Lists, Slots, Moves, Saving, Replacing,
     Absent, ListContents, Whole, Seed
<1>9. Unparking'
  BY <1>1, <1>2, <1>3, IdleFacts DEF ListTypeOK, Flow, Landing, Rotating, Parking, Parked,
     Unparking, Aging, L, Other, Files, Lists, Slots, Moves, Saving, Replacing,
     Absent, ListContents, Whole, Seed
<1>10. Aging'
  BY <1>1, <1>2, <1>3, IdleFacts DEF ListTypeOK, Flow, Landing, Rotating, Parking, Parked,
     Unparking, Aging, L, Other, Files, Lists, Slots, Moves, Saving, Replacing,
     Absent, ListContents, Whole, Seed
<1> QED BY <1>3, <1>4, <1>5, <1>6, <1>7, <1>8, <1>9, <1>10

LEMMA ListWriteFailsStep == ASSUME ListIInv, WriteRefused PROVE ListIInv'
<1> USE DEF ListIInv, WriteRefused, Doing, Undo, End, Refused
<1>1. /\ job' \in Job /\ job'.half = "clear"
      /\ IF job.op = "save" THEN job' = NoJob /\ job'.op = "none" /\ job'.pc = "idle"
         ELSE /\ job'.op = job.op /\ job'.pc = "unpark"
              /\ job'.in = job.in /\ job'.slot = job.slot /\ job'.had = job.had
  BY GotoFacts, IdleFacts DEF ListTypeOK, ListPcs, Moves
<1>2. job.slot \in Slots /\ job.op \in {"none", "boot", "save", "import", "restore"}
  BY DEF ListTypeOK, Job, Replacing
<1>3. ListTypeOK'
  BY <1>1, <1>2 DEF ListTypeOK, ListContents, Absent, Files, Lists
<1>4. Flow'
  BY <1>1, <1>2, <1>3, IdleFacts DEF ListTypeOK, Flow, Landing, Rotating, Parking, Parked,
     Unparking, Aging, L, Other, Files, Lists, Slots, Moves, Saving, Replacing,
     Absent, ListContents, Whole, Seed
<1>5. Landing'
  BY <1>1, <1>2, <1>3, IdleFacts DEF ListTypeOK, Flow, Landing, Rotating, Parking, Parked,
     Unparking, Aging, L, Other, Files, Lists, Slots, Moves, Saving, Replacing,
     Absent, ListContents, Whole, Seed
<1>6. Rotating'
  BY <1>1, <1>2, <1>3, IdleFacts DEF ListTypeOK, Flow, Landing, Rotating, Parking, Parked,
     Unparking, Aging, L, Other, Files, Lists, Slots, Moves, Saving, Replacing,
     Absent, ListContents, Whole, Seed
<1>7. Parking'
  BY <1>1, <1>2, <1>3, IdleFacts DEF ListTypeOK, Flow, Landing, Rotating, Parking, Parked,
     Unparking, Aging, L, Other, Files, Lists, Slots, Moves, Saving, Replacing,
     Absent, ListContents, Whole, Seed
<1>8. Parked'
  BY <1>1, <1>2, <1>3, IdleFacts DEF ListTypeOK, Flow, Landing, Rotating, Parking, Parked,
     Unparking, Aging, L, Other, Files, Lists, Slots, Moves, Saving, Replacing,
     Absent, ListContents, Whole, Seed
<1>9. Unparking'
  BY <1>1, <1>2, <1>3, IdleFacts DEF ListTypeOK, Flow, Landing, Rotating, Parking, Parked,
     Unparking, Aging, L, Other, Files, Lists, Slots, Moves, Saving, Replacing,
     Absent, ListContents, Whole, Seed
<1>10. Aging'
  BY <1>1, <1>2, <1>3, IdleFacts DEF ListTypeOK, Flow, Landing, Rotating, Parking, Parked,
     Unparking, Aging, L, Other, Files, Lists, Slots, Moves, Saving, Replacing,
     Absent, ListContents, Whole, Seed
<1> QED BY <1>3, <1>4, <1>5, <1>6, <1>7, <1>8, <1>9, <1>10

-----------------------------------------------------------------------------
(* Where an operation begins, and what else may end one. *)

LEMMA EditStep == ASSUME ListIInv, Edit PROVE ListIInv'
<1> USE DEF ListIInv, Edit, Ready, Doing, NewVersion
<1>1. Version(made') \in ListContents
  BY DEF ListTypeOK, ListContents, Version, Absent, Files, Lists, Slots
<1>2. /\ job' \in Job /\ job'.op = "save" /\ job'.pc = "open" /\ job'.half = "clear"
      /\ job'.in = Version(made') /\ job'.slot = "bak" /\ job'.had = file
  BY <1>1, BeginFacts DEF ListPcs, Moves, Replacing, Slots
<1>3. ListTypeOK'
  BY <1>1, <1>2 DEF ListTypeOK, ListContents
<1> QED
  BY <1>1, <1>2, <1>3, IdleFacts DEF ListTypeOK, Flow, Landing, Rotating, Parking, Parked,
     Unparking, Aging, L, Other, Files, Lists, Slots, Moves, Saving, Replacing,
     Absent, ListContents, Whole, Seed, Version

LEMMA ImportStep == ASSUME ListIInv, Import PROVE ListIInv'
<1> USE DEF ListIInv, Import, Ready, Doing, NewVersion
<1>1. Version(made') \in ListContents
  BY DEF ListTypeOK, ListContents, Version, Absent, Files, Lists, Slots
<1>2. /\ job' \in Job /\ job'.op = "import" /\ job'.pc = "rotate" /\ job'.half = "clear"
      /\ job'.in = Version(made') /\ job'.slot = "bak" /\ job'.had = file
  BY <1>1, BeginFacts DEF ListPcs, Moves, Replacing, Slots
<1>3. ListTypeOK'
  BY <1>1, <1>2 DEF ListTypeOK, ListContents
<1> QED
  BY <1>1, <1>2, <1>3, IdleFacts DEF ListTypeOK, Flow, Landing, Rotating, Parking, Parked,
     Unparking, Aging, L, Other, Files, Lists, Slots, Moves, Saving, Replacing,
     Absent, ListContents, Whole, Seed, Version

LEMMA RestoreStep == ASSUME ListIInv, NEW s \in Slots, Restore(s) PROVE ListIInv'
<1> USE DEF ListIInv, Restore, Ready, Doing
<1>1. file[s] \in ListContents
  BY DEF ListTypeOK, ListContents, Version, Absent, Files, Lists, Slots
<1>2. /\ job' \in Job /\ job'.op = "restore" /\ job'.pc = "park" /\ job'.half = "clear"
      /\ job'.in = file[s] /\ job'.slot = s /\ job'.had = file
  BY <1>1, BeginFacts DEF ListPcs, Moves, Replacing, Slots
<1>3. ListTypeOK'
  BY <1>1, <1>2 DEF ListTypeOK, ListContents
<1> QED
  BY <1>1, <1>2, <1>3, IdleFacts DEF ListTypeOK, Flow, Landing, Rotating, Parking, Parked,
     Unparking, Aging, L, Other, Files, Lists, Slots, Moves, Saving, Replacing,
     Absent, ListContents, Whole, Seed, Version

LEMMA StartStep == ASSUME ListIInv, Start PROVE ListIInv'
<1> USE DEF ListIInv, Start
<1>1. Absent \in ListContents
  BY DEF ListTypeOK, ListContents, Version, Absent, Files, Lists, Slots
<1>2. /\ job' \in Job /\ job'.op = "boot" /\ job'.pc \in {"migrate", "seed"} /\ job'.half = "clear"
      /\ job'.in = Absent /\ job'.slot = "bak" /\ job'.had = file
  BY <1>1, BeginFacts DEF ListPcs, Moves, Replacing, Slots
<1>3. ListTypeOK'
  BY <1>1, <1>2 DEF ListTypeOK, ListContents
<1> QED
  BY <1>1, <1>2, <1>3, IdleFacts DEF ListTypeOK, Flow, Landing, Rotating, Parking, Parked,
     Unparking, Aging, L, Other, Files, Lists, Slots, Moves, Saving, Replacing,
     Absent, ListContents, Whole, Seed, Version

LEMMA CommitStep == ASSUME ListIInv, Commit PROVE ListIInv'
<1> USE DEF ListIInv, Commit, Doing, End
<1>1. ListTypeOK'
  BY IdleFacts DEF ListTypeOK, Job, ListContents, Blank, Files, Lists
<1> QED
  BY <1>1, IdleFacts DEF ListTypeOK, Flow, Landing, Rotating, Parking, Parked, Unparking, Aging,
     L, Other, Files, Lists, Slots, Moves, Saving, Replacing, Absent,
     ListContents, Whole, Seed

LEMMA ReadStep == ASSUME ListIInv, Read PROVE ListIInv'
<1> USE DEF ListIInv, Read, Doing, End
<1>1. ListTypeOK'
  BY IdleFacts DEF ListTypeOK, Job, ListContents, Blank, Files, Lists
<1> QED
  BY <1>1, IdleFacts DEF ListTypeOK, Flow, Landing, Rotating, Parking, Parked, Unparking, Aging,
     L, Other, Files, Lists, Slots, Moves, Saving, Replacing, Absent,
     ListContents, Whole, Seed

LEMMA QuitStep == ASSUME ListIInv, Quit PROVE ListIInv'
<1> USE DEF ListIInv, Quit, Ready, Doing, Off, End
<1>1. ListTypeOK'
  BY IdleFacts DEF ListTypeOK, Job, ListContents, Blank, Files, Lists
<1> QED
  BY <1>1, IdleFacts DEF ListTypeOK, Flow, Landing, Rotating, Parking, Parked, Unparking, Aging,
     L, Other, Files, Lists, Slots, Moves, Saving, Replacing, Absent,
     ListContents, Whole, Seed

LEMMA PowerCutStep == ASSUME ListIInv, PowerFails PROVE ListIInv'
<1> USE DEF ListIInv, PowerFails, Off, End
<1>1. ListTypeOK'
  BY IdleFacts DEF ListTypeOK, Job, ListContents, Blank, Files, Lists
<1> QED
  BY <1>1, IdleFacts DEF ListTypeOK, Flow, Landing, Rotating, Parking, Parked, Unparking, Aging,
     L, Other, Files, Lists, Slots, Moves, Saving, Replacing, Absent,
     ListContents, Whole, Seed

LEMMA ListNextStep == ASSUME ListIInv, [ConfigNext]_configVars PROVE ListIInv'
<1>1. CASE UNCHANGED configVars
  BY <1>1 DEF configVars, ListIInv, ListTypeOK, Flow, Landing, Rotating, Parking, Parked, Unparking,
     Aging, L, Files, Lists, Slots, Moves, Saving, Replacing, Absent,
     ListContents, Whole, Seed
<1>2. CASE ConfigNext
  BY <1>2, ClearStep, RenameStep, NothingStep, RefusedStep, CopiedStep, ListCopyFailsStep,
     UnlinkStep, OpenStep, OpenFailsStep, CloseStep, ListWriteFailsStep, CommitStep, EditStep,
     ImportStep, RestoreStep, StartStep, SeedBeginStep, SeedNothingStep, SeedEndStep,
     ReadStep, QuitStep, PowerCutStep DEF ConfigNext
<1> QED BY <1>1, <1>2

THEOREM Invariance == ConfigSpec => []ListIInv
<1>1. ConfigInit => ListIInv
  BY Initially
<1>2. ListIInv /\ [ConfigNext]_configVars => ListIInv'
  BY ListNextStep
<1> QED BY <1>1, <1>2, PTL DEF ConfigSpec

\* Types: every file holds a content, and the operation is one of the program's
\* (config.c).
THEOREM ListTypeCorrect == ConfigSpec => []ListTypeOK
<1>1. ListIInv => ListTypeOK
  BY DEF ListIInv
<1> QED BY <1>1, Invariance, PTL
-----------------------------------------------------------------------------
(* What the invariant is for. *)

LEMMA OldOrNew == ListIInv => OldOrNewOnCard
<1> SUFFICES ASSUME ListIInv, faults < 3, job.op \in {"save"} \cup Replacing
             PROVE  \E f \in Files : file[f] \in {L, job.in}
  BY DEF OldOrNewOnCard, OnCard, L, Replacing
<1> USE DEF ListIInv
<1>1. /\ "live" \in Files /\ "tmp" \in Files /\ job.slot \in Files
      /\ job.pc \in ListPcs
  BY DEF ListTypeOK, Job, Files, Lists, Slots
<1>2. job.pc \in Saving \cup {"rotate", "park", "unpark", "unrotate"}
  BY DEF Flow, Saving, Replacing
<1>3. CASE job.pc \in {"rotate", "park", "unrotate"}
  BY <1>1, <1>3 DEF Rotating, Parking, Unparking
<1>4. CASE job.pc \in {"open", "write"}
  BY <1>1, <1>4 DEF Landing, Parked
<1>5. CASE job.pc \in {"land", "commit"}
  BY <1>1, <1>5 DEF Landing
<1>6. CASE job.pc = "unpark"
  BY <1>1, <1>6 DEF Unparking
<1> QED BY <1>2, <1>3, <1>4, <1>5, <1>6 DEF Saving

\* For any faults but a third, and any power cuts: the old list or the new one is on
\* the card all through config_save and commit_config.
THEOREM ListIsKept == ConfigSpec => []OldOrNewOnCard
BY OldOrNew, Invariance, PTL

LEMMA Ages == ListIInv => BackupsAge
<1> SUFFICES ASSUME ListIInv, faults < 2, job.pc = "commit"
             PROVE  /\ job.op = "restore" => {file[f] : f \in Lists} = {job.had[f] : f \in Lists}
                    /\ job.op = "import"  => /\ file["bak"] = L
                                             /\ file["bak2"] = job.had["bak"]
  BY DEF BackupsAge, L
<1> USE DEF ListIInv
<1>1. /\ job.slot \in Slots
      /\ job.op \in Replacing => file[job.slot] = L
      /\ file["live"] = job.in
  BY DEF ListTypeOK, Job, Parked, Landing
<1>2. ASSUME job.op = "restore"
      PROVE  {file[f] : f \in Lists} = {job.had[f] : f \in Lists}
  <2>1. /\ file[job.slot] = job.had["live"] /\ file["live"] = job.had[job.slot]
        /\ file[Other(job.slot)] = job.had[Other(job.slot)]
    BY <1>1, <1>2 DEF Flow, Aging, Saving, Replacing, L
  <2>2. Lists = {"live", job.slot, Other(job.slot)}
    BY <1>1 DEF Lists, Slots, Other
  <2> QED BY <2>1, <2>2
<1>3. ASSUME job.op = "import"
      PROVE  file["bak"] = L /\ file["bak2"] = job.had["bak"]
  BY <1>1, <1>3 DEF Flow, Aging, Saving, Replacing
<1> QED BY <1>2, <1>3

\* With one fault at most, a restore swaps and an import ages the backups
\* (commit_config).
THEOREM BackupsAreAged == ConfigSpec => []BackupsAge
BY Ages, Invariance, PTL

\* What FailureIsUndone says of a step.
ListUndone ==
  faults' < 3 /\ job.op \in Replacing /\ job.pc # "commit" /\ job' = NoJob /\ run' = "on" =>
    file'["live"] = L /\ mem' = mem

LEMMA MoveUndoes ==
  ASSUME ListIInv, job.op \in Replacing, job' = NoJob, faults' < 3,
         Rename \/ NothingToMove \/ CopyRefused \/ Unlink
  PROVE  file'["live"] = L /\ mem' = mem
<1> USE DEF Moving
<1>1. /\ job \in Job /\ job.slot \in Slots /\ file \in [Files -> ListContents]
      /\ faults \in Nat
      /\ job.pc \in Moves /\ job.half \in {"rename", "copy", "unlink"}
  BY DEF ListIInv, ListTypeOK, Job, Rename, NothingToMove, CopyRefused, Unlink
<1>2. job.pc = "unrotate" \/ job.pc = "unpark"
  <2>1. Onward(TRUE) \/ Onward(FALSE)
    BY <1>1, MovedFacts DEF Rename, NothingToMove, CopyRefused, Unlink
  <2> QED BY <2>1, IdleFacts DEF Onward, Replacing
<1>3. faults' = faults \/ (faults' = faults + 1 /\ job.half = "copy")
  BY DEF Rename, NothingToMove, CopyRefused, Unlink, Refused
<1>4. faults < 3
  BY <1>1, <1>3
<1>5. CASE job.pc = "unrotate"
  <2>1. From = "bak2" /\ To = "bak"
    BY <1>5, <1>1, Ends
  <2>2. file["live"] = L
    BY <1>4, <1>5 DEF ListIInv, Unparking
  <2> QED BY <1>1, <2>1, <2>2 DEF Rename, NothingToMove, CopyRefused, Unlink,
             Files, Lists
<1>6. CASE job.pc = "unpark"
  <2>1. From = job.slot /\ To = "live"
    BY <1>6, <1>1, Ends
  <2>2. /\ file[job.slot] = L
        /\ job.half = "rename" => file["live"] = Absent
        /\ job.half = "copy" => faults >= 2
        /\ job.half = "unlink" => file["live"] = L
    BY <1>4, <1>6 DEF ListIInv, Unparking
  <2>3. ~CopyRefused
    <3> SUFFICES ASSUME CopyRefused PROVE FALSE
      OBVIOUS
    <3>1. faults' = faults + 1 /\ faults >= 2
      BY <2>2 DEF CopyRefused, Refused
    <3> QED BY <1>1, <3>1
  <2>4. CASE Rename
    BY <1>1, <2>1, <2>2, <2>4 DEF Rename, Files, Lists, Slots
  <2>5. CASE NothingToMove
    BY <2>1, <2>2, <2>5 DEF NothingToMove
  <2>6. CASE Unlink
    BY <1>1, <2>1, <2>2, <2>6 DEF Unlink, Files, Lists, Slots
  <2> QED BY <2>3, <2>4, <2>5, <2>6
<1> QED BY <1>2, <1>5, <1>6

LEMMA UndoneStep == ASSUME ListIInv, [ConfigNext]_configVars PROVE ListUndone
<1>1. SUFFICES ASSUME faults' < 3, job.op \in Replacing, job.pc # "commit", job' = NoJob,
                      run' = "on"
               PROVE  file'["live"] = L /\ mem' = mem
  BY DEF ListUndone
<1>2. /\ job \in Job /\ NoJob.pc = "idle" /\ job.op # "none" /\ job.op # "boot"
      /\ job.op # "save" /\ job.pc # "idle" /\ job.pc \notin {"seed", "seeding", "read", "migrate"}
  BY <1>1, IdleFacts DEF ListIInv, ListTypeOK, Flow, Replacing, Saving
<1>3. \A pc \in ListPcs \ {"idle"} : ~Proceed(pc)
  BY <1>1, <1>2, GotoFacts
<1>4. \A h \in {"rename", "copy", "unlink"} : job' # [job EXCEPT !.half = h]
  BY <1>1, <1>2, HalfFacts
<1>5. ~(ClearTarget \/ RenameRefused \/ Copied)
  BY <1>4 DEF ClearTarget, RenameRefused, Copied
<1>6. ~(OpenStage \/ CloseStage \/ SeedBegin \/ SeedNothing
        \/ SeedEnd \/ Read)
  BY <1>2, <1>3 DEF OpenStage, CloseStage, SeedBegin, SeedNothing, SeedEnd,
     Read, Doing, ListPcs, Moves
<1>7. ~(OpenFails \/ WriteRefused)
  BY <1>2, <1>3 DEF OpenFails, WriteRefused, Undo, ListPcs, Moves
<1>8. ~(Commit \/ Edit \/ Import
        \/ (\E s \in Slots : Restore(s)) \/ Start \/ Quit \/ PowerFails)
  BY <1>1, <1>2, IdleFacts DEF Commit, Edit, Import, Restore, Start, Quit,
     PowerFails, Ready, Doing, Off, ListIInv, Flow
<1>9. ~UNCHANGED configVars
  BY <1>1, <1>2 DEF configVars
<1>10. Rename \/ NothingToMove \/ CopyRefused \/ Unlink
  BY <1>5, <1>6, <1>7, <1>8, <1>9 DEF ConfigNext
<1> QED BY <1>1, <1>10, MoveUndoes

\* With two faults at most, an import or a restore that does not reach its commit
\* leaves the live list and the one in memory as they were (commit_config).
THEOREM FailuresAreUndone == ConfigSpec => FailureIsUndone
<1>1. ListIInv /\ [ConfigNext]_configVars => [ListUndone]_configVars
  BY UndoneStep
<1>2. ListUndone <=> (faults' < 3 /\ job.op \in {"import", "restore"} /\ job.pc # "commit"
                      /\ job' = NoJob /\ run' = "on"
                      => file'["live"] = job.had["live"] /\ mem' = mem)
  BY DEF ListUndone, Replacing, L
<1> QED BY <1>1, <1>2, Invariance, PTL DEF ConfigSpec, FailureIsUndone
=============================================================================
